------------------------- MODULE WorkflowRunsProofs -------------------------
(***************************************************************************)
(* Theorems of WorkflowRuns: types, the budget of attempts and steps, what *)
(* a success in the history means, and that the checkpoints implement      *)
(* DurableRun, for any definitions and edits of a workflow, any limits and *)
(* any number of executions.                                               *)
(*                                                                         *)
(* Every step of the service is a step of the engine or leaves the engine  *)
(* alone.  The first section says so, the others follow the engine.        *)
(***************************************************************************)
EXTENDS WorkflowRuns, SequenceTheorems, TLAPS

-----------------------------------------------------------------------------
(* Compiled graphs *)

Edges == [target : NodeIds, branch : {None, "true", "false"}]

\* What _resolve_next_node returns is the target of an edge; a node has at most two.
LEMMA ResolvedTarget ==
    ASSUME NEW edges, NEW branch, DOMAIN edges \subseteq {1, 2}, edges # <<>>,
           DOMAIN edges # {}
    PROVE  \E i \in DOMAIN edges : ResolveNext(edges, branch) = edges[i].target
<1> DEFINE of(b) == {i \in DOMAIN edges : edges[i].branch = b}
           least(some) == CHOOSE i \in some : \A j \in some : i <= j
<1>1. ASSUME NEW some \in SUBSET DOMAIN edges, some # {}
      PROVE  least(some) \in DOMAIN edges
  <2>1. \E i \in some : \A j \in some : i <= j
    BY <1>1, SMT
  <2> QED
    BY <1>1, <2>1
<1>2. \/ ResolveNext(edges, branch) = edges[least(of(branch))].target /\ of(branch) # {}
      \/ ResolveNext(edges, branch) = edges[least(of(None))].target /\ of(None) # {}
      \/ ResolveNext(edges, branch) = edges[least(DOMAIN edges)].target
  BY DEF ResolveNext
<1> QED
  BY <1>1, <1>2

\* A valid definition compiles to edges between its nodes, and only an end has none.
LEMMA CompiledNext ==
    ASSUME NEW w \in Workflows, NEW n \in DOMAIN w.nodes, NEW branch
    PROVE  LET next == ResolveNext(Compile(w).edges[n], branch)
           IN  /\ next \in NodeIds
               /\ w.nodes[n].type # "end" => next # None
<1> DEFINE edges == Compile(w).edges[n]
           node == w.nodes[n]
<1>1. Targets(node) \subseteq DOMAIN w.nodes /\ None \notin DOMAIN w.nodes
  BY WorkflowAssumption DEF ValidWorkflow, ValidButCyclic
<1>2. DOMAIN w.nodes \subseteq NodeIds
  BY DEF NodeIds
<1>3. edges = CASE node.type = "condition" -> <<Edge(node.yes, "true"), Edge(node.no, "false")>>
                [] node.type = "end"       -> <<>>
                [] OTHER                   -> <<Edge(node.next, None)>>
  BY DEF Compile
<1>4. CASE node.type = "end"
  <2>1. edges = <<>>
    BY <1>3, <1>4
  <2>2. ResolveNext(edges, branch) = None
    BY <2>1 DEF ResolveNext
  <2> QED
    BY <1>4, <2>2 DEF NodeIds
<1>5. CASE node.type # "end"
  <2>1. /\ DOMAIN edges \subseteq {1, 2} /\ edges # <<>> /\ DOMAIN edges # {}
        /\ \A i \in DOMAIN edges : edges[i].target \in Targets(node)
    <3>1. CASE node.type = "condition"
      <4>1. edges = <<Edge(node.yes, "true"), Edge(node.no, "false")>>
        BY <1>3, <1>5, <3>1
      <4>2. Targets(node) = {node.yes, node.no}
        BY <3>1 DEF Targets
      <4> QED
        BY <4>1, <4>2 DEF Edge
    <3>2. CASE node.type # "condition"
      <4>1. edges = <<Edge(node.next, None)>>
        BY <1>3, <1>5, <3>2
      <4>2. Targets(node) = {node.next}
        BY <1>5, <3>2 DEF Targets
      <4> QED
        BY <4>1, <4>2 DEF Edge
    <3> QED
      BY <3>1, <3>2
  <2>2. PICK i \in DOMAIN edges : ResolveNext(edges, branch) = edges[i].target
    BY <2>1, ResolvedTarget
  <2> QED
    BY <1>1, <1>2, <2>1, <2>2
<1> QED
  BY <1>4, <1>5

-----------------------------------------------------------------------------
(* The steps of the engine *)

\* _build_terminal_event, from wherever it is called.
Halts ==
    \E step \in {run.step, run.step + 1}, node \in NodeIds, at \in NodeIds, event \in TerminalEvents :
        /\ run.pc \in {"loop", "after", "node"}
        /\ step > run.step => AtLoop
        /\ Stop([run EXCEPT !.step = step, !.node = node], event, at)

Finishes == run.pc = "node" /\ \E result \in Results :
                /\ result.status = None =>
                      result.next # None \/ run.spec.nodes[run.node].type # "end"
                /\ result.status # None => result.next = None
                /\ FinishNode(result)

Retries == \E retries \in 0..MaxRetries, retryable \in BOOLEAN :
              RetryNode([retries |-> retries, quiet |-> TRUE], retryable)

Resumes == \E i \in DOMAIN ckpts : ResumeRun(Compile(wf), i)

\* What a new execution does ...
Starts ==
    /\ executions' = executions + 1
    /\ \/ ckpts = <<>> /\ StartRun(Compile(wf))
       \/ Resumes
       \/ UNCHANGED <<ckpts, run>>

\* ... and what one does that is under way.
GoesOn ==
    /\ executions' = executions
    /\ \/ RepeatTerminal \/ EnterNode \/ Emit \/ Retries \/ Finishes \/ Halts \/ Vanish
       \/ UNCHANGED <<ckpts, run>>

Engine == Starts \/ GoesOn

LEMMA Ids ==
    /\ None \in NodeIds
    /\ \A w \in Workflows : DOMAIN w.nodes \subseteq NodeIds /\ w.entry \in NodeIds
    /\ \A w \in Workflows : \A n \in DOMAIN w.nodes :
          Compile(w).nodes = w.nodes /\ Compile(w).entry = w.entry
BY WorkflowAssumption DEF NodeIds, ValidWorkflow, ValidButCyclic, Compile

LEMMA LinearNext ==
    ASSUME NEW w \in Workflows, NEW n \in DOMAIN w.nodes,
           w.nodes[n].type \in {"start", "llm", "artifact"}
    PROVE  w.nodes[n].next \in NodeIds \ {None}
<1>1. w.nodes[n].next \in DOMAIN w.nodes
  BY WorkflowAssumption DEF ValidWorkflow, ValidButCyclic, Targets
<1> QED
  BY <1>1, WorkflowAssumption, Ids

\* A run works on a compiled definition, a node that acts is one of it, and one that has
\* finished has left a result.
OnGraph ==
    /\ run.pc # "off" => run.spec \in {Compile(w) : w \in Workflows}
    /\ run.pc = "node" => run.node \in DOMAIN run.spec.nodes
    /\ run.pc = "after" => run.result \in Results

LEMMA ActingNode ==
    ASSUME OnGraph, run.pc = "node"
    PROVE  \E w \in Workflows : /\ run.spec = Compile(w) /\ run.node \in DOMAIN w.nodes
                                /\ Node = w.nodes[run.node]
<1>1. PICK w \in Workflows : run.spec = Compile(w)
  BY DEF OnGraph
<1>2. run.spec.nodes = w.nodes /\ run.node \in DOMAIN run.spec.nodes
  BY <1>1 DEF Compile, OnGraph
<1> QED
  BY <1>1, <1>2 DEF Node

LEMMA LinearFinish ==
    ASSUME TypeOK, OnGraph, run.pc = "node", Node.type \in {"start", "llm", "artifact"},
           FinishNode(Result(Node.next, None, None))
    PROVE  Finishes
<1>1. PICK w \in Workflows : run.spec = Compile(w) /\ run.node \in DOMAIN w.nodes
                             /\ Node = w.nodes[run.node]
  BY ActingNode
<1>2. Node.next \in NodeIds \ {None}
  BY <1>1, LinearNext
<1>3. Result(Node.next, None, None) \in Results
  BY <1>2 DEF Result, Results
<1>4. Result(Node.next, None, None).next # None /\ Result(Node.next, None, None).status = None
  BY <1>2 DEF Result
<1> QED
  BY <1>3, <1>4 DEF Finishes

LEMMA ConditionFinish ==
    ASSUME run.pc = "node", Node.type = "condition", NEW branch \in {"true", "false"},
           FinishNode(Result(None, branch, None))
    PROVE  Finishes
<1>1. Result(None, branch, None) \in Results
  BY Ids DEF Result, Results
<1>2. Result(None, branch, None).status = None /\ run.spec.nodes[run.node].type # "end"
  BY DEF Result, Node
<1> QED
  BY <1>1, <1>2 DEF Finishes

LEMMA EndFinish ==
    ASSUME run.pc = "node", FinishNode(Result(None, None, "completed"))
    PROVE  Finishes
<1>1. Result(None, None, "completed") \in Results
  BY Ids DEF Result, Results
<1>2. /\ Result(None, None, "completed").status # None
      /\ Result(None, None, "completed").next = None
  BY WorkflowAssumption DEF Result, TerminalEvents
<1> QED
  BY <1>1, <1>2 DEF Finishes

LEMMA FailHalts ==
    ASSUME TypeOK, NEW policy, NEW retryable, FailNode(policy, retryable)
    PROVE  Halts
<1>1. run.pc = "node" /\ Stop(run, "failed", run.node)
  BY DEF FailNode
<1>2. run = [run EXCEPT !.step = run.step, !.node = run.node]
  BY DEF TypeOK, RunStates
<1>3. run.node \in NodeIds /\ run.step \in 0..(MaxSteps + 1)
  BY EngineAssumption DEF TypeOK, RunStates
<1>4. run.step \in {run.step, run.step + 1} /\ ~(run.step > run.step)
  BY <1>3, EngineAssumption
<1>5. Stop([run EXCEPT !.step = run.step, !.node = run.node], "failed", run.node)
  BY <1>1, <1>2, Zenon
<1> QED
  BY <1>1, <1>3, <1>4, <1>5, Zenon DEF Halts, TerminalEvents

LEMMA LlmEngine ==
    ASSUME TypeOK, NEW retryable \in BOOLEAN, LlmFails(retryable)
    PROVE  GoesOn
<1>1. Policy(Node) = [retries |-> MaxRetries, quiet |-> TRUE]
  BY DEF LlmFails, Policy
<1>2. executions' = executions
  BY DEF LlmFails, serviceVars
<1>3. CASE RetryNode(Policy(Node), retryable)
  <2>1. MaxRetries \in 0..MaxRetries
    BY EngineAssumption
  <2>2. RetryNode([retries |-> MaxRetries, quiet |-> TRUE], retryable)
    BY <1>1, <1>3, Zenon
  <2> QED
    BY <1>2, <2>1, <2>2, Zenon DEF Retries, GoesOn
<1>4. CASE FailNode(Policy(Node), retryable)
  BY <1>2, <1>4, FailHalts DEF GoesOn
<1> QED
  BY <1>3, <1>4 DEF LlmFails

LEMMA LoopHalts ==
    ASSUME TypeOK, OnGraph, AtLoop, NEW at \in {None, Current}, Stop(NextStep, "failed", at)
    PROVE  Halts
<1>1. Current \in NodeIds
  BY DEF TypeOK, RunStates, OnGraph, Results, AtLoop, Current
<1>2. run.pc \in {"loop", "after", "node"}
  BY DEF AtLoop
<1>3. at \in NodeIds
  BY <1>1, Ids
<1>4. Stop([run EXCEPT !.step = run.step + 1, !.node = Current], "failed", at)
  BY Zenon DEF NextStep
<1> QED
  BY <1>1, <1>2, <1>3, <1>4, Zenon DEF Halts, TerminalEvents

LEMMA ConcludeHalts ==
    ASSUME TypeOK, OnGraph, Conclude
    PROVE  Halts
<1>1. run.pc = "after" /\ Stop(run, run.result.status, run.node)
  BY DEF Conclude
<1>2. run.result.status \in TerminalEvents
  BY DEF Conclude, OnGraph, Results, TerminalEvents
<1>3. run = [run EXCEPT !.step = run.step, !.node = run.node] /\ run.node \in NodeIds
  BY DEF TypeOK, RunStates
<1>4. Stop([run EXCEPT !.step = run.step, !.node = run.node], run.result.status, run.node)
  BY <1>1, <1>3, Zenon
<1>5. run.step \in {run.step, run.step + 1} /\ ~(run.step > run.step)
  BY EngineAssumption DEF TypeOK, RunStates
<1> QED
  BY <1>1, <1>2, <1>3, <1>4, <1>5, Zenon DEF Halts

LEMMA ActsAreEngine ==
    ASSUME TypeOK, OnGraph, Acts
    PROVE  GoesOn
<1>1. executions' = executions
  BY DEF Acts, StartActs, LlmFails, ConditionFails, ConditionEvaluates, ConditionFinishes,
         ArtifactFails, ArtifactWrites, ArtifactFinishes, EndReports, EndFinishes, serviceVars
<1>2. CASE StartActs
  BY <1>1, <1>2, LinearFinish DEF StartActs, GoesOn
<1>3. CASE LlmFails(TRUE)
  BY <1>1, <1>3, LlmEngine
<1>4. CASE ConditionFails \/ ArtifactFails
  BY <1>1, <1>4, FailHalts DEF ConditionFails, ArtifactFails, GoesOn
<1>5. CASE ConditionEvaluates \/ ArtifactWrites \/ EndReports
  BY <1>1, <1>5 DEF ConditionEvaluates, ArtifactWrites, EndReports, GoesOn
<1>6. CASE ConditionFinishes
  BY <1>1, <1>6, ConditionFinish DEF ConditionFinishes, GoesOn
<1>7. CASE ArtifactFinishes
  BY <1>1, <1>7, LinearFinish DEF ArtifactFinishes, GoesOn
<1>8. CASE EndFinishes
  BY <1>1, <1>8, EndFinish DEF EndFinishes, GoesOn
<1> QED
  BY <1>2, <1>3, <1>4, <1>5, <1>6, <1>7, <1>8 DEF Acts

LEMMA NextIsEngine ==
    ASSUME TypeOK, OnGraph, [Next]_vars
    PROVE  Engine
<1>1. CASE Execute \/ Resume \/ RejectInputs
  BY <1>1 DEF Execute, Resume, RejectInputs, Begin, Engine, Starts, Resumes
<1>2. CASE Edit \/ Record \/ Crash
  BY <1>2 DEF Edit, Record, Crash, Engine, GoesOn
<1>3. CASE EngineStep
  <2>1. executions' = executions
    BY <1>3 DEF EngineStep, serviceVars
  <2>2. CASE ExceedSteps
    BY <2>1, <2>2, LoopHalts DEF ExceedSteps, Engine, GoesOn
  <2>3. CASE MissNode
    BY <2>1, <2>3, LoopHalts DEF MissNode, Engine, GoesOn
  <2> QED
    BY <1>3, <2>1, <2>2, <2>3 DEF EngineStep, Engine, GoesOn
<1>4. CASE Completed
  BY <1>4, ConcludeHalts DEF Completed, serviceVars, Engine, GoesOn
<1>5. CASE LlmSpeaks
  BY <1>5 DEF LlmSpeaks, Engine, GoesOn
<1>6. CASE LlmFinishes
  BY <1>6, LinearFinish DEF LlmFinishes, Engine, GoesOn
<1>7. CASE LlmFails(FALSE)
  BY <1>7, LlmEngine DEF Engine
<1>8. CASE Acts
  BY <1>8, ActsAreEngine DEF Engine
<1>9. CASE UNCHANGED vars
  BY <1>9 DEF vars, serviceVars, Engine, GoesOn
<1> QED
  BY <1>1, <1>2, <1>3, <1>4, <1>5, <1>6, <1>7, <1>8, <1>9 DEF Next

-----------------------------------------------------------------------------
(* Types *)

\* A checkpoint that a run may go on from leaves room for a step.
WithinSteps ==
    /\ run.pc \in {"loop", "after", "node"} => run.step <= MaxSteps
    /\ \A i \in DOMAIN ckpts :
          ckpts[i].event \notin TerminalEvents => ckpts[i].step <= MaxSteps

EngineType == run \in RunStates /\ ckpts \in Seq(Checkpoints)

LEMMA CheckpointAt ==
    ASSUME EngineType, NEW i \in DOMAIN ckpts
    PROVE  ckpts[i] \in Checkpoints /\ i \in 1..Len(ckpts) /\ i \in Nat \ {0}
BY ElementOfSeq, LenProperties DEF EngineType

LEMMA OffType == Off \in RunStates
<1>1. <<>> \in Trails
  BY EmptySeq DEF Trails
<1> QED
  BY <1>1, Ids, EngineAssumption DEF Off, RunStates

\* One checkpoint more.
Saves(ckpt) ==
    /\ Len(ckpts) \in Nat
    /\ DOMAIN ckpts = 1..Len(ckpts) /\ DOMAIN ckpts' = 1..(Len(ckpts) + 1)
    /\ \A i \in DOMAIN ckpts : ckpts'[i] = ckpts[i]
    /\ ckpts'[Len(ckpts) + 1] = ckpt

LEMMA SaveType ==
    ASSUME EngineType, NEW r \in RunStates, NEW ckpt \in Checkpoints, Save(r, ckpt)
    PROVE  EngineType' /\ Saves(ckpt) /\ run' = [r EXCEPT !.seq = r.seq + 1]
<1>1. run' = [r EXCEPT !.seq = r.seq + 1] /\ run' \in RunStates
  BY DEF Save, RunStates
<1>2. ckpts' = Append(ckpts, ckpt) /\ ckpts \in Seq(Checkpoints)
  BY DEF Save, EngineType
<1>3. ckpts' \in Seq(Checkpoints) /\ Len(ckpts') = Len(ckpts) + 1
  BY <1>2, AppendProperties
<1>4. /\ \A i \in 1..Len(ckpts) : ckpts'[i] = ckpts[i]
      /\ ckpts'[Len(ckpts) + 1] = ckpt
  BY <1>2, AppendProperties
<1>5. DOMAIN ckpts = 1..Len(ckpts) /\ DOMAIN ckpts' = 1..Len(ckpts') /\ Len(ckpts) \in Nat
  BY <1>2, <1>3, LenProperties
<1> QED
  BY <1>1, <1>3, <1>4, <1>5 DEF EngineType, Saves

LEMMA CheckpointType ==
    ASSUME NEW r \in RunStates, NEW event \in Events, NEW node \in NodeIds
    PROVE  /\ Checkpoint(r, event, node) \in Checkpoints
           /\ Checkpoint(r, event, node).event = event
           /\ Checkpoint(r, event, node).node = node
           /\ Checkpoint(r, event, node).step = r.step
           /\ Checkpoint(r, event, node).trail = r.trail
BY Ids DEF Checkpoint, Checkpoints, RunStates

\* What each step does to the run and to the checkpoints.
LEMMA StartEffect ==
    ASSUME EngineType, NEW w \in Workflows, StartRun(Compile(w))
    PROVE  /\ EngineType'
           /\ \E c : Saves(c) /\ c.event = "started" /\ c.step = 0 /\ c.trail = <<>>
           /\ run.pc = "off" /\ run'.pc = "loop" /\ run'.spec = Compile(w)
           /\ run'.node = Compile(w).entry /\ run'.step = 0 /\ run'.from = 0
           /\ run'.trail = <<>> /\ run'.voices = 0
<1> DEFINE r == [Off EXCEPT !.pc = "loop", !.spec = Compile(w), !.node = Compile(w).entry]
<1>1. run.pc = "off" /\ Save(r, Checkpoint(r, "started", None))
  BY DEF StartRun
<1>2. r \in RunStates
  BY OffType, Ids DEF RunStates, Compile
<1>3. Checkpoint(r, "started", None) \in Checkpoints
  BY <1>2, CheckpointType, Ids DEF Events
<1>4. /\ Checkpoint(r, "started", None).event = "started"
      /\ Checkpoint(r, "started", None).step = r.step
      /\ Checkpoint(r, "started", None).trail = r.trail
  BY DEF Checkpoint
<1>5. /\ r.pc = "loop" /\ r.spec = Compile(w) /\ r.node = Compile(w).entry /\ r.step = 0
      /\ r.from = 0 /\ r.trail = <<>> /\ r.voices = 0
  BY DEF Off
<1>6. EngineType' /\ Saves(Checkpoint(r, "started", None)) /\ run' = [r EXCEPT !.seq = r.seq + 1]
  BY <1>1, <1>2, <1>3, SaveType
<1>7. \A f \in {"pc", "spec", "node", "step", "from", "trail", "voices"} : run'[f] = r[f]
  BY <1>2, <1>6 DEF RunStates
<1> HIDE DEF r
<1> QED
  BY <1>1, <1>4, <1>5, <1>6, <1>7

LEMMA HaltEffect ==
    ASSUME EngineType, WithinSteps, Halts
    PROVE  /\ EngineType'
           /\ \E c : /\ Saves(c) /\ c.event = run'.ending /\ c.step = run'.step
                     /\ c.trail = run.trail
           /\ run.pc \in {"loop", "after", "node"} /\ run'.pc = "over"
           /\ run'.ending \in TerminalEvents
           /\ run'.step \in {run.step, run.step + 1} /\ (run'.step > run.step => AtLoop)
           /\ run'.spec = run.spec /\ run'.from = run.from
           /\ run'.trail = run.trail /\ run'.voices = run.voices
<1>1. PICK step \in {run.step, run.step + 1}, node \in NodeIds, at \in NodeIds,
           event \in TerminalEvents :
        /\ run.pc \in {"loop", "after", "node"}
        /\ step > run.step => AtLoop
        /\ Stop([run EXCEPT !.step = step, !.node = node], event, at)
  BY DEF Halts
<1> DEFINE q == [run EXCEPT !.step = step, !.node = node]
           r == [q EXCEPT !.pc = "over", !.ending = event]
<1>2. step \in 0..(MaxSteps + 1)
  BY <1>1, EngineAssumption DEF WithinSteps, EngineType, RunStates
<1>3. q \in RunStates /\ r \in RunStates
  BY <1>2, <1>1 DEF EngineType, RunStates, Events
<1>4. Checkpoint(q, event, at) \in Checkpoints
  BY <1>3, CheckpointType DEF Events
<1>5. /\ Checkpoint(q, event, at).event = event
      /\ Checkpoint(q, event, at).step = q.step
      /\ Checkpoint(q, event, at).trail = q.trail
  BY DEF Checkpoint
<1>6. q.step = step /\ q.trail = run.trail
  BY DEF EngineType, RunStates
<1>7. /\ r.pc = "over" /\ r.ending = event /\ r.step = step /\ r.spec = run.spec
      /\ r.from = run.from /\ r.trail = run.trail /\ r.voices = run.voices
  BY DEF EngineType, RunStates
<1>8. Save(r, Checkpoint(q, event, at))
  BY <1>1 DEF Stop
<1>9. EngineType' /\ Saves(Checkpoint(q, event, at)) /\ run' = [r EXCEPT !.seq = r.seq + 1]
  BY <1>3, <1>4, <1>8, SaveType
<1>10. \A f \in {"pc", "ending", "step", "spec", "from", "trail", "voices"} : run'[f] = r[f]
  BY <1>3, <1>9 DEF RunStates
<1> HIDE DEF q, r
<1> QED
  BY <1>1, <1>5, <1>6, <1>7, <1>9, <1>10

LEMMA EnterEffect ==
    ASSUME EngineType, OnGraph, EnterNode
    PROVE  /\ EngineType'
           /\ \E c : /\ Saves(c) /\ c.event = "node_started" /\ c.step = run.step + 1
                     /\ c.trail = run.trail /\ c.node = Current
           /\ AtLoop /\ run'.pc = "node" /\ run'.step = run.step + 1 /\ run'.step <= MaxSteps
           /\ run'.node = Current /\ Current \in DOMAIN run.spec.nodes
           /\ run'.spec = run.spec /\ run'.from = run.from
           /\ run'.trail = run.trail /\ run'.voices = 0
<1> DEFINE r == [NextStep EXCEPT !.pc = "node", !.attempt = 1, !.spoke = FALSE, !.voices = 0]
           c == Checkpoint(NextStep, "node_started", Current)
<1>1. /\ AtLoop /\ NextStep.step <= MaxSteps /\ Current \in DOMAIN run.spec.nodes
      /\ Save(r, c)
  BY DEF EnterNode
<1>2. Current \in NodeIds
  BY <1>1 DEF EngineType, RunStates, OnGraph, Results, AtLoop, Current
<1>3. /\ NextStep.step = run.step + 1 /\ NextStep.node = Current
      /\ NextStep.trail = run.trail /\ NextStep.spec = run.spec /\ NextStep.from = run.from
  BY DEF NextStep, EngineType, RunStates
<1>4. run.step + 1 \in 0..(MaxSteps + 1)
  BY <1>1, <1>3, EngineAssumption DEF EngineType, RunStates
<1>5. NextStep \in RunStates
  BY <1>2, <1>4 DEF NextStep, EngineType, RunStates
<1>6. r \in RunStates
  <2>1. 1 \in 0..(MaxRetries + 1)
    BY EngineAssumption
  <2> QED
    BY <1>5, <2>1 DEF RunStates
<1>7. c \in Checkpoints
  BY <1>2, <1>5, CheckpointType DEF Events
<1>8. c.event = "node_started" /\ c.step = NextStep.step /\ c.trail = NextStep.trail /\ c.node = Current
  BY DEF Checkpoint
<1>9. /\ r.pc = "node" /\ r.step = NextStep.step /\ r.node = NextStep.node
      /\ r.spec = NextStep.spec /\ r.from = NextStep.from /\ r.trail = NextStep.trail
      /\ r.voices = 0
  BY <1>5 DEF RunStates
<1>10. EngineType' /\ Saves(c) /\ run' = [r EXCEPT !.seq = r.seq + 1]
  BY <1>1, <1>6, <1>7, SaveType
<1>11. \A f \in {"pc", "node", "step", "spec", "from", "trail", "voices"} : run'[f] = r[f]
  BY <1>6, <1>10 DEF RunStates
<1> HIDE DEF r, c
<1> QED
  BY <1>1, <1>3, <1>8, <1>9, <1>10, <1>11

\* The node that a finished one names.
LEMMA FinishEffect ==
    ASSUME EngineType, OnGraph, Finishes
    PROVE  \E next \in NodeIds :
           /\ EngineType'
           /\ \E c : /\ Saves(c) /\ c.event = "node_finished" /\ c.step = run.step
                     /\ c.trail = run'.trail /\ c.next = next
           /\ run.pc = "node" /\ run'.pc = "after" /\ run'.step = run.step
           /\ run'.node = run.node /\ run'.spec = run.spec /\ run'.from = run.from
           /\ run'.result \in Results /\ run'.result.next = next
           /\ (run'.result.status = None <=> next # None)
           /\ run'.trail = Append(run.trail, [node |-> run.node, next |-> next])
           /\ run'.voices = run.voices
<1>1. PICK result \in Results :
        /\ run.pc = "node"
        /\ result.status = None => result.next # None \/ run.spec.nodes[run.node].type # "end"
        /\ result.status # None => result.next = None
        /\ FinishNode(result)
  BY DEF Finishes
<1> DEFINE resolves == result.status = None /\ result.next = None
           next == IF resolves THEN ResolveNext(run.spec.edges[run.node], result.branch)
                   ELSE result.next
           full == [result EXCEPT !.next = next]
           step == [node |-> run.node, next |-> next]
           r == [run EXCEPT !.pc = "after", !.result = full, !.trail = Append(@, step)]
           c == [Checkpoint(r, "node_finished", run.node) EXCEPT
                    !.next = next, !.branch = result.branch]
<1>2. PICK w \in Workflows : run.spec = Compile(w) /\ run.node \in DOMAIN w.nodes
                             /\ Node = w.nodes[run.node]
  BY <1>1, ActingNode
<1>3. next \in NodeIds /\ (result.status = None <=> next # None)
  <2>1. CASE resolves
    <3>1. ResolveNext(Compile(w).edges[run.node], result.branch) \in NodeIds \ {None}
      BY <1>1, <1>2, <2>1, CompiledNext DEF Node
    <3> QED
      BY <1>2, <2>1, <3>1
  <2>2. CASE ~resolves
    BY <1>1, <2>2 DEF Results
  <2> QED
    BY <2>1, <2>2
<1>4. Save(r, c)
  BY <1>1, Zenon DEF FinishNode
<1> HIDE DEF next
<1>5. full \in Results /\ full.next = next /\ full.status = result.status
  BY <1>3 DEF Results
<1>6. step \in [node : NodeIds, next : NodeIds]
  BY <1>3 DEF EngineType, RunStates
<1>7. Append(run.trail, step) \in Trails
  BY <1>6, AppendProperties DEF EngineType, RunStates, Trails
<1> HIDE DEF full, step
<1>8. r \in RunStates
  BY <1>5, <1>7 DEF EngineType, RunStates
<1>9. /\ r.pc = "after" /\ r.result = full /\ r.trail = Append(run.trail, step)
      /\ r.step = run.step /\ r.node = run.node /\ r.spec = run.spec /\ r.from = run.from
      /\ r.voices = run.voices
  BY DEF EngineType, RunStates
<1> HIDE DEF r
<1>10. Checkpoint(r, "node_finished", run.node) \in Checkpoints
  BY <1>8, CheckpointType DEF EngineType, RunStates, Events
<1>11. c \in Checkpoints
  BY <1>1, <1>3, <1>10 DEF Checkpoints, Results
<1>12. c.event = "node_finished" /\ c.step = r.step /\ c.trail = r.trail /\ c.next = next
  BY DEF Checkpoint
<1> HIDE DEF c
<1>13. EngineType' /\ Saves(c) /\ run' = [r EXCEPT !.seq = r.seq + 1]
  BY <1>4, <1>8, <1>11, SaveType
<1>14. \A f \in {"pc", "node", "step", "spec", "from", "trail", "voices", "result"} :
          run'[f] = r[f]
  <2>1. \A f \in DOMAIN r \ {"seq"} : run'[f] = r[f]
    BY <1>13
  <2>2. {"pc", "node", "step", "spec", "from", "trail", "voices", "result"} \subseteq DOMAIN r
    BY <1>8 DEF RunStates
  <2> QED
    BY <2>1, <2>2
<1> QED
  BY <1>1, <1>3, <1>5, <1>9, <1>12, <1>13, <1>14 DEF step

LEMMA ResumeNodeType ==
    ASSUME NEW w \in Workflows, NEW c \in Checkpoints
    PROVE  ResumeNode(c, Compile(w)) \in NodeIds
<1> DEFINE edges == IF c.node \in DOMAIN Compile(w).nodes THEN Compile(w).edges[c.node] ELSE <<>>
           next == ResolveNext(edges, c.branch)
<1>1. next \in NodeIds
  <2>1. CASE c.node \in DOMAIN w.nodes
    BY <2>1, CompiledNext DEF Compile
  <2>2. CASE c.node \notin DOMAIN w.nodes
    <3>1. edges = <<>>
      BY <2>2 DEF Compile
    <3> QED
      BY <3>1, Ids DEF ResolveNext
  <2> QED
    BY <2>1, <2>2
<1>2. Compile(w).entry \in NodeIds /\ c.node \in NodeIds /\ c.next \in NodeIds
  BY Ids DEF Compile, Checkpoints
<1>3. ResumeNode(c, Compile(w)) \in {c.node, c.next, next, Compile(w).entry}
  BY Zenon DEF ResumeNode
<1> QED
  BY <1>1, <1>2, <1>3

LEMMA ResumeEffect ==
    ASSUME EngineType, wf \in Workflows, NEW i \in DOMAIN ckpts, ResumeRun(Compile(wf), i)
    PROVE  /\ EngineType' /\ ckpts' = ckpts
           /\ run.pc = "off"
           /\ run'.pc = IF ckpts[i].event \in TerminalEvents THEN "terminal" ELSE "loop"
           /\ run'.ending = ckpts[i].event /\ run'.step = ckpts[i].step
           /\ run'.trail = ckpts[i].trail /\ run'.from = i /\ run'.spec = Compile(wf)
           /\ run'.node = ResumeNode(ckpts[i], Compile(wf)) /\ run'.voices = 0
<1> DEFINE q == [Off EXCEPT !.seq = ckpts[i].seq, !.step = ckpts[i].step, !.trail = ckpts[i].trail]
           pc == IF ckpts[i].event \in TerminalEvents THEN "terminal" ELSE "loop"
           node == ResumeNode(ckpts[i], Compile(wf))
           r == [q EXCEPT !.pc = pc, !.spec = Compile(wf), !.from = i, !.node = node,
                          !.ending = ckpts[i].event]
<1>1. ckpts[i] \in Checkpoints /\ i \in Nat
  BY CheckpointAt
<1>2. q \in RunStates
  BY <1>1, OffType DEF RunStates, Checkpoints
<1>3. q.step = ckpts[i].step /\ q.trail = ckpts[i].trail /\ q.voices = 0
  BY DEF Off
<1>4. node \in NodeIds
  BY <1>1, ResumeNodeType
<1>5. run.pc = "off" /\ run' = r /\ ckpts' = ckpts
  BY DEF ResumeRun, Restored
<1> HIDE DEF q, node
<1>6. pc \in {"terminal", "loop"} /\ ckpts[i].event \in Events
  BY <1>1 DEF Checkpoints
<1> HIDE DEF pc
<1>7. r \in RunStates
  BY <1>1, <1>2, <1>4, <1>6 DEF RunStates
<1>8. /\ r.pc = pc /\ r.spec = Compile(wf) /\ r.from = i /\ r.node = node
      /\ r.ending = ckpts[i].event /\ r.step = q.step /\ r.trail = q.trail
      /\ r.voices = q.voices
  BY <1>2 DEF RunStates
<1> HIDE DEF r
<1> QED
  BY <1>3, <1>5, <1>7, <1>8 DEF EngineType, pc, node

\* The steps that save nothing.
LEMMA QuietEffect ==
    ASSUME EngineType, RepeatTerminal \/ Emit \/ Retries
    PROVE  /\ EngineType' /\ ckpts' = ckpts
           /\ \A f \in {"step", "spec", "from", "trail", "node", "ending", "result"} : run'[f] = run[f]
           /\ \/ run.pc = "terminal" /\ run'.pc = "over" /\ run'.voices = run.voices
              \/ /\ run.pc = "node" /\ run'.pc = "node"
                 /\ \/ run'.spoke /\ run'.voices = IF run.spoke THEN run.voices ELSE run.voices + 1
                    \/ ~run.spoke /\ ~run'.spoke /\ run'.voices = run.voices
<1>1. CASE RepeatTerminal
  BY <1>1 DEF RepeatTerminal, EngineType, RunStates
<1>2. CASE Emit
  <2> DEFINE voices == IF run.spoke THEN run.voices ELSE run.voices + 1
  <2>1. /\ run.pc = "node" /\ ckpts' = ckpts
        /\ run' = [run EXCEPT !.spoke = TRUE, !.voices = voices]
    BY <1>2 DEF Emit, EngineType, RunStates
  <2>2. voices \in Nat
    BY DEF EngineType, RunStates
  <2> HIDE DEF voices
  <2>3. /\ run' \in RunStates /\ run'.spoke /\ run'.voices = voices /\ run'.pc = run.pc
        /\ \A f \in {"step", "spec", "from", "trail", "node", "ending", "result"} : run'[f] = run[f]
    BY <2>1, <2>2 DEF EngineType, RunStates
  <2> QED
    BY <2>1, <2>3 DEF EngineType, voices
<1>3. CASE Retries
  <2>1. PICK retries \in 0..MaxRetries, retryable \in BOOLEAN :
           RetryNode([retries |-> retries, quiet |-> TRUE], retryable)
    BY <1>3 DEF Retries
  <2>2. /\ run.pc = "node" /\ ~run.spoke /\ ckpts' = ckpts
        /\ run.attempt < retries + 1 /\ run' = NextAttempt(run)
    BY <2>1 DEF RetryNode, AttemptsLeft, ShouldRetry
  <2>3. run.attempt + 1 \in 0..(MaxRetries + 1)
    BY <2>2, EngineAssumption DEF EngineType, RunStates
  <2> QED
    BY <2>2, <2>3 DEF NextAttempt, EngineType, RunStates
<1> QED
  BY <1>1, <1>2, <1>3

LEMMA VanishEffect ==
    ASSUME EngineType, Vanish
    PROVE  EngineType' /\ ckpts' = ckpts /\ run' = Off /\ run'.pc = "off"
BY OffType DEF Vanish, Off, EngineType

EngineInv == EngineType /\ OnGraph /\ WithinSteps

LEMMA EngineInvStep ==
    ASSUME EngineInv, wf \in Workflows, Engine
    PROVE  EngineInv'
<1> USE DEF EngineInv
<1>1. CASE Starts /\ ckpts = <<>> /\ StartRun(Compile(wf))
  <2>1. OnGraph'
    BY <1>1, StartEffect DEF OnGraph
  <2>2. WithinSteps'
    BY <1>1, StartEffect, EngineAssumption DEF WithinSteps, Saves
  <2> QED
    BY <1>1, <2>1, <2>2, StartEffect
<1>2. CASE Resumes
  <2>1. PICK i \in DOMAIN ckpts : ResumeRun(Compile(wf), i)
    BY <1>2 DEF Resumes
  <2> QED
    BY <2>1, ResumeEffect DEF OnGraph, WithinSteps
<1>3. CASE RepeatTerminal \/ Emit \/ Retries
  <2>1. OnGraph'
    BY <1>3, QuietEffect DEF OnGraph
  <2>2. WithinSteps'
    BY <1>3, QuietEffect DEF WithinSteps
  <2> QED
    BY <1>3, <2>1, <2>2, QuietEffect
<1>4. CASE EnterNode
  <2>1. OnGraph'
    BY <1>4, EnterEffect DEF OnGraph, AtLoop
  <2>2. WithinSteps'
    BY <1>4, EnterEffect DEF WithinSteps, Saves
  <2> QED
    BY <1>4, <2>1, <2>2, EnterEffect
<1>5. CASE Finishes
  <2>1. PICK next \in NodeIds :
           /\ \E c : Saves(c) /\ c.step = run.step
           /\ run.pc = "node" /\ run'.pc = "after" /\ run'.step = run.step
           /\ run'.spec = run.spec /\ run'.result \in Results
    BY <1>5, FinishEffect
  <2>2. OnGraph'
    BY <2>1 DEF OnGraph
  <2>3. WithinSteps'
    BY <2>1 DEF WithinSteps, Saves
  <2> QED
    BY <1>5, <2>2, <2>3, FinishEffect
<1>6. CASE Halts
  <2>1. OnGraph'
    BY <1>6, HaltEffect DEF OnGraph
  <2>2. WithinSteps'
    BY <1>6, HaltEffect DEF WithinSteps, Saves
  <2> QED
    BY <1>6, <2>1, <2>2, HaltEffect
<1>7. CASE Vanish
  BY <1>7, VanishEffect DEF OnGraph, WithinSteps
<1>8. CASE UNCHANGED <<ckpts, run>>
  BY <1>8 DEF OnGraph, WithinSteps, EngineType
<1> QED
  BY <1>1, <1>2, <1>3, <1>4, <1>5, <1>6, <1>7, <1>8 DEF Engine, Starts, GoesOn

\* What the service keeps has its type.
ServiceType ==
    /\ wf \in Workflows /\ request \in Requests
    /\ output \in {None, "full", "blank"} /\ file \in {None, "full", "blank"}
    /\ records \in Seq({"success", "error"})
    /\ executions \in 0..MaxExecutions /\ edits \in 0..MaxEdits

LEMMA InsertedType ==
    ASSUME records \in Seq({"success", "error"}), NEW record \in {"success", "error"}
    PROVE  /\ Inserted(record) \in Seq({"success", "error"})
           /\ \A i \in DOMAIN Inserted(record) :
                 Inserted(record)[i] = record
                 \/ \E j \in DOMAIN records : Inserted(record)[i] = records[j]
<1> DEFINE S == {"success", "error"}
           n == IF Len(records) < HistoryLimit THEN Len(records) + 1 ELSE HistoryLimit
           all == <<record>> \o records
<1>1. <<record>> \in Seq(S) /\ Len(<<record>>) = 1 /\ <<record>>[1] = record
  OBVIOUS
<1>2. /\ all \in Seq(S) /\ Len(all) = 1 + Len(records)
      /\ \A i \in 1..(1 + Len(records)) :
            all[i] = IF i <= 1 THEN <<record>>[i] ELSE records[i - 1]
  BY <1>1, ConcatProperties
<1>3. Len(records) \in Nat /\ DOMAIN records = 1..Len(records)
  BY LenProperties
<1>4. n \in 1..(1 + Len(records))
  BY <1>3, WorkflowAssumption
<1>5. \A i \in 1..n : all[i] \in S
  BY <1>2, <1>3, <1>4, ElementOfSeq
<1> HIDE DEF n, all
<1>6. SubSeq(all, 1, n) \in Seq(S) /\ Len(SubSeq(all, 1, n)) = n
      /\ \A i \in 1..n : SubSeq(all, 1, n)[i] = all[i]
  <2>1. n \in Nat /\ 1 \in Int /\ n \in Int /\ 1 <= n
    BY <1>3, <1>4
  <2>2. /\ SubSeq(all, 1, n) \in Seq(S)
        /\ Len(SubSeq(all, 1, n)) = IF 1 <= n THEN n - 1 + 1 ELSE 0
        /\ \A i \in 1..(n - 1 + 1) : SubSeq(all, 1, n)[i] = all[1 + i - 1]
    BY <1>5, <2>1, SubSeqProperties
  <2> QED
    BY <2>1, <2>2
<1>7. Inserted(record) = SubSeq(all, 1, n)
  BY DEF Inserted, all, n
<1>8. DOMAIN Inserted(record) = 1..n
  BY <1>6, <1>7, LenProperties
<1>9. ASSUME NEW i \in 1..n
      PROVE  all[i] = record \/ \E j \in DOMAIN records : all[i] = records[j]
  <2>1. CASE i = 1
    BY <1>1, <1>2, <1>3, <2>1
  <2>2. CASE i # 1
    <3>1. all[i] = records[i - 1] /\ i - 1 \in DOMAIN records
      BY <1>2, <1>3, <1>4, <2>2
    <3> QED
      BY <3>1
  <2> QED
    BY <2>1, <2>2
<1> QED
  BY <1>6, <1>7, <1>8, <1>9

\* The history grows by the outcome of the run that ends, or by an error.
LEMMA HistoryStep ==
    ASSUME [Next]_vars
    PROVE  \/ records' = records
           \/ \E record \in {"success", "error"} :
                 /\ records' = Inserted(record)
                 /\ record = "success" => run.pc = "over" /\ run.ending = "completed"
<1>1. CASE Record
  BY <1>1 DEF Record, Outcome
<1>2. CASE RejectInputs
  BY <1>2 DEF RejectInputs
<1>3. CASE ~Record /\ ~RejectInputs
  BY <1>3 DEF Next, vars, serviceVars, Execute, Resume, Edit, EngineStep, Completed, LlmSpeaks,
         LlmFinishes, LlmFails, Acts, StartActs, ConditionFails, ConditionEvaluates,
         ConditionFinishes, ArtifactFails, ArtifactWrites, ArtifactFinishes, EndReports,
         EndFinishes, Crash
<1> QED
  BY <1>1, <1>2, <1>3

LEMMA ServiceTypeStep ==
    ASSUME ServiceType, [Next]_vars
    PROVE  ServiceType'
<1>1. records' \in Seq({"success", "error"})
  BY HistoryStep, InsertedType DEF ServiceType
<1>2. wf' \in Workflows /\ request' = request /\ executions' \in 0..MaxExecutions
      /\ edits' \in 0..MaxEdits
  <2>1. CASE Execute \/ Resume \/ RejectInputs
    BY <2>1, WorkflowAssumption DEF Execute, Resume, RejectInputs, Begin, ServiceType
  <2>2. CASE Edit
    BY <2>2, WorkflowAssumption DEF Edit, ServiceType
  <2>3. CASE ~(Execute \/ Resume \/ RejectInputs \/ Edit)
    BY <2>3 DEF ServiceType, Next, vars, serviceVars, EngineStep, Completed, LlmSpeaks,
           LlmFinishes, LlmFails, Acts, StartActs, ConditionFails, ConditionEvaluates,
           ConditionFinishes, ArtifactFails, ArtifactWrites, ArtifactFinishes, EndReports,
           EndFinishes, Crash, Record
  <2> QED
    BY <2>1, <2>2, <2>3
<1>3. output' \in {None, "full", "blank"} /\ file' \in {None, "full", "blank"}
  BY DEF ServiceType, Next, vars, serviceVars, Execute, Resume, RejectInputs, Begin, Edit,
         EngineStep, Completed, LlmSpeaks, LlmFinishes, LlmFails, Acts, StartActs,
         ConditionFails, ConditionEvaluates, ConditionFinishes, ArtifactFails, ArtifactWrites,
         ArtifactFinishes, EndReports, EndFinishes, Crash, Record, Rendered
<1> QED
  BY <1>1, <1>2, <1>3 DEF ServiceType

WorkflowInv == EngineInv /\ ServiceType

LEMMA WorkflowInvType == WorkflowInv => TypeOK
BY DEF WorkflowInv, EngineInv, EngineType, ServiceType, TypeOK

LEMMA WorkflowInvInit == Init => WorkflowInv
<1> SUFFICES ASSUME Init PROVE WorkflowInv
  OBVIOUS
<1>1. EngineInv
  BY OffType, EmptySeq DEF Init, EngineInv, EngineType, OnGraph, WithinSteps, Off
<1>2. ServiceType
  BY EmptySeq, WorkflowAssumption DEF Init, ServiceType
<1> QED
  BY <1>1, <1>2 DEF WorkflowInv

LEMMA WorkflowInvStep == WorkflowInv /\ [Next]_vars => Engine /\ WorkflowInv'
<1> SUFFICES ASSUME WorkflowInv, [Next]_vars PROVE Engine /\ WorkflowInv'
  OBVIOUS
<1>1. Engine
  BY WorkflowInvType, NextIsEngine DEF WorkflowInv, EngineInv
<1> QED
  BY <1>1, EngineInvStep, ServiceTypeStep DEF WorkflowInv, ServiceType

\* The engine, its store and the service hold what they are declared to: no node is tried
\* more often than its policy allows and no execution enters more than max_steps nodes.
THEOREM TypeCorrect == Spec => []TypeOK
BY WorkflowInvInit, WorkflowInvStep, WorkflowInvType, PTL DEF Spec

-----------------------------------------------------------------------------
(* Attempts and steps *)

\* An attempt that has not spoken follows none that has.
Speaking == run.voices <= 1 /\ (run.pc = "node" /\ ~run.spoke => run.voices = 0)

WithinBudget(ckpt, n) == ckpt.step <= Len(ckpt.trail) + n

\* Steps are nodes that have finished and, once per execution, one that has not; between two
\* nodes none is under way.
Budget ==
    /\ run.step <= Len(run.trail) + executions
    /\ run.pc = "after" => run.step < Len(run.trail) + executions
    /\ run.pc = "loop" => run.step < Len(run.trail) + executions
    /\ \A i \in DOMAIN ckpts : WithinBudget(ckpts[i], executions)

LEMMA SpeakingStep ==
    ASSUME EngineInv, wf \in Workflows, Speaking, Engine
    PROVE  Speaking'
<1> USE DEF EngineInv
<1>1. CASE Starts /\ ckpts = <<>> /\ StartRun(Compile(wf))
  BY <1>1, StartEffect DEF Speaking
<1>2. CASE Resumes
  <2>1. PICK i \in DOMAIN ckpts : ResumeRun(Compile(wf), i)
    BY <1>2 DEF Resumes
  <2> QED
    BY <2>1, ResumeEffect DEF Speaking
<1>3. CASE RepeatTerminal \/ Emit \/ Retries
  BY <1>3, QuietEffect DEF Speaking
<1>4. CASE EnterNode
  BY <1>4, EnterEffect DEF Speaking
<1>5. CASE Finishes
  BY <1>5, FinishEffect DEF Speaking
<1>6. CASE Halts
  BY <1>6, HaltEffect DEF Speaking
<1>7. CASE Vanish
  BY <1>7, VanishEffect DEF Speaking, Off
<1>8. CASE UNCHANGED <<ckpts, run>>
  BY <1>8 DEF Speaking
<1> QED
  BY <1>1, <1>2, <1>3, <1>4, <1>5, <1>6, <1>7, <1>8 DEF Engine, Starts, GoesOn

\* What holds of the saved checkpoints and of the new one holds of all.
LEMMA SavedOnly ==
    ASSUME NEW c, Saves(c)
    PROVE  \A i \in DOMAIN ckpts' : \/ i \in DOMAIN ckpts /\ ckpts'[i] = ckpts[i]
                                    \/ ckpts'[i] = c
BY DEF Saves

LEMMA BudgetStep ==
    ASSUME EngineInv, ServiceType, Budget, Engine
    PROVE  Budget'
<1> USE DEF EngineInv
<1> DEFINE Kept == \A i \in DOMAIN ckpts' : WithinBudget(ckpts'[i], executions')
<1>1. executions \in Nat /\ executions' \in {executions, executions + 1} /\ run.step \in Nat
  BY EngineAssumption, WorkflowAssumption DEF ServiceType, EngineType, RunStates, Engine, Starts,
     GoesOn
<1>2. Len(run.trail) \in Nat
  BY LenProperties DEF EngineType, RunStates, Trails
<1>3. \A i \in DOMAIN ckpts : WithinBudget(ckpts[i], executions')
  <2> SUFFICES ASSUME NEW i \in DOMAIN ckpts
               PROVE  WithinBudget(ckpts[i], executions')
    OBVIOUS
  <2>1. Len(ckpts[i].trail) \in Nat /\ ckpts[i].step \in Nat
    BY CheckpointAt, LenProperties DEF Checkpoints, Trails
  <2>2. ckpts[i].step <= Len(ckpts[i].trail) + executions
    BY DEF Budget, WithinBudget
  <2> QED
    BY <1>1, <2>1, <2>2 DEF WithinBudget
<1>4. ASSUME NEW c, Saves(c), WithinBudget(c, executions')
      PROVE  Kept
  BY <1>3, <1>4, SavedOnly
<1>5. ckpts' = ckpts => Kept
  BY <1>3
<1>6. CASE Starts
  <2>1. executions' = executions + 1
    BY <1>6 DEF Starts
  <2>2. \A n, m \in Nat : n <= m + executions =>
                              n < m + (executions + 1) /\ n <= m + (executions + 1)
    BY <1>1
  <2>3. CASE ckpts = <<>> /\ StartRun(Compile(wf))
    <3>1. PICK c : Saves(c) /\ c.step = 0 /\ c.trail = <<>>
      BY <2>3, StartEffect DEF ServiceType
    <3>2. run'.step = 0 /\ Len(run'.trail) = 0
      BY <2>3, StartEffect DEF ServiceType
    <3>3. WithinBudget(c, executions')
      BY <1>1, <2>1, <3>1 DEF WithinBudget
    <3>4. Kept
      BY <1>4, <3>1, <3>3
    <3> QED
      BY <1>1, <2>1, <3>2, <3>4 DEF Budget
  <2>4. CASE Resumes
    <3>1. PICK i \in DOMAIN ckpts : ResumeRun(Compile(wf), i)
      BY <2>4 DEF Resumes
    <3>2. ckpts' = ckpts /\ run'.step = ckpts[i].step /\ run'.trail = ckpts[i].trail
      BY <3>1, ResumeEffect DEF ServiceType
    <3>3. Len(ckpts[i].trail) \in Nat /\ ckpts[i].step \in Nat
      BY <3>1, CheckpointAt, LenProperties DEF Checkpoints, Trails
    <3>4. ckpts[i].step <= Len(ckpts[i].trail) + executions
      BY <3>1 DEF Budget, WithinBudget
    <3>5. run'.step < Len(run'.trail) + executions' /\ run'.step <= Len(run'.trail) + executions'
      BY <2>1, <2>2, <3>2, <3>3, <3>4
    <3> QED
      BY <1>5, <3>2, <3>5 DEF Budget
  <2>5. CASE UNCHANGED <<ckpts, run>>
    <3>1. run' = run /\ Kept
      BY <1>5, <2>5
    <3>2. run.step <= Len(run.trail) + executions
      BY DEF Budget
    <3>3. run.step <= Len(run.trail) + (executions + 1) /\ run.step < Len(run.trail) + (executions + 1)
      BY <1>2, <1>1, <2>2, <3>2
    <3> QED
      BY <2>1, <3>1, <3>3 DEF Budget
  <2> QED
    BY <1>6, <2>3, <2>4, <2>5 DEF Starts
<1>7. CASE GoesOn
  <2>1. executions' = executions
    BY <1>7 DEF GoesOn
  <2>2. CASE RepeatTerminal \/ Emit \/ Retries
    <3>1. /\ Kept /\ run'.step = run.step /\ run'.trail = run.trail
          /\ run'.pc \notin {"after", "loop"}
      BY <1>5, <2>2, QuietEffect
    <3> QED
      BY <2>1, <3>1 DEF Budget
  <2>3. CASE EnterNode
    <3>1. PICK c : Saves(c) /\ c.step = run.step + 1 /\ c.trail = run.trail
      BY <2>3, EnterEffect
    <3>2. AtLoop /\ run'.pc = "node" /\ run'.step = run.step + 1 /\ run'.trail = run.trail
      BY <2>3, EnterEffect
    <3>3. run.step + 1 <= Len(run.trail) + executions
      BY <1>1, <1>2, <3>2 DEF AtLoop, Budget
    <3>4. Kept
      BY <1>4, <2>1, <3>1, <3>3 DEF WithinBudget
    <3> QED
      BY <2>1, <3>2, <3>3, <3>4 DEF Budget
  <2>4. CASE Finishes
    <3>1. PICK next \in NodeIds :
             /\ \E c : Saves(c) /\ c.step = run.step /\ c.trail = run'.trail
             /\ run'.pc = "after" /\ run'.step = run.step
             /\ run'.trail = Append(run.trail, [node |-> run.node, next |-> next])
      BY <2>4, FinishEffect
    <3>2. Len(run'.trail) = Len(run.trail) + 1
      <4>1. /\ run.trail \in Seq([node : NodeIds, next : NodeIds])
            /\ [node |-> run.node, next |-> next] \in [node : NodeIds, next : NodeIds]
        BY <3>1 DEF EngineType, RunStates, Trails
      <4> QED
        BY <3>1, <4>1, AppendProperties
    <3>3. PICK c : Saves(c) /\ c.step = run.step /\ c.trail = run'.trail
      BY <3>1
    <3>4. run'.step < Len(run'.trail) + executions
      BY <1>1, <1>2, <3>1, <3>2 DEF Budget
    <3>5. run'.step <= Len(run'.trail) + executions
      BY <1>1, <1>2, <3>1, <3>2 DEF Budget
    <3>6. Kept
      BY <1>4, <2>1, <3>1, <3>3, <3>5 DEF WithinBudget
    <3> QED
      BY <2>1, <3>1, <3>4, <3>5, <3>6 DEF Budget
  <2>5. CASE Halts
    <3>1. PICK c : Saves(c) /\ c.step = run'.step /\ c.trail = run.trail
      BY <2>5, HaltEffect
    <3>2. /\ run'.pc = "over" /\ run'.trail = run.trail
          /\ run'.step \in {run.step, run.step + 1} /\ (run'.step > run.step => AtLoop)
      BY <2>5, HaltEffect
    <3>3. run'.step <= Len(run.trail) + executions
      BY <1>1, <1>2, <3>2 DEF AtLoop, Budget
    <3>4. Kept
      BY <1>4, <2>1, <3>1, <3>3 DEF WithinBudget
    <3> QED
      BY <2>1, <3>2, <3>3, <3>4 DEF Budget
  <2>6. CASE Vanish
    <3>1. run'.step = 0 /\ Len(run'.trail) = 0 /\ run'.pc = "off" /\ ckpts' = ckpts
      BY <2>6, VanishEffect DEF Off
    <3> QED
      BY <1>1, <1>5, <2>1, <3>1 DEF Budget
  <2>7. CASE UNCHANGED <<ckpts, run>>
    BY <2>1, <2>7 DEF Budget
  <2> QED
    BY <1>7, <2>2, <2>3, <2>4, <2>5, <2>6, <2>7 DEF GoesOn
<1> QED
  BY <1>6, <1>7 DEF Engine

\* A client hears one attempt of a node at most, and the counter that stops loops counts what
\* was really taken, however often the run was resumed (_should_retry, resume_stream).
THEOREM AttemptsCorrect == Spec => []AttemptsAccounted
<1> DEFINE Inv == WorkflowInv /\ Speaking /\ Budget
<1>1. Init => Inv
  <2> SUFFICES ASSUME Init PROVE Inv
    OBVIOUS
  <2>1. Len(run.trail) = 0 /\ run.step = 0 /\ run.voices = 0 /\ run.pc = "off"
    BY DEF Init, Off
  <2> QED
    BY <2>1, WorkflowInvInit DEF Init, Speaking, Budget
<1>2. Inv /\ [Next]_vars => Inv'
  BY WorkflowInvStep, SpeakingStep, BudgetStep DEF WorkflowInv, ServiceType
<1>3. Inv => AttemptsAccounted
  BY DEF Speaking, Budget, AttemptsAccounted, OneAttemptSpeaks, StepsAccounted
<1> QED
  BY <1>1, <1>2, <1>3, PTL DEF Spec

-----------------------------------------------------------------------------
(* Success *)

HasCompleted == \E i \in DOMAIN ckpts : ckpts[i].event = "completed"

Concluded == run.pc \in {"over", "terminal"} /\ run.ending = "completed" => HasCompleted

\* Checkpoints are never changed or removed.
LEMMA StoreGrows ==
    ASSUME EngineInv, wf \in Workflows, Engine
    PROVE  \A i \in DOMAIN ckpts : i \in DOMAIN ckpts' /\ ckpts'[i] = ckpts[i]
<1> USE DEF EngineInv
<1>1. (\E c : Saves(c)) \/ ckpts' = ckpts
  BY StartEffect, ResumeEffect, QuietEffect, EnterEffect, FinishEffect, HaltEffect, VanishEffect
     DEF Engine, Starts, GoesOn, Resumes
<1> QED
  BY <1>1 DEF Saves

LEMMA ConcludedStep ==
    ASSUME EngineInv, wf \in Workflows, Concluded, Engine
    PROVE  Concluded' /\ (HasCompleted => HasCompleted')
<1> USE DEF EngineInv
<1>1. HasCompleted => HasCompleted'
  BY StoreGrows DEF HasCompleted
<1>2. CASE Starts /\ ckpts = <<>> /\ StartRun(Compile(wf))
  BY <1>1, <1>2, StartEffect DEF Concluded
<1>3. CASE Resumes
  <2>1. PICK i \in DOMAIN ckpts : ResumeRun(Compile(wf), i)
    BY <1>3 DEF Resumes
  <2> QED
    BY <2>1, ResumeEffect DEF Concluded, HasCompleted
<1>4. CASE RepeatTerminal \/ Emit \/ Retries
  BY <1>1, <1>4, QuietEffect DEF Concluded
<1>5. CASE EnterNode
  BY <1>1, <1>5, EnterEffect DEF Concluded
<1>6. CASE Finishes
  BY <1>1, <1>6, FinishEffect DEF Concluded
<1>7. CASE Halts
  <2>1. PICK c : Saves(c) /\ c.event = run'.ending
    BY <1>7, HaltEffect
  <2> QED
    BY <2>1 DEF Concluded, HasCompleted, Saves
<1>8. CASE Vanish
  BY <1>1, <1>8, VanishEffect DEF Concluded
<1>9. CASE UNCHANGED <<ckpts, run>>
  BY <1>9 DEF Concluded, HasCompleted
<1> QED
  BY <1>1, <1>2, <1>3, <1>4, <1>5, <1>6, <1>7, <1>8, <1>9 DEF Engine, Starts, GoesOn

\* A client that stops reading, a crash or a resume never makes a record of a completion that
\* no checkpoint shows (the finally clause of execute_stream).
THEOREM SuccessCorrect == Spec => []SuccessIsDurable
<1> DEFINE Inv == WorkflowInv /\ Concluded /\ SuccessIsDurable
<1>1. Init => Inv
  BY WorkflowInvInit DEF Init, Off, Concluded, SuccessIsDurable
<1>2. Inv /\ [Next]_vars => Inv'
  <2> SUFFICES ASSUME Inv, [Next]_vars PROVE Inv'
    OBVIOUS
  <2>1. WorkflowInv' /\ Concluded' /\ (HasCompleted => HasCompleted')
    BY WorkflowInvStep, ConcludedStep DEF WorkflowInv, ServiceType
  <2>2. CASE records' = records
    BY <2>1, <2>2 DEF SuccessIsDurable, HasCompleted
  <2>3. ASSUME NEW record \in {"success", "error"}, records' = Inserted(record),
               record = "success" => run.pc = "over" /\ run.ending = "completed"
        PROVE  SuccessIsDurable'
    <3>1. \A i \in DOMAIN records' : records'[i] = record
                                     \/ \E j \in DOMAIN records : records'[i] = records[j]
      BY <2>3, InsertedType DEF WorkflowInv, ServiceType
    <3>2. record = "success" => HasCompleted
      BY <2>3 DEF Concluded
    <3> QED
      BY <2>1, <3>1, <3>2 DEF SuccessIsDurable, HasCompleted
  <2> QED
    BY <2>1, <2>2, <2>3, HistoryStep
<1>3. Inv => SuccessIsDurable
  OBVIOUS
<1> QED
  BY <1>1, <1>2, <1>3, PTL DEF Spec

-----------------------------------------------------------------------------
(* The checkpoints implement the durable run *)

Walks == {<<>>} \cup {ckpts[i].trail : i \in DOMAIN ckpts}

Names(trail) == trail # <<>> /\ trail[Len(trail)].next # None

DueNode == IF Names(run.trail) THEN run.trail[Len(run.trail)].next ELSE Entered

\* What a checkpoint says of the walk it holds.
Consistent(c) ==
    /\ c.event = "started" => c.trail = <<>>
    /\ c.event = "node_started" /\ Names(c.trail) => c.node = c.trail[Len(c.trail)].next
    /\ c.event = "node_finished" => c.trail # <<>> /\ c.next = c.trail[Len(c.trail)].next

\* The run is on a walk that was saved, and at the node due after it.
OnWalk ==
    /\ run.trail \in Walks
    /\ run.pc = "off" => run.trail = <<>>
    /\ run.pc # "off" => run.from = 0 \/ run.from \in DOMAIN ckpts
    /\ run.pc \in {"loop", "node"} => run.node = DueNode
    /\ run.pc = "after" => /\ run.trail # <<>>
                           /\ run.trail[Len(run.trail)].next = run.result.next
                           /\ run.result.status = None <=> run.result.next # None
    /\ \A i \in DOMAIN ckpts : Consistent(ckpts[i])

LEMMA SavedWalks ==
    ASSUME NEW c, Saves(c)
    PROVE  Walks' = Walks \cup {c.trail}
<1>1. Walks' \subseteq Walks \cup {c.trail}
  BY SavedOnly DEF Walks
<1>2. \A i \in DOMAIN ckpts : i \in DOMAIN ckpts' /\ ckpts'[i] = ckpts[i]
  BY DEF Saves
<1>3. Walks \subseteq Walks'
  BY <1>2 DEF Walks
<1>4. Len(ckpts) + 1 \in DOMAIN ckpts' /\ ckpts'[Len(ckpts) + 1] = c
  BY DEF Saves
<1>5. c.trail \in Walks'
  BY <1>4 DEF Walks
<1> QED
  BY <1>1, <1>3, <1>5

\* The node of a walk that names none is settled when the execution starts.
LEMMA EnteredKept ==
    ASSUME OnWalk, run.pc # "off", run'.from = run.from, run'.spec = run.spec,
           (\E c : Saves(c)) \/ ckpts' = ckpts
    PROVE  Entered' = Entered
<1>1. run.from # 0 => ckpts'[run.from] = ckpts[run.from]
  BY DEF OnWalk, Saves
<1> QED
  BY <1>1 DEF Entered

LEMMA SavedConsistent ==
    ASSUME OnWalk, NEW c, Saves(c), Consistent(c)
    PROVE  \A i \in DOMAIN ckpts' : Consistent(ckpts'[i])
BY SavedOnly DEF OnWalk

LEMMA StartOnWalk ==
    ASSUME EngineInv, OnWalk, wf \in Workflows, StartRun(Compile(wf))
    PROVE  OnWalk' /\ Walks' = Walks
<1>1. PICK c : Saves(c) /\ c.event = "started" /\ c.trail = <<>>
  BY StartEffect DEF EngineInv
<1>2. /\ run'.pc = "loop" /\ run'.spec = Compile(wf) /\ run'.node = Compile(wf).entry
      /\ run'.from = 0 /\ run'.trail = <<>>
  BY StartEffect DEF EngineInv
<1>3. Walks' = Walks /\ run'.trail \in Walks'
  BY <1>1, <1>2, SavedWalks DEF Walks
<1>4. run'.node = DueNode'
  BY <1>2 DEF DueNode, Names, Entered
<1>5. \A i \in DOMAIN ckpts' : Consistent(ckpts'[i])
  BY <1>1, SavedConsistent DEF Consistent
<1> QED
  BY <1>2, <1>3, <1>4, <1>5 DEF OnWalk

LEMMA ResumeOnWalk ==
    ASSUME EngineInv, OnWalk, wf \in Workflows, Resumes
    PROVE  /\ OnWalk' /\ Walks' = Walks
           /\ run.pc = "off" /\ run'.pc \in {"terminal", "loop"}
<1> USE DEF EngineInv
<1>1. PICK i \in DOMAIN ckpts : ResumeRun(Compile(wf), i)
  BY DEF Resumes
<1> DEFINE c == ckpts[i]
           node == ResumeNode(c, Compile(wf))
<1>2. /\ ckpts' = ckpts /\ run.pc = "off"
      /\ run'.pc = IF c.event \in TerminalEvents THEN "terminal" ELSE "loop"
      /\ run'.trail = c.trail /\ run'.from = i /\ run'.spec = Compile(wf) /\ run'.node = node
  BY <1>1, ResumeEffect
<1>3. Walks' = Walks /\ run'.trail \in Walks'
  BY <1>2 DEF Walks
<1>4. Consistent(c) /\ c.event \in Events /\ i # 0
  BY CheckpointAt DEF OnWalk, Checkpoints
<1>5. Entered' = node
  BY <1>2, <1>4 DEF Entered
<1>6. ASSUME c.event \notin TerminalEvents, Names(c.trail)
      PROVE  node = c.trail[Len(c.trail)].next
  <2>1. \/ c.event = "started" /\ c.trail = <<>>
        \/ c.event = "node_started" /\ c.node = c.trail[Len(c.trail)].next
        \/ c.event = "node_finished" /\ c.next = c.trail[Len(c.trail)].next /\ c.next # None
    BY <1>4, <1>6 DEF Events, Consistent, Names
  <2> QED
    BY <1>6, <2>1 DEF ResumeNode, Names
<1>7. run'.pc = "loop" => run'.node = DueNode'
  BY <1>2, <1>5, <1>6 DEF DueNode
<1>8. run'.pc \in {"terminal", "loop"} /\ run'.from \in DOMAIN ckpts'
  BY <1>2
<1> QED
  BY <1>2, <1>3, <1>7, <1>8 DEF OnWalk

LEMMA QuietOnWalk ==
    ASSUME EngineInv, OnWalk, RepeatTerminal \/ Emit \/ Retries
    PROVE  OnWalk' /\ Walks' = Walks /\ Entered' = Entered
<1>1. /\ ckpts' = ckpts
      /\ \A f \in {"step", "spec", "from", "trail", "node", "ending", "result"} : run'[f] = run[f]
      /\ \/ run.pc = "terminal" /\ run'.pc = "over"
         \/ run.pc = "node" /\ run'.pc = "node"
  BY QuietEffect, Zenon DEF EngineInv
<1>2. Walks' = Walks /\ Entered' = Entered
  BY <1>1, EnteredKept DEF Walks
<1>3. DueNode' = DueNode
  BY <1>1, <1>2 DEF DueNode
<1> QED
  BY <1>1, <1>2, <1>3 DEF OnWalk

LEMMA EnterOnWalk ==
    ASSUME EngineInv, OnWalk, EnterNode
    PROVE  OnWalk' /\ Walks' = Walks /\ Entered' = Entered
<1> USE DEF EngineInv
<1>1. PICK c : Saves(c) /\ c.event = "node_started" /\ c.trail = run.trail /\ c.node = Current
  BY EnterEffect
<1>2. /\ AtLoop /\ run'.pc = "node" /\ run'.node = Current
      /\ run'.spec = run.spec /\ run'.from = run.from /\ run'.trail = run.trail
  BY EnterEffect
<1>3. Entered' = Entered
  BY <1>1, <1>2, EnteredKept DEF AtLoop
<1>4. Walks' = Walks /\ run'.trail \in Walks'
  BY <1>1, <1>2, SavedWalks DEF OnWalk
<1>5. Current = DueNode
  BY <1>2 DEF OnWalk, AtLoop, Current, DueNode, Names
<1>6. DueNode' = DueNode
  BY <1>2, <1>3 DEF DueNode
<1>7. Consistent(c)
  BY <1>1, <1>5 DEF Consistent, DueNode
<1>8. run'.from = 0 \/ run'.from \in DOMAIN ckpts'
  BY <1>1, <1>2 DEF OnWalk, Saves, AtLoop
<1> QED
  BY <1>1, <1>2, <1>3, <1>4, <1>5, <1>6, <1>7, <1>8, SavedConsistent DEF OnWalk

LEMMA HaltOnWalk ==
    ASSUME EngineInv, OnWalk, Halts
    PROVE  /\ OnWalk' /\ Walks' = Walks /\ Entered' = Entered
           /\ run.pc \in {"loop", "after", "node"} /\ run'.pc = "over" /\ run'.trail = run.trail
<1> USE DEF EngineInv
<1>1. PICK c : Saves(c) /\ c.event = run'.ending /\ c.trail = run.trail
  BY HaltEffect
<1>2. /\ run.pc \in {"loop", "after", "node"} /\ run'.pc = "over"
      /\ run'.ending \in TerminalEvents
      /\ run'.spec = run.spec /\ run'.from = run.from /\ run'.trail = run.trail
  BY HaltEffect
<1>3. Entered' = Entered
  BY <1>1, <1>2, EnteredKept
<1>4. Walks' = Walks /\ run'.trail \in Walks'
  BY <1>1, <1>2, SavedWalks DEF OnWalk
<1>5. Consistent(c)
  BY <1>1, <1>2 DEF Consistent, TerminalEvents
<1>6. run'.from = 0 \/ run'.from \in DOMAIN ckpts'
  BY <1>1, <1>2 DEF OnWalk, Saves
<1> QED
  BY <1>1, <1>2, <1>3, <1>4, <1>5, <1>6, SavedConsistent DEF OnWalk

LEMMA PrefixKept ==
    ASSUME NEW S, NEW s \in Seq(S), NEW t \in Seq(S), Len(t) = Len(s) + 1,
           \A i \in 1..Len(s) : t[i] = s[i]
    PROVE  SubSeq(t, 1, Len(s)) = s
<1> DEFINE n == Len(s)
<1>1. n \in Nat
  BY LenProperties
<1>2. \A i \in 1..n : t[i] \in S
  BY ElementOfSeq
<1> HIDE DEF n
<1>3. /\ SubSeq(t, 1, n) \in Seq(S)
      /\ Len(SubSeq(t, 1, n)) = IF 1 <= n THEN n - 1 + 1 ELSE 0
      /\ \A i \in 1..(n - 1 + 1) : SubSeq(t, 1, n)[i] = t[1 + i - 1]
  <2>1. 1 \in Int /\ n \in Int
    BY <1>1
  <2> QED
    BY <1>2, <2>1, SubSeqProperties
<1>4. Len(SubSeq(t, 1, n)) = n /\ \A i \in 1..n : SubSeq(t, 1, n)[i] = t[i]
  BY <1>1, <1>3
<1> QED
  BY <1>3, <1>4, SeqEqual DEF n

\* The walk grows by the node that was due.
LEMMA FinishOnWalk ==
    ASSUME EngineInv, OnWalk, Finishes
    PROVE  /\ OnWalk' /\ Walks' = Walks \cup {run'.trail} /\ Entered' = Entered
           /\ run.pc = "node" /\ run'.pc = "after"
           /\ Len(run'.trail) = Len(run.trail) + 1
           /\ SubSeq(run'.trail, 1, Len(run.trail)) = run.trail
           /\ run'.trail[Len(run'.trail)].node = DueNode
           /\ run'.result.status = None <=> run'.trail[Len(run'.trail)].next # None
<1> USE DEF EngineInv
<1>1. PICK next \in NodeIds :
         /\ \E c : Saves(c) /\ c.event = "node_finished" /\ c.trail = run'.trail /\ c.next = next
         /\ run.pc = "node" /\ run'.pc = "after"
         /\ run'.node = run.node /\ run'.spec = run.spec /\ run'.from = run.from
         /\ run'.result.next = next
         /\ (run'.result.status = None <=> next # None)
         /\ run'.trail = Append(run.trail, [node |-> run.node, next |-> next])
  BY FinishEffect
<1>2. PICK c : Saves(c) /\ c.event = "node_finished" /\ c.trail = run'.trail /\ c.next = next
  BY <1>1
<1> DEFINE S == [node : NodeIds, next : NodeIds]
           step == [node |-> run.node, next |-> next]
<1>3. run.trail \in Seq(S) /\ step \in S /\ run'.trail = Append(run.trail, step)
  BY <1>1 DEF EngineType, RunStates, Trails
<1>4. /\ run'.trail \in Seq(S) /\ Len(run'.trail) = Len(run.trail) + 1
      /\ \A i \in 1..Len(run.trail) : run'.trail[i] = run.trail[i]
      /\ run'.trail[Len(run.trail) + 1] = step
  BY <1>3, AppendProperties
<1>5. Len(run.trail) \in Nat
  BY <1>3, LenProperties
<1>6. SubSeq(run'.trail, 1, Len(run.trail)) = run.trail
  BY <1>3, <1>4, <1>5, PrefixKept
<1>7. run'.trail # <<>> /\ run'.trail[Len(run'.trail)] = step
  BY <1>4, <1>5
<1>8. Entered' = Entered
  BY <1>1, <1>2, EnteredKept
<1>9. Walks' = Walks \cup {run'.trail}
  BY <1>2, SavedWalks
<1>10. step.node = DueNode /\ step.next = next
  BY <1>1 DEF OnWalk
<1>11. Consistent(c)
  BY <1>2, <1>7, <1>10 DEF Consistent
<1>12. run'.from = 0 \/ run'.from \in DOMAIN ckpts'
  BY <1>1, <1>2 DEF OnWalk, Saves
<1> HIDE DEF step
<1>13. OnWalk'
  BY <1>1, <1>2, <1>7, <1>9, <1>10, <1>11, <1>12, SavedConsistent DEF OnWalk
<1> QED
  BY <1>1, <1>4, <1>6, <1>7, <1>8, <1>9, <1>10, <1>13

\* The refinement mapping, named.
EntryNow == IF run.pc = "off" THEN None ELSE Entered

Phase == CASE run.pc = "off"                              -> "idle"
           [] run.pc \in {"over", "terminal"}             -> "closed"
           [] run.pc = "after" /\ run.result.status # None -> "ending"
           [] OTHER                                       -> "active"

DurableVars == <<run.trail, Walks, EntryNow, Phase>>

LEMMA DurableActions ==
    /\ Durable!Begin  <=> /\ Phase = "idle" /\ run'.trail \in Walks
                          /\ Phase' \in {"active", "closed"} /\ Walks' = Walks
    /\ Durable!Finish <=> /\ Phase = "active"
                          /\ Len(run'.trail) = Len(run.trail) + 1
                          /\ SubSeq(run'.trail, 1, Len(run.trail)) = run.trail
                          /\ run'.trail[Len(run'.trail)].node = Durable!Due
                          /\ Walks' = Walks \cup {run'.trail}
                          /\ Phase' = IF run'.trail[Len(run'.trail)].next = None THEN "ending"
                                      ELSE "active"
                          /\ EntryNow' = EntryNow
    /\ Durable!Close  <=> /\ Phase \in {"active", "ending"} /\ Phase' = "closed"
                          /\ UNCHANGED <<run.trail, Walks, EntryNow>>
    /\ Durable!Leave  <=> /\ Phase # "idle" /\ Phase' = "idle"
                          /\ run'.trail = <<>> /\ EntryNow' = None /\ Walks' = Walks
    /\ Durable!Due = IF run.trail = <<>> \/ run.trail[Len(run.trail)].next = None
                     THEN EntryNow ELSE run.trail[Len(run.trail)].next
BY DEF Durable!Begin, Durable!Finish, Durable!Close, Durable!Leave, Durable!Due, Phase, Walks,
       EntryNow

LEMMA OnWalkStep ==
    ASSUME EngineInv, OnWalk, wf \in Workflows, Engine
    PROVE  OnWalk' /\ (Durable!Next \/ UNCHANGED DurableVars)
<1> USE DEF EngineInv
<1>1. CASE Starts /\ ckpts = <<>> /\ StartRun(Compile(wf))
  <2>1. OnWalk' /\ Walks' = Walks
    BY <1>1, StartOnWalk
  <2>2. run.pc = "off" /\ run'.pc = "loop" /\ run'.trail \in Walks
    BY <1>1, <2>1, StartEffect DEF Walks
  <2>3. Durable!Begin
    BY <2>1, <2>2, DurableActions DEF Phase
  <2> QED
    BY <2>1, <2>3 DEF Durable!Next
<1>2. CASE Resumes
  <2>1. /\ OnWalk' /\ Walks' = Walks
        /\ run.pc = "off" /\ run'.pc \in {"terminal", "loop"}
    BY <1>2, ResumeOnWalk
  <2>2. run'.trail \in Walks
    BY <2>1 DEF OnWalk
  <2>3. Durable!Begin
    BY <2>1, <2>2, DurableActions DEF Phase
  <2> QED
    BY <2>1, <2>3 DEF Durable!Next
<1>3. CASE RepeatTerminal \/ Emit \/ Retries
  <2>1. OnWalk' /\ Walks' = Walks /\ Entered' = Entered
    BY <1>3, QuietOnWalk
  <2>2. /\ run'.trail = run.trail
        /\ \/ run.pc = "terminal" /\ run'.pc = "over"
           \/ run.pc = "node" /\ run'.pc = "node"
    BY <1>3, QuietEffect, Zenon
  <2>3. UNCHANGED DurableVars
    BY <2>1, <2>2 DEF DurableVars, EntryNow, Phase
  <2> QED
    BY <2>1, <2>3
<1>4. CASE EnterNode
  <2>1. OnWalk' /\ Walks' = Walks /\ Entered' = Entered
    BY <1>4, EnterOnWalk
  <2>2. AtLoop /\ run'.pc = "node" /\ run'.trail = run.trail
    BY <1>4, EnterEffect
  <2>3. UNCHANGED DurableVars
    BY <2>1, <2>2 DEF DurableVars, EntryNow, Phase, AtLoop
  <2> QED
    BY <2>1, <2>3
<1>5. CASE Finishes
  <2>1. /\ OnWalk' /\ Walks' = Walks \cup {run'.trail} /\ Entered' = Entered
        /\ run.pc = "node" /\ run'.pc = "after"
        /\ Len(run'.trail) = Len(run.trail) + 1
        /\ SubSeq(run'.trail, 1, Len(run.trail)) = run.trail
        /\ run'.trail[Len(run'.trail)].node = DueNode
        /\ run'.result.status = None <=> run'.trail[Len(run'.trail)].next # None
    BY <1>5, FinishOnWalk
  <2>2. EntryNow' = EntryNow /\ EntryNow = Entered /\ Phase = "active"
    BY <2>1 DEF EntryNow, Phase
  <2>3. Phase' = IF run'.trail[Len(run'.trail)].next = None THEN "ending" ELSE "active"
    BY <2>1 DEF Phase
  <2>4. Durable!Due = DueNode
    BY <2>2, DurableActions DEF DueNode, Names
  <2>5. Durable!Finish
    BY <2>1, <2>2, <2>3, <2>4, DurableActions
  <2> QED
    BY <2>1, <2>5 DEF Durable!Next
<1>6. CASE Halts
  <2>1. /\ OnWalk' /\ Walks' = Walks /\ Entered' = Entered
        /\ run.pc \in {"loop", "after", "node"} /\ run'.pc = "over" /\ run'.trail = run.trail
    BY <1>6, HaltOnWalk
  <2>2. Phase \in {"active", "ending"} /\ Phase' = "closed" /\ EntryNow' = EntryNow
    BY <2>1 DEF Phase, EntryNow
  <2>3. Durable!Close
    BY <2>1, <2>2, DurableActions
  <2> QED
    BY <2>1, <2>3 DEF Durable!Next
<1>7. CASE Vanish
  <2>1. run.pc # "off" /\ run'.pc = "off" /\ run'.trail = <<>> /\ ckpts' = ckpts
    BY <1>7, VanishEffect DEF Vanish, Off
  <2>2. OnWalk' /\ Walks' = Walks
    BY <2>1 DEF OnWalk, Walks
  <2>3. Phase # "idle" /\ Phase' = "idle" /\ EntryNow' = None
    BY <2>1 DEF Phase, EntryNow
  <2>4. Durable!Leave
    BY <2>1, <2>2, <2>3, DurableActions
  <2> QED
    BY <2>2, <2>4 DEF Durable!Next
<1>8. CASE UNCHANGED <<ckpts, run>>
  <2>1. OnWalk'
    BY <1>8 DEF OnWalk, Walks, DueNode, Entered
  <2>2. UNCHANGED DurableVars
    BY <1>8 DEF DurableVars, Walks, EntryNow, Entered, Phase
  <2> QED
    BY <2>1, <2>2
<1> QED
  BY <1>1, <1>2, <1>3, <1>4, <1>5, <1>6, <1>7, <1>8 DEF Engine, Starts, GoesOn

\* An execution starts at a walk that was saved, goes on at the node due after it, and no node
\* finishes without its walk being saved, through crashes, resumes and edits of the definition
\* (resume_stream, _resolve_resume_node, _run_stream_internal).
THEOREM DurabilityCorrect == Spec => ImplementsDurableRun
<1> DEFINE Inv == WorkflowInv /\ OnWalk
<1>1. Init => Inv /\ Durable!Init
  <2> SUFFICES ASSUME Init PROVE Inv /\ Durable!Init
    OBVIOUS
  <2>1. run.pc = "off" /\ run.trail = <<>> /\ ckpts = <<>>
    BY DEF Init, Off
  <2>2. OnWalk
    BY <2>1 DEF OnWalk, Walks
  <2>3. Durable!Init
    BY <2>1 DEF Durable!Init
  <2> QED
    BY <2>2, <2>3, WorkflowInvInit
<1>2. Inv /\ [Next]_vars => Inv' /\ (Durable!Next \/ UNCHANGED DurableVars)
  BY WorkflowInvStep, OnWalkStep DEF WorkflowInv, ServiceType
<1> QED
  BY <1>1, <1>2, PTL DEF Spec, ImplementsDurableRun, Durable!Spec, DurableVars, Walks, EntryNow,
     Phase
=============================================================================
