---------------------------- MODULE WorkflowGraph ----------------------------
(***************************************************************************)
(* Workflow definitions and the graphs they compile to: the validators of  *)
(* src/domain/models/workflow.py, the compiler of WorkflowExecutionService *)
(* and the graph checks and edge resolution of the orchestration engine.   *)
(*                                                                         *)
(* A workflow is [entry, inputs, nodes]: nodes is a function from ids to   *)
(* [type, next, yes, no, out, reads, params, mode]; a field a type does    *)
(* not have is None or empty.  A function cannot hold an id twice, so the  *)
(* duplicate checks are left out.  reads are the ctx keys and params the   *)
(* input keys its templates or its expression name.                        *)
(***************************************************************************)
EXTENDS Naturals, Sequences, FiniteSets

CONSTANT None   \* Python's None

\* The targets validate_graph collects for one node.
Targets(node) ==
    CASE node.type = "condition" -> {node.yes, node.no}
      [] node.type = "end"       -> {}
      [] OTHER                   -> {node.next}

\* What the stack search from the entry reaches, in at most one round per node.
Reachable(entry, adjacency) ==
    LET grow[k \in 0..Cardinality(DOMAIN adjacency)] ==
            IF k = 0 THEN {entry}
            ELSE grow[k-1] \cup UNION {adjacency[n] : n \in grow[k-1]}
    IN  grow[Cardinality(DOMAIN adjacency)]

\* Nodes taken off in order of falling in-degree; all of them if no cycle is left.
Peeled(adjacency) ==
    LET ids == DOMAIN adjacency
        peel[k \in 0..Cardinality(ids)] ==
            IF k = 0 THEN {}
            ELSE {n \in ids : \A m \in ids : n \in adjacency[m] => m \in peel[k-1]}
    IN  peel[Cardinality(ids)]

Adjacency(wf) == [n \in DOMAIN wf.nodes |-> Targets(wf.nodes[n])]

\* The checks of validate_graph but the one for cycles.
ValidButCyclic(wf) ==
    LET ids == DOMAIN wf.nodes IN
    /\ wf.entry \in ids /\ wf.nodes[wf.entry].type = "start"
    /\ \A n \in ids : Targets(wf.nodes[n]) \subseteq ids
    /\ Reachable(wf.entry, Adjacency(wf)) = ids
    /\ \E n \in ids : wf.nodes[n].type = "end"
    /\ \A n \in ids : wf.nodes[n].params \subseteq wf.inputs

\* WorkflowBase.validate_graph.
ValidWorkflow(wf) == ValidButCyclic(wf) /\ Peeled(Adjacency(wf)) = DOMAIN wf.nodes

-----------------------------------------------------------------------------
(* The run specification: per node, its outgoing edges in order. *)

Edge(target, branch) == [target |-> target, branch |-> branch]

\* _compile_workflow_run_spec.
Compile(wf) ==
    [entry |-> wf.entry,
     nodes |-> wf.nodes,
     edges |-> [n \in DOMAIN wf.nodes |->
         LET node == wf.nodes[n] IN
         CASE node.type = "condition" -> <<Edge(node.yes, "true"), Edge(node.no, "false")>>
           [] node.type = "end"       -> <<>>
           [] OTHER                   -> <<Edge(node.next, None)>>]]

SpecTargets(edges) == {edges[i].target : i \in DOMAIN edges}

\* validate_run_spec.  Cycles are allowed here.
ValidRunSpec(spec) ==
    LET ids == DOMAIN spec.nodes
        adjacency == [n \in ids |-> SpecTargets(spec.edges[n])]
    IN  /\ ids # {} /\ spec.entry \in ids
        /\ \A n \in ids : adjacency[n] \subseteq ids
        /\ Reachable(spec.entry, adjacency) = ids

\* _resolve_next_node: the edge of the branch, else the first without one, else the first.
ResolveNext(edges, branch) ==
    LET of(b) == {i \in DOMAIN edges : edges[i].branch = b}
        first(some) == edges[CHOOSE i \in some : \A j \in some : i <= j].target
    IN  CASE edges = <<>> -> None
          [] edges # <<>> /\ branch # None /\ of(branch) # {} -> first(of(branch))
          [] OTHER -> first(IF of(None) # {} THEN of(None) ELSE DOMAIN edges)

-----------------------------------------------------------------------------
(* What a valid definition promises, by walks instead of degrees *)

\* No walk is longer than the number of nodes, every node is on a walk from the entry, and
\* the engine accepts the compiled graph.
Terminates(wf) ==
    LET ids == DOMAIN wf.nodes
        n == Cardinality(ids)
        IsWalk(walk, last) == \A i \in 1..(last - 1) : walk[i+1] \in Targets(wf.nodes[walk[i]])
        Walks == [1..(n + 1) -> ids]
    IN  /\ \A walk \in Walks : ~IsWalk(walk, n + 1)
        /\ \A id \in ids : \E walk \in Walks, last \in 1..n :
               walk[1] = wf.entry /\ walk[last] = id /\ IsWalk(walk, last)
        /\ ValidRunSpec(Compile(wf))
=============================================================================
