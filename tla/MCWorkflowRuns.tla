--------------------------- MODULE MCWorkflowRuns ---------------------------
(* Three definitions of one workflow for TLC: with and without a condition, and an edit    *)
(* that changes the entry and which node is the end.                                       *)
EXTENDS WorkflowRuns

Blank == [type |-> None, next |-> None, yes |-> None, no |-> None, out |-> None,
          reads |-> {}, params |-> {}, mode |-> None]

Start    == [Blank EXCEPT !.type = "start", !.next = "draft"]
End      == [Blank EXCEPT !.type = "end", !.reads = {"doc"}]
Artifact == [Blank EXCEPT !.type = "artifact", !.next = "end", !.reads = {"doc"},
                          !.out = "path", !.mode = "create"]
Draft(next) == [Blank EXCEPT !.type = "llm", !.next = next, !.out = "doc"]
Check    == [Blank EXCEPT !.type = "condition", !.yes = "save", !.no = "end", !.reads = {"doc"}]

Workflow(nodes) == [entry |-> "start", inputs |-> {}, nodes |-> nodes]

Straight == Workflow([start |-> Start, draft |-> Draft("save"), save |-> Artifact, end |-> End])
Branching == Workflow([start |-> Start, draft |-> Draft("check"), check |-> Check,
                       save |-> Artifact, end |-> End])

\* Another entry, and a node that was an end goes on.
Renamed == [entry |-> "begin", inputs |-> {},
            nodes |-> [begin |-> [Start EXCEPT !.next = "end"], end |-> Draft("stop"),
                       stop |-> End]]

MCWorkflows == {Straight, Branching, Renamed}
MCRequests == {[project |-> TRUE, mode |-> None], [project |-> TRUE, mode |-> "none"],
               [project |-> FALSE, mode |-> None]}
=============================================================================
