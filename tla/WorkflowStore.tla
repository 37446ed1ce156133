--------------------------- MODULE WorkflowStore ---------------------------
(***************************************************************************)
(* The workflow definitions on disk and the requests on them:              *)
(* WorkflowConfigService (infrastructure/config), the router               *)
(* api/routers/workflows.py and the run history that goes with a           *)
(* definition.  Every request first brings the built-in definitions up to  *)
(* date under the lock of the file; a change of a definition is read       *)
(* before the lock and written under it.  The process may stop at any      *)
(* moment and come back with newer built-in definitions.                   *)
(*                                                                         *)
(* A definition is [id, system, version, name, nodes]; a value of a user   *)
(* is the request that wrote it, and the order of the file is left out.    *)
(* Validation is WorkflowGraph's, the steps of a run are WorkflowRuns'.    *)
(***************************************************************************)
EXTENDS Naturals, FiniteSets

CONSTANTS NoValue,
          Numbers,       \* numbers of requests, in the order they come; not versions
          Builtins,      \* ids of the built-in definitions
          Own,           \* ids users give to theirs
          WorkflowFiles, \* contents the file may have in the beginning
          MaxVersion,    \* newest version of the built-in definitions there will be
          MaxStops       \* bound: stops of the process

VARIABLES workflows, \* the definitions on disk
          lock,      \* the request that holds the lock, or NoValue
          version,   \* template version of the running program
          reqs,      \* per request: what it is about and where it is
          runs,      \* per id: run records of its history file
          stops,
          acked,     \* history: per id and field the value last acknowledged, or NoValue
          strays     \* history: ids whose records may have outlived their definition

storeVars == <<workflows, lock, version, reqs, runs, stops, acked, strays>>

WorkflowIds == Builtins \cup Own
Fields == {"name", "nodes"}
Unused == [pc |-> "new", op |-> NoValue, id |-> NoValue, field |-> NoValue, seen |-> NoValue,
           next |-> NoValue, config |-> NoValue, answer |-> NoValue]

OfProgram(id) == [id |-> id, system |-> TRUE, version |-> version, name |-> version,
                  nodes |-> version]

There(config, id) == \E w \in config : w.id = id
Get(config, id) == CHOOSE w \in config : w.id = id
Except(config, id) == {w \in config : w.id # id}
Unique(config) == \A w, x \in config : w.id = x.id => w = x

\* What the program of the first version and users may have left: an id names one definition,
\* and what is the program's is as it came with a version up to the first.
Definitions ==
    [id : WorkflowIds, system : BOOLEAN, version : Nat, name : Nat, nodes : Nat]
Genuine(w, newest) ==
    w.system => w.name = w.version /\ w.nodes = w.version /\ w.version <= newest
ASSUME StoreAssumption ==
    /\ Numbers \subseteq Nat /\ MaxVersion \in Nat \ {0}
    /\ WorkflowFiles \subseteq SUBSET Definitions
    /\ \A config \in WorkflowFiles : Unique(config) /\ \A w \in config : Genuine(w, 1)
    /\ NoValue \notin Numbers \cup Definitions

StoreInit ==
    /\ workflows \in WorkflowFiles /\ lock = NoValue /\ version = 1
    /\ reqs = [r \in Numbers |-> Unused] /\ runs = [i \in WorkflowIds |-> {}] /\ stops = 0
    /\ acked = [i \in WorkflowIds |-> [f \in Fields |->
                    IF There(workflows, i) /\ ~Get(workflows, i).system
                    THEN Get(workflows, i)[f] ELSE NoValue]]
    /\ strays = {}

-----------------------------------------------------------------------------
(* _upsert_system_workflows: what is missing is added, what is older and the program's own *)
(* is replaced, what a user has under that id stays.  First a faulty version that replaces *)
(* whatever is older.                                                                      *)

Outdated(existing) == existing.version < version
Replaceable(existing) == existing.system /\ Outdated(existing)
Upserted(config) ==
    {IF w.id \in Builtins /\ Replaceable(w) THEN OfProgram(w.id) ELSE w : w \in config}
        \cup {OfProgram(b) : b \in {b \in Builtins : ~There(config, b)}}

-----------------------------------------------------------------------------
(* Requests *)

Stands(r, pc) == reqs[r].pc = pc
Proceeds(r, pc) == reqs' = [reqs EXCEPT ![r].pc = pc]
Replies(r, answer) == reqs' = [reqs EXCEPT ![r].pc = "answered", ![r].answer = answer]

\* A request begins with ensure_system_workflows; next says where it goes afterwards.
Begin(r, op, id, field) ==
    /\ Stands(r, "new") /\ \A q \in Numbers : q < r => ~Stands(q, "new")
    /\ reqs' = [reqs EXCEPT ![r] =
                [Unused EXCEPT !.pc = "ensure", !.op = op, !.id = id, !.field = field,
                               !.next = IF op = "create" THEN "change" ELSE "get"]]
    /\ UNCHANGED <<workflows, lock, version, runs, stops, acked, strays>>

\* Under the lock the file is read, changed in memory, and written; then the lock is free.
Enter(r) ==
    /\ reqs[r].pc \in {"ensure", "change"} /\ lock = NoValue
    /\ lock' = r
    /\ reqs' = [reqs EXCEPT ![r].config = workflows,
                            ![r].pc = IF @ = "ensure" THEN "upsert" ELSE "apply"]
    /\ UNCHANGED <<workflows, version, runs, stops, acked, strays>>

Upsert(r) ==
    /\ Stands(r, "upsert")
    /\ workflows' = Upserted(reqs[r].config)
    /\ lock' = NoValue /\ Proceeds(r, reqs[r].next)
    /\ UNCHANGED <<version, runs, stops, acked, strays>>

\* The definition is read outside the lock: for an answer, a run, a change or a removal.
\* First faulty versions of the two guards.
AnySystem(definition) == FALSE
Protected(definition) == definition.system
ReadBefore(r) ==
    /\ Stands(r, "get")
    /\ LET id == reqs[r].id
           op == reqs[r].op
       IN  IF ~There(workflows, id)
           THEN IF op = "delete"
                THEN reqs' = [reqs EXCEPT ![r].pc = "ensure", ![r].next = "change"]
                ELSE Replies(r, "not found")
           ELSE IF op \in {"update", "delete"} /\ Protected(Get(workflows, id))
           THEN Replies(r, "forbidden")
           ELSE IF op \in {"update", "delete"}
           THEN reqs' = [reqs EXCEPT ![r].pc = "ensure", ![r].next = "change",
                                     ![r].seen = Get(workflows, id)]
           ELSE IF op = "run" THEN Proceeds(r, "run") ELSE Replies(r, "ok")
    /\ UNCHANGED <<workflows, lock, version, runs, stops, acked, strays>>

\* add_workflow, update_workflow and delete_workflow.
Applied(r) ==
    LET config == reqs[r].config
        id == reqs[r].id
    IN  CASE reqs[r].op = "create" ->
               config \cup
                   {[id |-> id, system |-> FALSE, version |-> 0, name |-> r, nodes |-> r]}
          [] reqs[r].op = "update" ->
               Except(config, id) \cup {[reqs[r].seen EXCEPT ![reqs[r].field] = r]}
          [] reqs[r].op = "delete" -> Except(config, id)
Applicable(r) ==
    There(reqs[r].config, reqs[r].id) = (reqs[r].op # "create")

\* What is acknowledged; a change that overlapped another one of the same definition makes
\* its other field uncertain.
Noted(r) ==
    LET id == reqs[r].id
    IN  CASE reqs[r].op = "create" -> [acked EXCEPT ![id] = [f \in Fields |-> r]]
          [] reqs[r].op = "delete" -> [acked EXCEPT ![id] = [f \in Fields |-> NoValue]]
          [] reqs[r].op = "update" ->
               [acked EXCEPT ![id] = [f \in Fields |->
                   IF f = reqs[r].field THEN r
                   ELSE IF reqs[r].seen = Get(reqs[r].config, id) THEN acked[id][f]
                   ELSE NoValue]]

Running(id) == {r \in Numbers : Stands(r, "run") /\ reqs[r].id = id}
Apply(r) ==
    /\ Stands(r, "apply") /\ lock' = NoValue
    /\ IF Applicable(r)
       THEN /\ workflows' = Applied(r) /\ acked' = Noted(r)
            /\ IF reqs[r].op = "delete"
               THEN /\ Proceeds(r, "forget")
                    /\ strays' = IF Running(reqs[r].id) # {} THEN strays \cup {reqs[r].id}
                                 ELSE strays
               ELSE Replies(r, "ok") /\ UNCHANGED strays
       ELSE Replies(r, "refused") /\ UNCHANGED <<workflows, acked, strays>>
    /\ UNCHANGED <<version, runs, stops>>

\* A merged definition that does not validate is refused before the lock.
Invalid(r) ==
    /\ Stands(r, "ensure") /\ reqs[r].op = "update" /\ reqs[r].next = "change"
    /\ Replies(r, "invalid")
    /\ UNCHANGED <<workflows, lock, version, runs, stops, acked, strays>>

\* delete_runs.  First a faulty version that leaves the records.
KeepRuns(id) == runs
WithoutRuns(id) == [runs EXCEPT ![id] = {}]
Forget(r) ==
    /\ Stands(r, "forget") /\ runs' = WithoutRuns(reqs[r].id)
    /\ Replies(r, "ok")
    /\ UNCHANGED <<workflows, lock, version, stops, acked, strays>>

\* A run that was begun ends with a record, whatever became of its definition.
Finish(r) ==
    /\ Stands(r, "run") /\ runs' = [runs EXCEPT ![reqs[r].id] = @ \cup {r}]
    /\ Replies(r, "ok")
    /\ UNCHANGED <<workflows, lock, version, stops, acked, strays>>

-----------------------------------------------------------------------------
(* The process stops; the temporary file it leaves is not looked at. *)

Stop ==
    /\ stops < MaxStops /\ stops' = stops + 1
    /\ version' \in version..MaxVersion
    /\ reqs' = [r \in Numbers |-> IF reqs[r].pc \in {"new", "answered"} THEN reqs[r]
                                   ELSE [reqs[r] EXCEPT !.pc = "gone"]]
    /\ lock' = NoValue
    /\ strays' = strays \cup {reqs[r].id : r \in {q \in Numbers : Stands(q, "forget")}}
    /\ UNCHANGED <<workflows, runs, acked>>

StoreNext ==
    \/ \E r \in Numbers :
        \/ \E id \in WorkflowIds :
            \/ \E f \in Fields : Begin(r, "update", id, f)
            \/ \E op \in {"create", "delete", "run", "get"} : Begin(r, op, id, NoValue)
        \/ Enter(r) \/ Upsert(r) \/ ReadBefore(r) \/ Apply(r)
        \/ Invalid(r) \/ Forget(r) \/ Finish(r)
    \/ Stop

StoreSpec == StoreInit /\ [][StoreNext]_storeVars

-----------------------------------------------------------------------------
(* Properties *)

\* A request that is past its first step, and one that removes what a user has under an id.
Begun(r) == reqs[r].pc \in {"get", "change", "apply", "run", "forget"}
Gives(r, id) == reqs[r].op = "delete" /\ reqs[r].id = id /\ reqs[r].seen # NoValue

(***************************************************************************)
(* Users cannot change or remove what the program brings along, and the    *)
(* program does not touch what is theirs: a built-in definition is         *)
(* unchanged from the version it names, it is there once a request is past *)
(* its first step, and as new as the program, unless a user had the id     *)
(* first or gave it up (_upsert_system_workflows, and the checks of the    *)
(* router, which reads before the lock).                                   *)
(***************************************************************************)
BuiltinsKept ==
    /\ Unique(workflows) /\ \A w \in workflows : Genuine(w, version)
    /\ \A b \in Builtins :
           \/ \A r \in Numbers : ~Begun(r)
           \/ There(workflows, b)
              /\ (Get(workflows, b).system => Get(workflows, b).version = version)
           \/ \E r \in Numbers : Gives(r, b)

(***************************************************************************)
(* What was acknowledged stays until somebody changes it: a definition     *)
(* that was created is there until it is deleted, and a field that was     *)
(* changed keeps its value, unless two changes of one definition           *)
(* overlapped (update_workflow of the router merges what it read before    *)
(* the lock).  The records of a deleted definition are gone, unless a run  *)
(* was under way.                                                          *)
(***************************************************************************)
AcknowledgedKept ==
    /\ \A id \in WorkflowIds, f \in Fields : acked[id][f] # NoValue =>
           There(workflows, id) /\ Get(workflows, id)[f] = acked[id][f]
    /\ \A id \in WorkflowIds : runs[id] # {} =>
           \/ There(workflows, id) \/ id \in strays
           \/ \E r \in Numbers : Stands(r, "forget") /\ reqs[r].id = id

\* Both: what this module promises of the definitions on disk and of what goes with them.
DefinitionsKept == BuiltinsKept /\ AcknowledgedKept
=============================================================================
