--------------------------- MODULE SettingsFiles ---------------------------
(***************************************************************************)
(* Lists the settings pages edit, each in a YAML file of its own: the      *)
(* assistants (AssistantConfigService), the prompt templates               *)
(* (PromptTemplateConfigService) and the chat folders (FolderService), all *)
(* in infrastructure/config.  A request reads the whole file, changes the  *)
(* list and writes the whole file, and requests overlap at every await.    *)
(*                                                                         *)
(* Assistants and templates are written to a file beside it, the same for  *)
(* every request, which then replaces the list's file; folders are written *)
(* in place.  Opening for writing empties what is there, and the content   *)
(* arrives with the close; a handle follows its file when that is renamed. *)
(* A list is a function from the ids in it to their order (0 but for       *)
(* folders); what an entry says is left out.                               *)
(***************************************************************************)
EXTENDS Naturals, Sequences, FiniteSets

CONSTANTS None,
          Entries, \* ids
          Tasks,   \* coroutines that serve requests
          MaxOps   \* bound: requests

\* There are finitely many requests at a time, and None is no number.
ASSUME ListsAssumption == IsFiniteSet(Tasks) /\ MaxOps \in Nat /\ None \notin Nat

VARIABLES kind,    \* "assistants", "templates" or "folders"
          path,    \* the inodes of the list's file and of the file beside it, or None
          data,    \* per inode: what it holds
          task,    \* per coroutine: its request
          ops,     \* how many requests so far
          crossed  \* history: a file was opened for writing while another request was at it

listVars == <<kind, path, data, task, ops, crossed>>

Whole(order, default) == [is |-> "whole", order |-> order, default |-> default]
Blank == [is |-> "blank", order |-> <<>>, default |-> None]
Damaged == [is |-> "damaged", order |-> <<>>, default |-> None]
AtRest == [pc |-> "idle", new |-> None, id |-> None, handle |-> None]

Inodes == 0..(Cardinality(Tasks) + 1)

ListsInit ==
    /\ kind \in {"assistants", "templates", "folders"}
    /\ path = [main |-> 0, temp |-> None]
    /\ data = [i \in Inodes |-> IF i = 0 THEN Whole(<<>>, None) ELSE Blank]
    /\ task = [t \in Tasks |-> AtRest]
    /\ ops = 0 /\ crossed = FALSE

\* An empty file is no list to any of them but the templates.
Stored == data[path.main]
Readable == Stored.is = "whole" \/ (Stored.is = "blank" /\ kind = "templates")
Listed == DOMAIN Stored.order

-----------------------------------------------------------------------------
(* What a request makes of the list *)

\* create_folder and add_*: a new entry goes to the end.
Added(order, id) ==
    [e \in DOMAIN order \cup {id} |->
        IF e # id THEN order[e] ELSE IF kind = "folders" THEN Cardinality(DOMAIN order) ELSE 0]

\* A faulty Removed: the orders of the rest keep their gap.
RemovedOnly(order, id) == [f \in DOMAIN order \ {id} |-> order[f]]

\* delete_folder numbers the rest anew.
Removed(order, id) ==
    [f \in DOMAIN order \ {id} |->
        Cardinality({g \in DOMAIN order \ {id} : order[g] < order[f]})]

\* reorder_folder: those between the old and the new place move by one.
Moved(order, id, new) ==
    LET old == order[id]
    IN  [f \in DOMAIN order |->
            IF f = id THEN new
            ELSE IF old < order[f] /\ order[f] <= new THEN order[f] - 1
            ELSE IF new <= order[f] /\ order[f] < old THEN order[f] + 1
            ELSE order[f]]

-----------------------------------------------------------------------------
(* Requests *)

\* Task t has read the list and is going to save new, at once or after a look at id.
WillSave(t, new, pc, id) ==
    /\ task[t].pc = "idle" /\ ops < MaxOps /\ Readable
    /\ ops' = ops + 1
    /\ task' = [task EXCEPT ![t] = [AtRest EXCEPT !.pc = pc, !.new = new, !.id = id]]
    /\ UNCHANGED <<kind, path, data, crossed>>

\* add_assistant also wants an enabled model, which it finds or not without waiting.
AddEntry(t, id) ==
    /\ id \notin Listed
    /\ WillSave(t, Whole(Added(Stored.order, id), Stored.default), "open", id)

UpdateEntry(t, id) ==
    /\ id \in Listed
    /\ WillSave(t, Whole(Stored.order, Stored.default), "open", id)

DeleteEntry(t, id) ==
    /\ id \in Listed
    /\ WillSave(t, Whole(Removed(Stored.order, id), IF Stored.default = id THEN None
                                                ELSE Stored.default), "open", id)

Reorder(t, id, new) ==
    /\ kind = "folders"
    /\ id \in Listed /\ new < Cardinality(Listed) /\ new # Stored.order[id]
    /\ WillSave(t, Whole(Moved(Stored.order, id, new), None), "open", id)

\* set_default_assistant reads the list and looks the assistant up in a second reading.
SetDefault(t, id) ==
    /\ kind = "assistants"
    /\ WillSave(t, Whole(Stored.order, id), "look", id)

Look(t) ==
    /\ task[t].pc = "look"
    /\ \/ /\ Readable /\ task[t].id \in Listed
          /\ task' = [task EXCEPT ![t].pc = "open"]
       \/ task' = [task EXCEPT ![t] = AtRest]   \* not listed, disabled, or its model is
    /\ UNCHANGED <<kind, path, data, ops, crossed>>

-----------------------------------------------------------------------------
(* Saving *)

\* A faulty Target: nothing is written beside the list's file.
TargetInPlace == "main"

Target == IF kind = "folders" THEN "main" ELSE "temp"

\* An inode that nothing refers to.
Fresh == CHOOSE i \in Inodes : i # path.main /\ \A t \in Tasks : task[t].handle # i

Open(t) ==
    /\ task[t].pc = "open"
    /\ LET i == IF path[Target] = None THEN Fresh ELSE path[Target]
       IN  /\ path' = [path EXCEPT ![Target] = i]
           /\ data' = [data EXCEPT ![i] = Blank]
           /\ task' = [task EXCEPT ![t].pc = "close", ![t].handle = i]
           /\ crossed' = (crossed \/ \E u \in Tasks : task[u].pc \in {"close", "replace"})
    /\ UNCHANGED <<kind, ops>>

\* The content is written over what another request may have left in the meantime.
Close(t) ==
    /\ task[t].pc = "close"
    /\ LET h == task[t].handle
       IN  \E over \in {task[t].new} \cup (IF data[h] = Blank THEN {} ELSE {Damaged}) :
               data' = [data EXCEPT ![h] = over]
    /\ task' = [task EXCEPT ![t] = IF Target = "main" THEN AtRest
                                   ELSE [@ EXCEPT !.pc = "replace"]]
    /\ UNCHANGED <<kind, path, ops, crossed>>

\* The file beside it may be gone: another request has renamed it (500).
Replace(t) ==
    /\ task[t].pc = "replace"
    /\ path' = IF path.temp = None THEN path ELSE [main |-> path.temp, temp |-> None]
    /\ task' = [task EXCEPT ![t] = AtRest]
    /\ UNCHANGED <<kind, data, ops, crossed>>

Crash ==
    /\ \E t \in Tasks : task[t].pc # "idle"
    /\ task' = [t \in Tasks |-> AtRest]
    /\ UNCHANGED <<kind, path, data, ops, crossed>>

ListsNext ==
    \/ Crash
    \/ \E t \in Tasks : Look(t) \/ Open(t) \/ Close(t) \/ Replace(t)
    \/ \E t \in Tasks, id \in Entries :
          AddEntry(t, id) \/ UpdateEntry(t, id) \/ DeleteEntry(t, id) \/ SetDefault(t, id)
    \/ \E t \in Tasks, id \in Entries, new \in 0..Cardinality(Entries) : Reorder(t, id, new)

ListsSpec == ListsInit /\ [][ListsNext]_listVars

-----------------------------------------------------------------------------
(* Properties *)

(***************************************************************************)
(* The assistants and the templates can be read at any moment, also while  *)
(* they are saved and after a crash at any point of a save, unless two     *)
(* requests were at the file beside them at once (save_config: "Uses       *)
(* temporary file + replace for atomicity").  And whatever requests to     *)
(* create, delete and move folders overlapped, the folders of a list that  *)
(* can be read are numbered 0, 1, 2 ... without gap or repetition, which   *)
(* create_folder and reorder_folder rely on.                               *)
(***************************************************************************)
SavesAreAtomic == (kind # "folders" /\ ~crossed) => Stored.is = "whole"

FoldersNumbered ==
    (kind = "folders" /\ Stored.is = "whole") =>
        {Stored.order[f] : f \in Listed} = 0..(Cardinality(Listed) - 1)

ListsWhole == SavesAreAtomic /\ FoldersNumbered
=============================================================================
