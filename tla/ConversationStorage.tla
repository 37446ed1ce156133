------------------------ MODULE ConversationStorage ------------------------
(***************************************************************************)
(* ConversationStorage (infrastructure/storage/conversation_storage.py):   *)
(* one session's markdown file, which every operation reads, changes and   *)
(* writes as a whole.  A task is a coroutine in one operation.             *)
(*                                                                         *)
(* _find_session_file is synchronous, so an operation finds its file in    *)
(* one step; reading the file and writing it each yield to the event loop. *)
(* Opening a file for writing empties it, and its content arrives with the *)
(* close.  A file is [keys, step, msgs]: the metadata keys it has, "id"    *)
(* among them, current_step, and the messages in order.  What a message    *)
(* says is left out, and so are attachments, usage and sources.            *)
(***************************************************************************)
EXTENDS Naturals, Sequences, FiniteSets

CONSTANTS Absent,
          Tasks,       \* coroutines that run at the same time
          MaxOps,      \* bound: operations
          MaxMessages  \* bound: messages ever appended

Places == {"chat", "project"}   \* the directories of the session's two contexts
Roles == {"user", "assistant"}
Keys == {"title", "folder"}     \* what update_session_metadata changes

ASSUME StorageAssumption ==
    MaxOps \in Nat /\ MaxMessages \in Nat /\ Absent \notin Tasks \cup Nat

VARIABLES files,   \* per place: the file's content, Empty, or Absent
          lockOf,  \* _file_locks of the shared storage: the lock of a path, or Absent
          holder,  \* who holds a lock
          task,    \* per coroutine: its operation
          ops, messages,         \* how many so far
          acked, removed, renamed, \* history: ids appended, ids removed, keys updated
          calm,    \* history: there have been metadata updates only
          apart,   \* history: two metadata updates under different locks were at one file
          tangled  \* history: two coroutines had the file open for writing at once

storageVars == <<files, lockOf, holder, task, ops, messages, acked, removed, renamed, calm,
                 apart, tangled>>

Empty == [keys |-> {}, step |-> 0, msgs |-> <<>>]
Idle == [pc |-> "idle", op |-> Absent, arg |-> Absent, place |-> Absent, lock |-> Absent,
         seen |-> Absent]

StorageInit ==
    /\ files = [p \in Places |-> IF p = "chat" THEN [Empty EXCEPT !.keys = {"id"}] ELSE Absent]
    /\ lockOf = [p \in Places |-> Absent] /\ holder = [l \in 1..MaxOps |-> Absent]
    /\ task = [t \in Tasks |-> Idle]
    /\ ops = 0 /\ messages = 0
    /\ acked = {} /\ removed = {} /\ renamed = {} /\ calm = TRUE
    /\ apart = FALSE /\ tangled = FALSE

\* _find_session_file.
Finds(p) == files[p] # Absent /\ "id" \in files[p].keys

-----------------------------------------------------------------------------
(* What the operations make of the content they read *)

Answers(msgs) == Cardinality({i \in DOMAIN msgs : msgs[i].role = "assistant"})
Without(msgs, k) == SubSeq(msgs, 1, k - 1) \o SubSeq(msgs, k + 1, Len(msgs))
Kept(msgs, k) == SubSeq(msgs, 1, IF k < Len(msgs) THEN k ELSE Len(msgs))
Ids(file) == {file.msgs[i].id : i \in DOMAIN file.msgs}

\* append_message, append_separator, append_summary.
Appended(file, message) ==
    [file EXCEPT !.msgs = Append(@, message),
                 !.step = IF message.role = "assistant" THEN @ + 1 ELSE @]

\* The end of the operations that rebuild the body; first a faulty one that keeps the count.
RebuiltSameStep(file, msgs) == [file EXCEPT !.msgs = msgs]
Rebuilt(file, msgs) == [file EXCEPT !.msgs = msgs, !.step = Answers(msgs)]

\* truncate_messages_after, delete_message and clear_all_messages; update_message_content,
\* convert_to_permanent, update_session_target and the repairs of get_session write what
\* they read as far as this model can tell.
Changed(op, arg, file) ==
    CASE op = "append"   -> Appended(file, arg)
      [] op = "truncate" -> Rebuilt(file, Kept(file.msgs, arg))
      [] op = "delete"   -> Rebuilt(file, Without(file.msgs, arg))
      [] op = "clear"    -> [file EXCEPT !.msgs = <<>>, !.step = 0]
      [] op = "metadata" -> [file EXCEPT !.keys = @ \cup {arg}]
      [] op = "rewrite"  -> file

-----------------------------------------------------------------------------
(* The steps of an operation *)

Begin(t, op, arg, p, lock) ==
    /\ task[t].pc = "idle" /\ Finds(p)
    /\ ops < MaxOps /\ ops' = ops + 1
    /\ task' = [task EXCEPT ![t] = [pc |-> "found", op |-> op, arg |-> arg, place |-> p,
                                    lock |-> lock, seen |-> Absent]]
    /\ calm' = (calm /\ op = "metadata")
    /\ UNCHANGED <<files, holder, acked, removed, renamed, apart, tangled>>

BeginAppend(t, p, role) ==
    /\ messages < MaxMessages /\ messages' = messages + 1
    /\ Begin(t, "append", [id |-> messages + 1, role |-> role], p, Absent)
    /\ UNCHANGED lockOf

\* keep_until_index + 1, a message_index from one on, or the id given to delete_message_by_id.
BeginEdit(t, p, op, arg) ==
    /\ Begin(t, op, arg, p, Absent)
    /\ UNCHANGED <<lockOf, messages>>

\* update_session_metadata looks up the lock of the path, or makes one.  Most requests share
\* a storage; delete_folder and a title asked for make one of their own, whose locks nobody
\* else finds.
BeginMetadata(t, p, key, shared) ==
    LET lock == IF shared /\ lockOf[p] # Absent THEN lockOf[p] ELSE ops + 1
    IN  /\ Begin(t, "metadata", key, p, lock)
        /\ lockOf' = IF shared THEN [lockOf EXCEPT ![p] = lock] ELSE lockOf
        /\ UNCHANGED messages

\* async with the lock; first a faulty one that does not wait.
EntersAnyway(t) == TRUE
Enters(t) == task[t].lock # Absent => holder[task[t].lock] \in {Absent, t}

Locked(t) == [l \in 1..MaxOps |-> IF l = task[t].lock THEN t ELSE holder[l]]
Unlocked(t) == [l \in 1..MaxOps |-> IF l = task[t].lock THEN Absent ELSE holder[l]]

\* The operation ends, with a result or an exception.
End(t) == task' = [task EXCEPT ![t] = Idle] /\ holder' = Unlocked(t)

\* The indices an operation accepts.
Valid(op, arg, file) ==
    /\ op = "delete" => arg \in DOMAIN file.msgs
    /\ op = "deleteById" => arg \in Ids(file)

\* Another metadata update is at the file under a lock of its own.
Beside(t, u) ==
    /\ task[t].op = "metadata" /\ task[u].op = "metadata"
    /\ task[u].pc \in {"read", "open"} /\ task[u].lock # task[t].lock

\* The file is read.  It may be gone, and the index or id may be out of range.
\* delete_message_by_id calls delete_message with the index it found, which finds and
\* reads the file once more.
Read(t) ==
    LET file == files[task[t].place]
        accepted == file # Absent /\ Valid(task[t].op, task[t].arg, file)
        k == CHOOSE i \in DOMAIN file.msgs : file.msgs[i].id = task[t].arg
    IN
    /\ task[t].pc = "found" /\ Enters(t)
    /\ \/ ~accepted /\ End(t)
       \/ /\ accepted /\ task[t].op = "deleteById"
          /\ task' = [task EXCEPT ![t].op = "delete", ![t].arg = k]
          /\ UNCHANGED holder
       \/ /\ accepted /\ task[t].op # "deleteById"
          /\ task' = [task EXCEPT ![t].pc = "read", ![t].seen = file]
          /\ holder' = Locked(t)
    /\ apart' = (apart \/ \E u \in Tasks : Beside(t, u))
    /\ UNCHANGED <<files, lockOf, ops, messages, acked, removed, renamed, calm, tangled>>

\* The file is opened for writing, which empties it or creates it anew ...
Open(t) ==
    /\ task[t].pc = "read"
    /\ task' = [task EXCEPT ![t].pc = "open"]
    /\ files' = [files EXCEPT ![task[t].place] = Empty]
    /\ UNCHANGED <<lockOf, holder, ops, messages, acked, removed, renamed, calm, apart,
                   tangled>>

\* What is there after two coroutines had the file open at once: the later close writes
\* over the earlier content from the start and leaves what sticks out.
Overwritten(file, there) == {file, [file EXCEPT !.msgs = there.msgs], Empty}

\* ... and closed.  A descriptor outlives its name, but nothing is left to be seen of it.
Close(t) ==
    LET op == task[t].op
        place == task[t].place
        seen == task[t].seen
        file == Changed(op, task[t].arg, seen)
    IN  /\ task[t].pc = "open"
        /\ IF files[place] = Empty
           THEN files' = [files EXCEPT ![place] = file] /\ UNCHANGED tangled
           ELSE /\ tangled' = TRUE
                /\ IF files[place] = Absent THEN UNCHANGED files
                   ELSE \E mix \in Overwritten(file, files[place]) :
                            files' = [files EXCEPT ![place] = mix]
        /\ acked' = IF op = "append" THEN acked \cup {task[t].arg.id} ELSE acked
        /\ removed' = removed \cup (Ids(seen) \ Ids(file))
        /\ renamed' = IF op = "metadata" THEN renamed \cup {task[t].arg} ELSE renamed
        /\ End(t)
        /\ UNCHANGED <<lockOf, ops, messages, calm, apart>>

\* delete_session and move_session do not yield once they have found the file.
Delete(p) ==
    /\ Finds(p) /\ ops < MaxOps /\ ops' = ops + 1
    /\ files' = [files EXCEPT ![p] = Absent]
    /\ removed' = removed \cup Ids(files[p])
    /\ calm' = FALSE
    /\ UNCHANGED <<lockOf, holder, task, messages, acked, renamed, apart, tangled>>

Move(p, q) ==
    /\ p # q /\ Finds(p) /\ files[q] = Absent
    /\ ops < MaxOps /\ ops' = ops + 1
    /\ files' = [files EXCEPT ![q] = files[p], ![p] = Absent]
    /\ lockOf' = IF lockOf[p] = Absent THEN lockOf
                 ELSE [lockOf EXCEPT ![q] = lockOf[p], ![p] = Absent]
    /\ calm' = FALSE
    /\ UNCHANGED <<holder, task, messages, acked, removed, renamed, apart, tangled>>

StorageNext ==
    \/ \E t \in Tasks, p \in Places :
          \/ \E role \in Roles : BeginAppend(t, p, role)
          \/ \E op \in {"truncate", "delete", "deleteById"}, k \in 1..MaxMessages :
                BeginEdit(t, p, op, k)
          \/ \E op \in {"clear", "rewrite"} : BeginEdit(t, p, op, Absent)
          \/ \E key \in Keys, shared \in BOOLEAN : BeginMetadata(t, p, key, shared)
    \/ \E t \in Tasks : Read(t) \/ Open(t) \/ Close(t)
    \/ \E p \in Places : Delete(p)
    \/ \E p, q \in Places : Move(p, q)

StorageSpec == StorageInit /\ [][StorageNext]_storageVars

-----------------------------------------------------------------------------
(* Properties *)

\* current_step is the number of answers in the file and no message is in it twice,
\* whatever operations overlap and whichever of them lose their effect, as long as no two
\* writes are interleaved.
StepCountsAnswers ==
    ~tangled => \A p \in Places : files[p] # Absent =>
        /\ files[p].step = Answers(files[p].msgs)
        /\ Cardinality(Ids(files[p])) = Len(files[p].msgs)

\* Updates of a session's metadata that overlap with nothing but each other are all in the
\* file in the end, the per-file lock of update_session_metadata, unless two of them were
\* at the file through different storages, whose locks do not exclude each other.
MetadataUpdatesSurvive ==
    calm /\ ~apart /\ (\A t \in Tasks : task[t].pc = "idle") =>
        renamed \subseteq files["chat"].keys

\* Both: the count of answers in a session's file is right in itself, and no update made
\* under one lock with those it overlaps is lost.
LockedUpdatesHold == StepCountsAnswers /\ MetadataUpdatesSurvive

\* _file_locks: "Per-file locks to prevent concurrent read-modify-write corruption".  No
\* message whose append has returned is gone unless something removed it.
AppendsSurvive ==
    (\A t \in Tasks : task[t].pc = "idle") =>
        acked \ removed \subseteq UNION {Ids(files[p]) : p \in {q \in Places : files[q] # Absent}}
=============================================================================
