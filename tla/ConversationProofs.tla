------------------------- MODULE ConversationProofs -------------------------
(***************************************************************************)
(* Theorems of the file of a session, of its log and of a turn's tools.    *)
(*                                                                         *)
(* ConversationStorage, for any coroutines and any number of operations    *)
(* and messages: current_step counts the answers of a file, and a lock of  *)
(* update_session_metadata keeps every update made under it.               *)
(*                                                                         *)
(* ChatTurn, for any number of requests that overlap: the log is in order. *)
(*                                                                         *)
(* ToolLoop, for any batches of calls, any limit of rounds and any number  *)
(* of posts: what a turn costs, and that every call meets its own result.  *)
(***************************************************************************)
EXTENDS ToolLoop, ConversationStorage, ChatTurn, FiniteSetTheorems, SequenceTheorems,
        WellFoundedInduction, TLAPS

-----------------------------------------------------------------------------
(* The file of a session: types *)

Messages == [id : Nat, role : Roles]
File == [keys : SUBSET (Keys \cup {"id"}), step : Nat, msgs : Seq(Messages)]
Ops == {"append", "truncate", "delete", "deleteById", "clear", "metadata", "rewrite"}
Locks == 1..MaxOps

\* The coroutine has read its file and will write it.
Writing(r) == r.pc \in {"read", "open"}
Appending(r) == r.pc # "idle" /\ r.op = "append"

Args == Messages \cup Nat \cup Keys \cup {Absent}
Task == [pc : {"idle", "found", "read", "open"}, op : Ops \cup {Absent}, arg : Args,
         place : Places \cup {Absent}, lock : Locks \cup {Absent}, seen : File \cup {Absent}]

\* What an operation is given and, once it has read, what it saw.
ArgFits(op, arg) ==
    /\ op = "append" => arg \in Messages
    /\ op = "metadata" => arg \in Keys
    /\ op \in {"truncate", "delete", "deleteById"} => arg \in Nat
SeenFits(r) ==
    /\ r.seen \in File /\ r.op # "deleteById"
    /\ r.op = "delete" => r.arg \in DOMAIN r.seen.msgs
Fits(r) ==
    /\ r.pc # "idle" => r.op \in Ops /\ r.place \in Places /\ ArgFits(r.op, r.arg)
    /\ Writing(r) => SeenFits(r)

FilesTyped == files \in [Places -> File \cup {Absent}]
TasksTyped == task \in [Tasks -> Task] /\ \A t \in Tasks : Fits(task[t])
LocksTyped ==
    /\ lockOf \in [Places -> Locks \cup {Absent}]
    /\ holder \in [Locks -> Tasks \cup {Absent}]
CountsTyped ==
    /\ ops \in Nat /\ ops <= MaxOps /\ messages \in Nat
    /\ renamed \subseteq Keys /\ calm \in BOOLEAN
    /\ apart \in BOOLEAN /\ tangled \in BOOLEAN

Typed == FilesTyped /\ TasksTyped /\ LocksTyped /\ CountsTyped

-----------------------------------------------------------------------------
(* The step of a file *)

Distinct(list) == \A i, j \in DOMAIN list : list[i].id = list[j].id => i = j
Good(file) == file.step = Answers(file.msgs) /\ Distinct(file.msgs)

\* The message an append brings is new to a file.
NewTo(r, file) == Appending(r) => r.arg.id \notin Ids(file)

\* Ids are given once.
Given ==
    /\ \A p \in Places : files[p] # Absent => Ids(files[p]) \subseteq 1..messages
    /\ \A t \in Tasks :
          /\ Writing(task[t]) => Ids(task[t].seen) \subseteq 1..messages
          /\ Appending(task[t]) => task[t].arg.id \in 1..messages

Counted ==
    /\ \A p \in Places : files[p] # Absent => Good(files[p])
    /\ \A t \in Tasks : Writing(task[t]) => Good(task[t].seen)
    /\ \A t \in Tasks :
          /\ \A p \in Places : files[p] # Absent => NewTo(task[t], files[p])
          /\ \A u \in Tasks : Writing(task[u]) => NewTo(task[t], task[u].seen)
          /\ \A u \in Tasks :
                Appending(task[t]) /\ Appending(task[u]) /\ t # u =>
                    task[t].arg.id # task[u].arg.id

StepInv == Given /\ (~tangled => Counted)

-----------------------------------------------------------------------------
(* The lock of the metadata *)

\* While there have been metadata updates only, they are all on the file of the chat; unless
\* two came to it under different locks, one at a time is between its read and its close,
\* and it holds its lock.
UnderLock(r) == r.op = "metadata" /\ r.place = "chat" /\ r.lock \in Locks

Exclusive ==
    /\ files["project"] = Absent
    /\ \A t \in Tasks : task[t].pc # "idle" => UnderLock(task[t])
    /\ \A t, u \in Tasks : Writing(task[t]) /\ Writing(task[u]) => t = u
    /\ \A t \in Tasks :
          /\ Writing(task[t]) => holder[task[t].lock] = t
          /\ task[t].pc = "read" => task[t].seen = files["chat"]
          /\ task[t].pc = "open" => files["chat"] = Empty /\ renamed \subseteq task[t].seen.keys
    /\ (\A t \in Tasks : task[t].pc # "open") => renamed \subseteq files["chat"].keys

LockInv == calm /\ ~apart => Exclusive

IInv == Typed /\ StepInv /\ LockInv

-----------------------------------------------------------------------------
(* What the operations make of a file *)

LEMMA AnswersCounted ==
    ASSUME NEW list \in Seq(Messages)
    PROVE  /\ IsFiniteSet({i \in DOMAIN list : list[i].role = "assistant"})
           /\ Answers(list) \in Nat
<1> DEFINE A == {i \in DOMAIN list : list[i].role = "assistant"}
<1>1. IsFiniteSet(1..Len(list)) /\ DOMAIN list = 1..Len(list)
  BY FS_Interval
<1>2. IsFiniteSet(A)
  BY <1>1, FS_Subset
<1> QED
  BY <1>2, FS_CardinalityType DEF Answers

LEMMA AnswersOfAppend ==
    ASSUME NEW list \in Seq(Messages), NEW m \in Messages
    PROVE  Answers(Append(list, m)) =
               IF m.role = "assistant" THEN Answers(list) + 1 ELSE Answers(list)
<1> DEFINE new == Append(list, m)
           A == {i \in DOMAIN list : list[i].role = "assistant"}
           B == {i \in DOMAIN new : new[i].role = "assistant"}
<1>1. /\ DOMAIN new = 1..(Len(list) + 1) /\ DOMAIN list = 1..Len(list) /\ Len(list) \in Nat
      /\ \A i \in DOMAIN list : new[i] = list[i]
      /\ new[Len(list) + 1] = m
  OBVIOUS
<1>2. IsFiniteSet(A)
  BY AnswersCounted
<1>3. CASE m.role = "assistant"
  <2>1. B = A \cup {Len(list) + 1} /\ Len(list) + 1 \notin A
    BY <1>1, <1>3
  <2> QED
    BY <1>2, <1>3, <2>1, FS_AddElement DEF Answers
<1>4. CASE m.role # "assistant"
  <2>1. B = A
    BY <1>1, <1>4
  <2> QED
    BY <1>4, <2>1 DEF Answers
<1> QED
  BY <1>3, <1>4

\* The same file with another body and step.
With(file, list, step) == [file EXCEPT !.msgs = list, !.step = step]

LEMMA Written ==
    ASSUME NEW file \in File, NEW list \in Seq(Messages), NEW step \in Nat
    PROVE  /\ With(file, list, step) \in File
           /\ With(file, list, step).msgs = list
           /\ With(file, list, step).step = step
BY DEF File, With

LEMMA EmptyFile == Empty \in File /\ Good(Empty) /\ Ids(Empty) = {}
<1>1. Empty \in File /\ DOMAIN Empty.msgs = {}
  BY DEF Empty, File
<1>2. {i \in DOMAIN Empty.msgs : Empty.msgs[i].role = "assistant"} = {}
  BY <1>1
<1>3. Answers(Empty.msgs) = 0
  BY <1>2, FS_EmptySet DEF Answers
<1> QED
  BY <1>1, <1>3 DEF Good, Distinct, Ids, Empty

\* Ids that are distinct are as many as the messages.
LEMMA DistinctIds ==
    ASSUME NEW file \in File, Distinct(file.msgs)
    PROVE  Cardinality(Ids(file)) = Len(file.msgs)
<1> DEFINE n == Len(file.msgs)
           idOf == [i \in 1..n |-> file.msgs[i].id]
<1>1. n \in Nat /\ DOMAIN file.msgs = 1..n
  BY DEF File
<1>2. idOf \in Bijection(1..n, Ids(file))
  <2>1. idOf \in [1..n -> Ids(file)]
    BY <1>1 DEF Ids
  <2>2. \A i, j \in 1..n : idOf[i] = idOf[j] => i = j
    BY <1>1 DEF Distinct
  <2>3. \A d \in Ids(file) : \E i \in 1..n : idOf[i] = d
    BY <1>1 DEF Ids
  <2> QED
    BY <2>1, <2>2, <2>3 DEF Bijection, Injection, Surjection, IsInjective
<1>3. IsFiniteSet(1..n) /\ Cardinality(1..n) = n
  BY <1>1, FS_Interval
<1> HIDE DEF n, idOf
<1>4. Cardinality(1..n) = Cardinality(Ids(file))
  BY <1>2, <1>3, FS_Bijection DEF ExistsBijection
<1> QED
  BY <1>3, <1>4 DEF n

LEMMA KeptRight ==
    ASSUME NEW list \in Seq(Messages), NEW k \in Nat
    PROVE  /\ Kept(list, k) \in Seq(Messages)
           /\ \A i \in DOMAIN Kept(list, k) : i \in DOMAIN list /\ Kept(list, k)[i] = list[i]
<1> DEFINE n == IF k < Len(list) THEN k ELSE Len(list)
<1>1. n \in Nat /\ n <= Len(list) /\ Len(list) \in Nat /\ DOMAIN list = 1..Len(list)
  OBVIOUS
<1> HIDE DEF n
<1>2. /\ SubSeq(list, 1, n) \in Seq(Messages)
      /\ Len(SubSeq(list, 1, n)) = n
      /\ \A i \in 1..n : SubSeq(list, 1, n)[i] = list[i]
  BY <1>1
<1>3. Kept(list, k) = SubSeq(list, 1, n)
  BY DEF Kept, n
<1> QED
  BY <1>1, <1>2, <1>3

LEMMA WithoutRight ==
    ASSUME NEW list \in Seq(Messages), NEW k \in DOMAIN list
    PROVE  /\ Without(list, k) \in Seq(Messages)
           /\ Len(Without(list, k)) = Len(list) - 1
           /\ \A i \in DOMAIN Without(list, k) :
                 /\ (IF i < k THEN i ELSE i + 1) \in DOMAIN list
                 /\ Without(list, k)[i] = list[IF i < k THEN i ELSE i + 1]
<1> DEFINE before == SubSeq(list, 1, k - 1)
           after == SubSeq(list, k + 1, Len(list))
<1>1. /\ Len(list) \in Nat /\ DOMAIN list = 1..Len(list) /\ k \in 1..Len(list)
  OBVIOUS
<1>2. /\ before \in Seq(Messages) /\ Len(before) = k - 1
      /\ \A i \in 1..(k - 1) : before[i] = list[i]
  BY <1>1
<1>3. /\ after \in Seq(Messages) /\ Len(after) = Len(list) - k
      /\ \A i \in 1..(Len(list) - k) : after[i] = list[k + i]
  BY <1>1
<1> HIDE DEF before, after
<1>4. /\ before \o after \in Seq(Messages)
      /\ Len(before \o after) = Len(list) - 1
      /\ DOMAIN (before \o after) = 1..(Len(list) - 1)
  <2>1. before \o after \in Seq(Messages) /\ Len(before \o after) = Len(before) + Len(after)
    BY <1>2, <1>3, ConcatProperties
  <2>2. Len(before \o after) = Len(list) - 1
    BY <1>1, <1>2, <1>3, <2>1
  <2> QED
    BY <2>1, <2>2, LenProperties
<1>5. ASSUME NEW i \in 1..(Len(list) - 1)
      PROVE  (before \o after)[i] = list[IF i < k THEN i ELSE i + 1]
  <2>1. CASE i < k
    BY <1>1, <1>2, <1>3, <2>1
  <2>2. CASE ~(i < k)
    <3> DEFINE j == i - (k - 1)
    <3>1. j \in 1..(Len(list) - k) /\ k + j = i + 1
      BY <1>1, <2>2
    <3>2. (before \o after)[i] = after[j]
      BY <1>1, <1>2, <1>3, <2>2
    <3> HIDE DEF j
    <3> QED
      BY <1>3, <2>2, <3>1, <3>2
  <2> QED
    BY <2>1, <2>2
<1>6. Without(list, k) = before \o after
  BY DEF Without, before, after
<1>7. \A i \in 1..(Len(list) - 1) : (IF i < k THEN i ELSE i + 1) \in DOMAIN list
  BY <1>1
<1> QED
  BY <1>4, <1>5, <1>6, <1>7

\* A part of the messages, in their order, has distinct ids and no new ones.
LEMMA RebuiltRight ==
    ASSUME NEW file \in File, NEW list \in Seq(Messages),
           NEW at, \A i \in DOMAIN list : at[i] \in DOMAIN file.msgs /\ list[i] = file.msgs[at[i]],
           \A i, j \in DOMAIN list : at[i] = at[j] => i = j
    PROVE  /\ Rebuilt(file, list) \in File
           /\ Ids(Rebuilt(file, list)) \subseteq Ids(file)
           /\ Good(file) => Good(Rebuilt(file, list))
<1>1. Answers(list) \in Nat
  BY AnswersCounted
<1>2. /\ Rebuilt(file, list) \in File
      /\ Rebuilt(file, list).msgs = list
      /\ Rebuilt(file, list).step = Answers(list)
  BY <1>1 DEF Rebuilt, File
<1>3. Ids(Rebuilt(file, list)) \subseteq Ids(file)
  BY <1>2 DEF Ids
<1>4. Distinct(file.msgs) => Distinct(list)
  BY DEF Distinct
<1> QED
  BY <1>2, <1>3, <1>4 DEF Good

\* What an operation writes is a file, with no id but those it read and the one it brings,
\* and with the right step if what it read had it.
LEMMA ChangedRight ==
    ASSUME NEW file \in File, NEW op \in Ops \ {"deleteById"}, NEW arg, ArgFits(op, arg),
           op = "delete" => arg \in DOMAIN file.msgs
    PROVE  /\ Changed(op, arg, file) \in File
           /\ Ids(Changed(op, arg, file)) \subseteq
                 Ids(file) \cup (IF op = "append" THEN {arg.id} ELSE {})
           /\ Good(file) /\ (op = "append" => arg.id \notin Ids(file)) =>
                 Good(Changed(op, arg, file))
<1>1. CASE op = "append"
  <2> DEFINE new == Appended(file, arg)
  <2>1. arg \in Messages /\ Changed(op, arg, file) = new
    BY <1>1 DEF ArgFits, Changed
  <2>2. /\ new \in File
        /\ new.msgs = Append(file.msgs, arg)
        /\ new.step = IF arg.role = "assistant" THEN file.step + 1 ELSE file.step
    <3>1. Append(file.msgs, arg) \in Seq(Messages) /\ file.step \in Nat
      BY <2>1 DEF File
    <3> DEFINE list == Append(file.msgs, arg)
               step == IF arg.role = "assistant" THEN file.step + 1 ELSE file.step
    <3>2. new = With(file, list, step)
      BY DEF Appended, With
    <3>3. list \in Seq(Messages) /\ step \in Nat
      BY <3>1
    <3> HIDE DEF new, list, step
    <3>4. /\ With(file, list, step) \in File
          /\ With(file, list, step).msgs = list
          /\ With(file, list, step).step = step
      BY <3>3, Written
    <3> QED
      BY <3>2, <3>4 DEF list, step
  <2>3. /\ file.msgs \in Seq(Messages)
        /\ Len(file.msgs) \in Nat /\ DOMAIN file.msgs = 1..Len(file.msgs)
        /\ DOMAIN new.msgs = 1..(Len(file.msgs) + 1)
        /\ \A i \in DOMAIN file.msgs : new.msgs[i] = file.msgs[i]
        /\ new.msgs[Len(file.msgs) + 1] = arg
    BY <2>1, <2>2 DEF File
  <2>4. Ids(new) \subseteq Ids(file) \cup {arg.id}
    BY <2>3 DEF Ids
  <2>5. Good(file) => new.step = Answers(new.msgs)
    BY <2>1, <2>2, <2>3, AnswersOfAppend DEF Good
  <2>6. Distinct(file.msgs) /\ arg.id \notin Ids(file) => Distinct(new.msgs)
    <3> SUFFICES ASSUME Distinct(file.msgs), arg.id \notin Ids(file),
                        NEW i \in DOMAIN new.msgs, NEW j \in DOMAIN new.msgs,
                        new.msgs[i].id = new.msgs[j].id
                 PROVE  i = j
      BY DEF Distinct
    <3>1. \A x \in DOMAIN file.msgs : file.msgs[x].id # arg.id
      BY DEF Ids
    <3>2. \A x \in DOMAIN new.msgs : x \in DOMAIN file.msgs \/ x = Len(file.msgs) + 1
      BY <2>3
    <3>3. CASE i \in DOMAIN file.msgs /\ j \in DOMAIN file.msgs
      BY <2>3, <3>3 DEF Distinct
    <3> QED
      BY <2>3, <3>1, <3>2, <3>3
  <2> QED
    BY <1>1, <2>1, <2>2, <2>4, <2>5, <2>6 DEF Good
<1>2. CASE op = "truncate"
  <2> DEFINE list == Kept(file.msgs, arg)
             at == [i \in DOMAIN list |-> i]
  <2>1. arg \in Nat /\ file.msgs \in Seq(Messages) /\ Changed(op, arg, file) = Rebuilt(file, list)
    BY <1>2 DEF ArgFits, Changed, File
  <2>2. /\ list \in Seq(Messages)
        /\ \A i \in DOMAIN list : i \in DOMAIN file.msgs /\ list[i] = file.msgs[i]
    BY <2>1, KeptRight
  <2> HIDE DEF list
  <2>3. /\ \A i \in DOMAIN list : at[i] \in DOMAIN file.msgs /\ list[i] = file.msgs[at[i]]
        /\ \A i, j \in DOMAIN list : at[i] = at[j] => i = j
    BY <2>2
  <2> HIDE DEF at
  <2>4. /\ Rebuilt(file, list) \in File
        /\ Ids(Rebuilt(file, list)) \subseteq Ids(file)
        /\ Good(file) => Good(Rebuilt(file, list))
    BY <2>2, <2>3, RebuiltRight
  <2> QED
    BY <1>2, <2>1, <2>4
<1>3. CASE op = "delete"
  <2> DEFINE list == Without(file.msgs, arg)
             at == [i \in DOMAIN list |-> IF i < arg THEN i ELSE i + 1]
  <2>1. /\ file.msgs \in Seq(Messages) /\ arg \in DOMAIN file.msgs /\ arg \in Nat
        /\ Changed(op, arg, file) = Rebuilt(file, list)
    BY <1>3 DEF ArgFits, Changed, File
  <2>2. /\ list \in Seq(Messages)
        /\ \A i \in DOMAIN list : at[i] \in DOMAIN file.msgs /\ list[i] = file.msgs[at[i]]
    BY <2>1, WithoutRight
  <2> HIDE DEF list
  <2>3. DOMAIN list \subseteq Nat
    BY <2>2
  <2>4. \A i, j \in DOMAIN list : at[i] = at[j] => i = j
    BY <2>1, <2>3
  <2> HIDE DEF at
  <2>5. /\ Rebuilt(file, list) \in File
        /\ Ids(Rebuilt(file, list)) \subseteq Ids(file)
        /\ Good(file) => Good(Rebuilt(file, list))
    BY <2>2, <2>4, RebuiltRight
  <2> QED
    BY <1>3, <2>1, <2>5
<1>4. CASE op = "clear"
  <2> DEFINE list == Empty.msgs
             step == Empty.step
             new == With(file, list, step)
  <2>1. list \in Seq(Messages) /\ step \in Nat
    BY DEF Empty
  <2>2. Changed(op, arg, file) = new
    BY <1>4 DEF Changed, With, Empty
  <2> HIDE DEF list, step
  <2>3. new \in File /\ new.msgs = list /\ new.step = step
    BY <2>1, Written
  <2> HIDE DEF new
  <2>4. Good(new) /\ Ids(new) = {}
    BY <2>3, EmptyFile DEF Good, Ids, list, step
  <2> QED
    BY <1>4, <2>2, <2>3, <2>4
<1>5. CASE op = "metadata"
  <2>1. /\ Changed(op, arg, file) \in File
        /\ Changed(op, arg, file).msgs = file.msgs /\ Changed(op, arg, file).step = file.step
    BY <1>5 DEF Changed, File, ArgFits
  <2> QED
    BY <1>5, <2>1 DEF Good, Ids
<1>6. CASE op = "rewrite"
  BY <1>6 DEF Changed
<1> QED
  BY <1>1, <1>2, <1>3, <1>4, <1>5, <1>6 DEF Ops

-----------------------------------------------------------------------------
(* The steps *)

\* What the ways to begin an operation have in common.
Begins(t, op, arg, p, lock) ==
    /\ Begin(t, op, arg, p, lock)
    /\ op \in Ops /\ ArgFits(op, arg) /\ arg \in Args
    /\ IF op = "append" THEN arg.id = messages + 1 /\ messages' = messages + 1
       ELSE messages' = messages
    /\ IF op = "metadata"
       THEN lock \in Locks /\ lockOf' \in {lockOf, [lockOf EXCEPT ![p] = lock]}
       ELSE lock = Absent /\ lockOf' = lockOf

LEMMA StepsOfNext ==
    ASSUME Typed, StorageNext
    PROVE  \/ \E t \in Tasks, op \in Ops, arg \in Args, p \in Places, lock \in Locks \cup {Absent} :
                 Begins(t, op, arg, p, lock)
           \/ \E t \in Tasks : Read(t) \/ Open(t) \/ Close(t)
           \/ \E p \in Places : Delete(p)
           \/ \E p, q \in Places : Move(p, q)
<1>1. ASSUME NEW t \in Tasks, NEW p \in Places, NEW role \in Roles, BeginAppend(t, p, role)
      PROVE  \E op \in Ops, arg \in Args, lock \in Locks \cup {Absent} :
                 Begins(t, op, arg, p, lock)
  <2> DEFINE arg == [id |-> messages + 1, role |-> role]
  <2>1. arg \in Messages /\ arg.id = messages + 1
    BY DEF Messages, Typed, CountsTyped
  <2>2. Begins(t, "append", arg, p, Absent)
    BY <1>1, <2>1 DEF BeginAppend, Begins, Ops, ArgFits, Args
  <2> QED
    BY <2>1, <2>2 DEF Ops, Args
<1>2. ASSUME NEW t \in Tasks, NEW p \in Places,
             NEW op \in {"truncate", "delete", "deleteById"}, NEW k \in 1..MaxMessages,
             BeginEdit(t, p, op, k)
      PROVE  \E arg \in Args, lock \in Locks \cup {Absent} : Begins(t, op, arg, p, lock)
  <2>1. k \in Nat
    BY StorageAssumption
  <2>2. Begins(t, op, k, p, Absent)
    BY <1>2, <2>1 DEF BeginEdit, Begins, Ops, ArgFits, Args
  <2> QED
    BY <2>1, <2>2 DEF Args
<1>3. ASSUME NEW t \in Tasks, NEW p \in Places, NEW op \in {"clear", "rewrite"},
             BeginEdit(t, p, op, Absent)
      PROVE  \E arg \in Args, lock \in Locks \cup {Absent} : Begins(t, op, arg, p, lock)
  <2>1. Begins(t, op, Absent, p, Absent)
    BY <1>3 DEF BeginEdit, Begins, Ops, ArgFits, Args
  <2> QED
    BY <2>1 DEF Args
<1>4. ASSUME NEW t \in Tasks, NEW p \in Places, NEW key \in Keys, NEW shared \in BOOLEAN,
             BeginMetadata(t, p, key, shared)
      PROVE  \E op \in Ops, arg \in Args, lock \in Locks \cup {Absent} :
                 Begins(t, op, arg, p, lock)
  <2> DEFINE lock == IF shared /\ lockOf[p] # Absent THEN lockOf[p] ELSE ops + 1
  <2>1. /\ Begin(t, "metadata", key, p, lock) /\ messages' = messages
        /\ lockOf' \in {lockOf, [lockOf EXCEPT ![p] = lock]}
    BY <1>4 DEF BeginMetadata
  <2>2. ops < MaxOps
    BY <2>1 DEF Begin
  <2>3. lock \in Locks
    BY <2>2, StorageAssumption DEF Typed, LocksTyped, CountsTyped, Locks
  <2>4. Begins(t, "metadata", key, p, lock)
    BY <2>1, <2>3 DEF Begins, Ops, ArgFits, Args
  <2> QED
    BY <2>3, <2>4 DEF Ops, Args
<1>5. {"truncate", "delete", "deleteById", "clear", "rewrite"} \subseteq Ops
  BY DEF Ops
<1> QED
  BY <1>1, <1>2, <1>3, <1>4, <1>5 DEF StorageNext

\* The coroutine's next record.
LEMMA OneTask ==
    ASSUME TasksTyped, NEW t \in Tasks, NEW r \in Task, Fits(r), task' = [task EXCEPT ![t] = r]
    PROVE  /\ TasksTyped'
           /\ task'[t] = r
           /\ \A u \in Tasks \ {t} : task'[u] = task[u]
BY DEF TasksTyped

LEMMA IdleTask == Idle \in Task /\ Fits(Idle) /\ Idle.pc = "idle"
BY DEF Idle, Task, Fits, Writing, Args

LEMMA Begun ==
    ASSUME Typed, NEW t \in Tasks, NEW op \in Ops, NEW arg \in Args,
           NEW p \in Places, NEW lock \in Locks \cup {Absent}, Begins(t, op, arg, p, lock)
    PROVE  /\ Typed'
           /\ \A u \in Tasks \ {t} : task'[u] = task[u]
           /\ task'[t].pc = "found" /\ task'[t].op = op /\ task'[t].arg = arg
           /\ task'[t].place = p /\ task'[t].lock = lock
<1> DEFINE r == [pc |-> "found", op |-> op, arg |-> arg, place |-> p, lock |-> lock,
                 seen |-> Absent]
<1>1. r \in Task
  BY DEF Task
<1>2. Fits(r)
  BY DEF Begins, Fits, Writing
<1>3. task' = [task EXCEPT ![t] = r]
  BY DEF Begins, Begin
<1>4. /\ r.pc = "found" /\ r.op = op /\ r.arg = arg /\ r.place = p /\ r.lock = lock
  OBVIOUS
<1> HIDE DEF r
<1>5. /\ TasksTyped'
      /\ task'[t] = r
      /\ \A u \in Tasks \ {t} : task'[u] = task[u]
  BY <1>1, <1>2, <1>3, OneTask DEF Typed
<1>6. FilesTyped' /\ LocksTyped'
  BY DEF Typed, FilesTyped, LocksTyped, Begins, Begin
<1>7. CountsTyped'
  BY StorageAssumption DEF Typed, CountsTyped, Begins, Begin
<1> QED
  BY <1>4, <1>5, <1>6, <1>7 DEF Typed

LEMMA Ended ==
    ASSUME Typed, NEW t \in Tasks, End(t)
    PROVE  /\ TasksTyped'
           /\ task'[t].pc = "idle"
           /\ \A u \in Tasks \ {t} : task'[u] = task[u]
           /\ holder' = Unlocked(t) /\ holder' \in [Locks -> Tasks \cup {Absent}]
<1>1. task' = [task EXCEPT ![t] = Idle]
  BY DEF End
<1>2. /\ TasksTyped'
      /\ task'[t] = Idle
      /\ \A u \in Tasks \ {t} : task'[u] = task[u]
  BY <1>1, IdleTask, OneTask DEF Typed
<1>3. holder' = Unlocked(t) /\ holder' \in [Locks -> Tasks \cup {Absent}]
  BY DEF End, Unlocked, Typed, LocksTyped, Locks
<1> QED
  BY <1>2, <1>3, IdleTask

\* What a read leaves behind, in its three outcomes.
Refused(t) == task'[t].pc = "idle" /\ holder' = Unlocked(t)
Located(t) ==
    /\ task'[t].pc = "found" /\ task[t].op = "deleteById" /\ task'[t].op = "delete"
    /\ task'[t].place = task[t].place /\ task'[t].lock = task[t].lock
    /\ holder' = holder
Seen(t) ==
    /\ task'[t].pc = "read" /\ task'[t].op = task[t].op /\ task'[t].arg = task[t].arg
    /\ task'[t].place = task[t].place /\ task'[t].lock = task[t].lock
    /\ task'[t].seen = files[task[t].place] /\ files[task[t].place] # Absent
    /\ holder' = Locked(t)

LEMMA ReadDone ==
    ASSUME Typed, NEW t \in Tasks, Read(t)
    PROVE  /\ Typed'
           /\ \A u \in Tasks \ {t} : task'[u] = task[u]
           /\ Refused(t) \/ Located(t) \/ Seen(t)
<1> DEFINE r == task[t]
           file == files[r.place]
           accepted == file # Absent /\ Valid(r.op, r.arg, file)
           k == CHOOSE i \in DOMAIN file.msgs : file.msgs[i].id = r.arg
<1>1. /\ r \in Task /\ Fits(r) /\ r.pc = "found"
      /\ r.op \in Ops /\ r.place \in Places /\ ArgFits(r.op, r.arg)
  BY DEF Read, Typed, TasksTyped, Fits
<1>2. file \in File \cup {Absent}
  BY <1>1 DEF Typed, FilesTyped
<1>3. FilesTyped' /\ CountsTyped' /\ lockOf' = lockOf
  BY DEF Read, Typed, FilesTyped, CountsTyped
<1>4. CASE ~accepted /\ End(t)
  BY <1>3, <1>4, Ended DEF Typed, LocksTyped, Refused
<1>5. CASE /\ accepted /\ r.op = "deleteById" /\ holder' = holder
           /\ task' = [task EXCEPT ![t].op = "delete", ![t].arg = k]
  <2> DEFINE new == [r EXCEPT !.op = "delete", !.arg = k]
  <2>1. \E i \in DOMAIN file.msgs : file.msgs[i].id = r.arg
    BY <1>5 DEF Valid, Ids
  <2>2. k \in DOMAIN file.msgs
    BY <2>1
  <2>3. k \in Nat
    <3>1. file \in File
      BY <1>2, <1>5
    <3>2. file.msgs \in Seq(Messages)
      BY <3>1 DEF File
    <3>3. DOMAIN file.msgs \subseteq Nat
      BY <3>2
    <3> HIDE DEF k
    <3> QED
      BY <2>2, <3>3
  <2> HIDE DEF k
  <2>4. new \in Task
    BY <1>1, <2>3 DEF Task, Args, Ops
  <2>5. Fits(new)
    BY <1>1, <2>3 DEF Fits, Writing, ArgFits, Ops
  <2>6. task' = [task EXCEPT ![t] = new]
    BY <1>1, <1>5
  <2>7. /\ new.pc = "found" /\ new.op = "delete"
        /\ new.place = r.place /\ new.lock = r.lock
    BY <1>1 DEF Task
  <2> HIDE DEF new
  <2>8. /\ TasksTyped'
        /\ task'[t] = new
        /\ \A u \in Tasks \ {t} : task'[u] = task[u]
    BY <2>4, <2>5, <2>6, OneTask DEF Typed
  <2> QED
    BY <1>3, <1>5, <2>7, <2>8 DEF Typed, LocksTyped, Located
<1>6. CASE /\ accepted /\ r.op # "deleteById" /\ holder' = Locked(t)
           /\ task' = [task EXCEPT ![t].pc = "read", ![t].seen = file]
  <2> DEFINE new == [r EXCEPT !.pc = "read", !.seen = file]
  <2>1. new \in Task
    BY <1>1, <1>2 DEF Task
  <2>2. Fits(new)
    BY <1>1, <1>2, <1>6 DEF Fits, Writing, SeenFits, Valid
  <2>3. task' = [task EXCEPT ![t] = new]
    BY <1>1, <1>6
  <2>4. /\ new.pc = "read" /\ new.op = r.op /\ new.arg = r.arg
        /\ new.place = r.place /\ new.lock = r.lock /\ new.seen = file
    BY <1>1 DEF Task
  <2> HIDE DEF new
  <2>5. /\ TasksTyped'
        /\ task'[t] = new
        /\ \A u \in Tasks \ {t} : task'[u] = task[u]
    BY <2>1, <2>2, <2>3, OneTask DEF Typed
  <2>6. LocksTyped'
    BY <1>3, <1>6 DEF Typed, LocksTyped, Locked, Locks
  <2> QED
    BY <1>3, <1>6, <2>4, <2>5, <2>6 DEF Typed, Seen
<1> QED
  BY <1>4, <1>5, <1>6 DEF Read

LEMMA OpenDone ==
    ASSUME Typed, NEW t \in Tasks, Open(t)
    PROVE  /\ Typed'
           /\ \A u \in Tasks \ {t} : task'[u] = task[u]
           /\ task[t].pc = "read" /\ task'[t].pc = "open" /\ task'[t].op = task[t].op
           /\ task'[t].arg = task[t].arg /\ task'[t].place = task[t].place
           /\ task'[t].lock = task[t].lock /\ task'[t].seen = task[t].seen
           /\ task[t].place \in Places
           /\ files' = [files EXCEPT ![task[t].place] = Empty]
<1> DEFINE r == task[t]
           new == [r EXCEPT !.pc = "open"]
<1>1. r \in Task /\ Fits(r) /\ r.pc = "read" /\ r.place \in Places
  BY DEF Open, Typed, TasksTyped, Fits
<1>2. new \in Task
  BY <1>1 DEF Task
<1>3. Fits(new)
  BY <1>1 DEF Fits, Writing, SeenFits
<1>4. task' = [task EXCEPT ![t] = new]
  BY <1>1 DEF Open
<1>5. /\ new.pc = "open" /\ new.op = r.op /\ new.arg = r.arg
      /\ new.place = r.place /\ new.lock = r.lock /\ new.seen = r.seen
  BY <1>1 DEF Task
<1> HIDE DEF new
<1>6. /\ TasksTyped'
      /\ task'[t] = new
      /\ \A u \in Tasks \ {t} : task'[u] = task[u]
  BY <1>2, <1>3, <1>4, OneTask DEF Typed
<1>7. FilesTyped'
  BY <1>1, EmptyFile DEF Open, Typed, FilesTyped
<1>8. LocksTyped' /\ CountsTyped'
  BY DEF Open, Typed, LocksTyped, CountsTyped
<1> QED
  BY <1>1, <1>5, <1>6, <1>7, <1>8 DEF Typed, Open

\* A close writes what the operation made of what it read, unless another coroutine had the
\* file open as well or it has gone.
LEMMA CloseDone ==
    ASSUME Typed, NEW t \in Tasks, Close(t)
    PROVE  LET r == task[t]
               file == Changed(r.op, r.arg, r.seen)
           IN  /\ Typed'
               /\ \A u \in Tasks \ {t} : task'[u] = task[u]
               /\ r.pc = "open" /\ r.place \in Places /\ r.op \in Ops /\ r.op # "deleteById"
               /\ task'[t].pc = "idle" /\ holder' = Unlocked(t)
               /\ r.seen \in File /\ file \in File
               /\ Ids(file) \subseteq
                     Ids(r.seen) \cup (IF r.op = "append" THEN {r.arg.id} ELSE {})
               /\ Good(r.seen) /\ (r.op = "append" => r.arg.id \notin Ids(r.seen)) => Good(file)
               /\ \/ /\ files[r.place] = Empty /\ tangled' = tangled
                     /\ files' = [files EXCEPT ![r.place] = file]
                  \/ tangled' = TRUE /\ files' = files /\ files[r.place] # Empty
                  \/ /\ tangled' = TRUE /\ files[r.place] \notin {Absent, Empty}
                     /\ \E mix \in Overwritten(file, files[r.place]) :
                           files' = [files EXCEPT ![r.place] = mix]
<1> DEFINE r == task[t]
           file == Changed(r.op, r.arg, r.seen)
<1>1. /\ r \in Task /\ Fits(r) /\ r.pc = "open" /\ r.place \in Places /\ r.op \in Ops
      /\ ArgFits(r.op, r.arg) /\ SeenFits(r)
  BY DEF Close, Typed, TasksTyped, Fits, Writing
<1>2. /\ file \in File
      /\ Ids(file) \subseteq Ids(r.seen) \cup (IF r.op = "append" THEN {r.arg.id} ELSE {})
      /\ Good(r.seen) /\ (r.op = "append" => r.arg.id \notin Ids(r.seen)) => Good(file)
  <2>1. /\ r.seen \in File /\ r.op \in Ops \ {"deleteById"}
        /\ r.op = "delete" => r.arg \in DOMAIN r.seen.msgs
    BY <1>1 DEF SeenFits
  <2> HIDE DEF r
  <2> QED
    BY <1>1, <2>1, ChangedRight
<1> HIDE DEF file
<1>3. /\ TasksTyped' /\ task'[t].pc = "idle" /\ holder' = Unlocked(t)
      /\ \A u \in Tasks \ {t} : task'[u] = task[u]
      /\ holder' \in [Locks -> Tasks \cup {Absent}]
  BY Ended DEF Close
<1>4. \/ /\ files[r.place] = Empty /\ tangled' = tangled
         /\ files' = [files EXCEPT ![r.place] = file]
      \/ tangled' = TRUE /\ files' = files /\ files[r.place] # Empty
      \/ /\ tangled' = TRUE /\ files[r.place] \notin {Absent, Empty}
         /\ \E mix \in Overwritten(file, files[r.place]) :
               files' = [files EXCEPT ![r.place] = mix]
  BY DEF Close, file
<1>5. ASSUME NEW mix \in Overwritten(file, files[r.place]), files[r.place] # Absent
      PROVE  mix \in File
  <2>1. files[r.place] \in File
    BY <1>1, <1>5 DEF Typed, FilesTyped
  <2> QED
    BY <1>2, <2>1, EmptyFile DEF Overwritten, File
<1>6. FilesTyped'
  BY <1>1, <1>2, <1>4, <1>5 DEF Typed, FilesTyped
<1>7. LocksTyped'
  BY <1>3 DEF Close, Typed, LocksTyped
<1>8. CountsTyped'
  BY <1>1, <1>4 DEF Close, Typed, CountsTyped, ArgFits
<1> QED
  BY <1>1, <1>2, <1>3, <1>4, <1>6, <1>7, <1>8 DEF Typed, file, SeenFits

LEMMA MovedAway ==
    ASSUME Typed,
           (\E p \in Places : Delete(p)) \/ (\E p, q \in Places : Move(p, q))
    PROVE  /\ Typed'
           /\ UNCHANGED <<task, holder, messages, apart, tangled>> /\ calm' = FALSE
           /\ \A p \in Places : files'[p] # Absent => \E q \in Places : files'[p] = files[q]
<1>1. UNCHANGED <<task, holder, messages, apart, tangled, renamed>> /\ calm' = FALSE
  BY DEF Delete, Move
<1>2. TasksTyped'
  BY <1>1 DEF Typed, TasksTyped
<1>3. CountsTyped'
  <2>1. ops < MaxOps /\ ops' = ops + 1 /\ ops \in Nat /\ MaxOps \in Nat
    BY StorageAssumption DEF Delete, Move, Typed, CountsTyped
  <2>2. ops' \in Nat /\ ops' <= MaxOps
    BY <2>1
  <2> QED
    BY <1>1, <2>2, Zenon DEF Typed, CountsTyped
<1>4. LocksTyped'
  BY DEF Typed, LocksTyped, Delete, Move
<1>5. FilesTyped' /\ \A p \in Places : files'[p] # Absent => \E q \in Places : files'[p] = files[q]
  BY DEF Typed, FilesTyped, Delete, Move
<1> QED
  BY <1>1, <1>2, <1>3, <1>4, <1>5 DEF Typed

LEMMA TypedStep ==
    ASSUME Typed, [StorageNext]_storageVars
    PROVE  Typed'
<1>1. CASE UNCHANGED storageVars
  BY <1>1 DEF storageVars, Typed, FilesTyped, TasksTyped, LocksTyped, CountsTyped
<1>2. CASE StorageNext
  BY <1>2, StepsOfNext, Begun, ReadDone, OpenDone, CloseDone, MovedAway
<1> QED
  BY <1>1, <1>2

LEMMA TypedInit ==
    ASSUME StorageInit
    PROVE  Typed
<1>1. [Empty EXCEPT !.keys = {"id"}] \in File
  <2>1. Empty \in File /\ {"id"} \in SUBSET (Keys \cup {"id"})
    BY EmptyFile
  <2> QED
    BY <2>1 DEF File
<1>2. FilesTyped
  BY <1>1 DEF StorageInit, FilesTyped
<1>3. TasksTyped
  BY IdleTask DEF StorageInit, TasksTyped
<1>4. LocksTyped
  BY DEF StorageInit, LocksTyped, Locks
<1>5. CountsTyped
  <2>1. ops \in Nat /\ ops <= MaxOps /\ messages \in Nat
    BY StorageAssumption DEF StorageInit
  <2> QED
    BY <2>1, Zenon DEF StorageInit, CountsTyped
<1> QED
  BY <1>2, <1>3, <1>4, <1>5 DEF Typed

-----------------------------------------------------------------------------
(* The step counts the answers *)

LEMMA StepsOfBegin ==
    ASSUME Typed, StepInv, NEW t \in Tasks, NEW op \in Ops,
           NEW arg \in Args, NEW p \in Places, NEW lock \in Locks \cup {Absent},
           Begins(t, op, arg, p, lock)
    PROVE  StepInv'
<1>1. /\ Typed' /\ \A u \in Tasks \ {t} : task'[u] = task[u]
      /\ task'[t].pc = "found" /\ task'[t].op = op /\ task'[t].arg = arg
  BY Begun
<1>2. /\ files' = files /\ tangled' = tangled /\ task[t].pc = "idle"
      /\ messages \in Nat /\ messages' \in Nat
      /\ messages' = messages \/ messages' = messages + 1
      /\ op = "append" => arg.id = messages + 1 /\ messages' = messages + 1
  BY DEF Begins, Begin, Typed, CountsTyped
<1>3. 1..messages \subseteq 1..messages' /\ messages + 1 \notin 1..messages
  BY <1>2
<1>4. \A u \in Tasks :
          /\ Writing(task'[u]) => task'[u] = task[u]
          /\ Appending(task'[u]) =>
                \/ task'[u] = task[u]
                \/ u = t /\ task'[u].arg.id = messages + 1
  <2>1. ~Writing(task'[t])
    BY <1>1 DEF Writing
  <2>2. Appending(task'[t]) => op = "append"
    BY <1>1 DEF Appending
  <2>3. Appending(task'[t]) => task'[t].arg.id = messages + 1
    BY <1>1, <1>2, <2>2
  <2> QED
    BY <1>1, <2>1, <2>3
<1>5. Given'
  <2>1. \A u \in Tasks : Appending(task'[u]) => task'[u].arg.id \in 1..messages'
    <3>1. \A u \in Tasks : Appending(task'[u]) /\ task'[u] = task[u] =>
              task'[u].arg.id \in 1..messages'
      BY <1>3 DEF StepInv, Given
    <3>2. Appending(task'[t]) /\ task'[t] # task[t] => task'[t].arg.id \in 1..messages'
      <4>1. Appending(task'[t]) => op = "append"
        BY <1>1 DEF Appending
      <4> QED
        BY <1>1, <1>2, <4>1
    <3> QED
      BY <1>1, <3>1, <3>2
  <2> QED
    BY <1>2, <1>3, <1>4, <2>1 DEF StepInv, Given
<1>6. ASSUME Counted PROVE Counted'
  <2>1. \A u \in Tasks : \A q \in Places : files[q] # Absent => NewTo(task'[u], files[q])
    BY <1>3, <1>4, <1>6 DEF StepInv, Given, Counted, NewTo
  <2>2. \A u, v \in Tasks : Writing(task'[v]) => NewTo(task'[u], task'[v].seen)
    BY <1>3, <1>4, <1>6 DEF StepInv, Given, Counted, NewTo
  <2>3. \A u, v \in Tasks :
            Appending(task'[u]) /\ Appending(task'[v]) /\ u # v =>
                task'[u].arg.id # task'[v].arg.id
    BY <1>3, <1>4, <1>6 DEF StepInv, Given, Counted
  <2> QED
    BY <1>2, <1>4, <1>6, <2>1, <2>2, <2>3 DEF Counted
<1> QED
  BY <1>2, <1>5, <1>6 DEF StepInv

LEMMA StepsOfRead ==
    ASSUME Typed, StepInv, NEW t \in Tasks, Read(t)
    PROVE  StepInv'
<1>1. /\ \A u \in Tasks \ {t} : task'[u] = task[u]
      /\ Refused(t) \/ Located(t) \/ Seen(t)
      /\ Typed'
  BY ReadDone
<1>2. /\ files' = files /\ tangled' = tangled /\ messages' = messages /\ task[t].pc = "found"
      /\ task[t].place \in Places
  BY DEF Read, Typed, TasksTyped, Fits
<1>3. \A u \in Tasks :
          Writing(task'[u]) =>
              \/ Writing(task[u]) /\ task'[u].seen = task[u].seen
              \/ \E p \in Places : files[p] # Absent /\ task'[u].seen = files[p]
  BY <1>1, <1>2 DEF Writing, Refused, Located, Seen
<1>4. \A u \in Tasks :
          Appending(task'[u]) => Appending(task[u]) /\ task'[u].arg = task[u].arg
  BY <1>1, <1>2 DEF Appending, Refused, Located, Seen
<1>5. Given'
  BY <1>2, <1>3, <1>4 DEF StepInv, Given
<1>6. ASSUME Counted PROVE Counted'
  BY <1>2, <1>3, <1>4, <1>6 DEF Counted, NewTo
<1> QED
  BY <1>2, <1>5, <1>6 DEF StepInv

LEMMA StepsOfOpen ==
    ASSUME Typed, StepInv, NEW t \in Tasks, Open(t)
    PROVE  StepInv'
<1>1. /\ \A u \in Tasks \ {t} : task'[u] = task[u]
      /\ task[t].pc = "read" /\ task'[t].pc = "open" /\ task'[t].op = task[t].op
      /\ task'[t].arg = task[t].arg /\ task'[t].seen = task[t].seen
      /\ task[t].place \in Places
      /\ files' = [files EXCEPT ![task[t].place] = Empty]
  BY OpenDone
<1>2. tangled' = tangled /\ messages' = messages
  BY DEF Open
<1>3. \A u \in Tasks :
          /\ Writing(task'[u]) <=> Writing(task[u])
          /\ Writing(task[u]) => task'[u].seen = task[u].seen
          /\ Appending(task'[u]) <=> Appending(task[u])
          /\ Appending(task[u]) => task'[u].arg = task[u].arg
  BY <1>1 DEF Writing, Appending
<1>4. \A p \in Places : files'[p] = files[p] \/ files'[p] = Empty
  BY <1>1 DEF Typed, FilesTyped
<1>5. Given'
  BY <1>2, <1>3, <1>4, EmptyFile DEF StepInv, Given
<1>6. ASSUME Counted PROVE Counted'
  BY <1>2, <1>3, <1>4, <1>6, EmptyFile DEF Counted, NewTo
<1> QED
  BY <1>2, <1>5, <1>6 DEF StepInv

LEMMA StepsOfClose ==
    ASSUME Typed, StepInv, NEW t \in Tasks, Close(t)
    PROVE  StepInv'
<1> DEFINE r == task[t]
           file == Changed(r.op, r.arg, r.seen)
<1>1. /\ \A u \in Tasks \ {t} : task'[u] = task[u]
      /\ r.pc = "open" /\ r.place \in Places
      /\ task'[t].pc = "idle"
      /\ r.seen \in File /\ file \in File
      /\ Ids(file) \subseteq Ids(r.seen) \cup (IF r.op = "append" THEN {r.arg.id} ELSE {})
      /\ Good(r.seen) /\ (r.op = "append" => r.arg.id \notin Ids(r.seen)) => Good(file)
      /\ \/ /\ files[r.place] = Empty /\ tangled' = tangled
            /\ files' = [files EXCEPT ![r.place] = file]
         \/ tangled' = TRUE /\ files' = files /\ files[r.place] # Empty
         \/ /\ tangled' = TRUE /\ files[r.place] \notin {Absent, Empty}
            /\ \E mix \in Overwritten(file, files[r.place]) :
                  files' = [files EXCEPT ![r.place] = mix]
  BY CloseDone
<1> HIDE DEF file
<1>2. messages' = messages
  BY DEF Close
<1>3. /\ Writing(r) /\ (r.op = "append" => Appending(r))
      /\ ~Writing(task'[t]) /\ ~Appending(task'[t])
  BY <1>1 DEF Writing, Appending
<1>4. /\ Ids(r.seen) \subseteq 1..messages
      /\ r.op = "append" => r.arg.id \in 1..messages
  BY <1>3 DEF StepInv, Given
<1>5. Ids(file) \subseteq 1..messages
  BY <1>1, <1>4
<1>6. ASSUME NEW mix \in Overwritten(file, files[r.place]), files[r.place] # Absent
      PROVE  Ids(mix) \subseteq 1..messages
  <2>1. Ids(files[r.place]) \subseteq 1..messages
    BY <1>1, <1>6 DEF StepInv, Given
  <2>2. Ids([file EXCEPT !.msgs = files[r.place].msgs]) = Ids(files[r.place])
    <3>1. [file EXCEPT !.msgs = files[r.place].msgs].msgs = files[r.place].msgs
      BY <1>1 DEF File
    <3> QED
      BY <3>1 DEF Ids
  <2> QED
    BY <1>5, <2>1, <2>2, EmptyFile DEF Overwritten
<1>7. Given'
  <2>1. \A p \in Places : files'[p] # Absent => Ids(files'[p]) \subseteq 1..messages
    <3>1. CASE files' = [files EXCEPT ![r.place] = file]
      BY <1>1, <1>5, <3>1 DEF StepInv, Given, Typed, FilesTyped
    <3>2. CASE files' = files
      BY <3>2 DEF StepInv, Given
    <3>3. ASSUME NEW mix \in Overwritten(file, files[r.place]), files[r.place] # Absent,
                 files' = [files EXCEPT ![r.place] = mix]
          PROVE  \A p \in Places : files'[p] # Absent => Ids(files'[p]) \subseteq 1..messages
      BY <1>1, <1>6, <3>3 DEF StepInv, Given, Typed, FilesTyped
    <3> QED
      BY <1>1, <3>1, <3>2, <3>3
  <2> QED
    BY <1>1, <1>2, <1>3, <2>1 DEF StepInv, Given
<1>8. ASSUME ~tangled' PROVE Counted'
  <2>1. /\ files' = [files EXCEPT ![r.place] = file]
        /\ Counted
    BY <1>1, <1>8 DEF StepInv
  <2>2. Good(file)
    BY <1>1, <1>3, <2>1 DEF Counted, NewTo
  <2>3. \A p \in Places : files'[p] = file \/ files'[p] = files[p]
    BY <2>1 DEF Typed, FilesTyped
  <2>4. ASSUME NEW u \in Tasks \ {t} PROVE NewTo(task[u], file)
    <3>1. /\ NewTo(task[u], r.seen)
          /\ r.op = "append" /\ Appending(task[u]) => task[u].arg.id # r.arg.id
      BY <1>3, <2>1 DEF Counted
    <3> QED
      BY <1>1, <3>1 DEF NewTo
  <2>5. \A u \in Tasks : \A p \in Places : files'[p] # Absent => NewTo(task'[u], files'[p])
    <3>1. \A p \in Places : NewTo(task'[t], files'[p])
      BY <1>3 DEF NewTo
    <3> QED
      BY <1>1, <2>1, <2>3, <2>4, <3>1 DEF Counted
  <2>6. \A u, v \in Tasks : Writing(task'[v]) => NewTo(task'[u], task'[v].seen)
    <3>1. \A v \in Tasks : NewTo(task'[t], task'[v].seen)
      BY <1>3 DEF NewTo
    <3> QED
      BY <1>1, <1>3, <2>1, <3>1 DEF Counted
  <2>7. \A p \in Places : files'[p] # Absent => Good(files'[p])
    BY <2>1, <2>2, <2>3 DEF Counted
  <2>8. \A v \in Tasks : Writing(task'[v]) => Good(task'[v].seen)
    BY <1>1, <1>3, <2>1 DEF Counted
  <2>9. \A u, v \in Tasks :
            Appending(task'[u]) /\ Appending(task'[v]) /\ u # v =>
                task'[u].arg.id # task'[v].arg.id
    BY <1>1, <1>3, <2>1 DEF Counted
  <2> QED
    BY <2>5, <2>6, <2>7, <2>8, <2>9 DEF Counted
<1> QED
  BY <1>7, <1>8 DEF StepInv

LEMMA StepsOfMove ==
    ASSUME Typed, StepInv,
           (\E p \in Places : Delete(p)) \/ (\E p, q \in Places : Move(p, q))
    PROVE  StepInv'
<1>1. /\ UNCHANGED <<task, holder, messages, tangled>>
      /\ \A p \in Places : files'[p] # Absent => \E q \in Places : files'[p] = files[q]
  BY MovedAway
<1>2. Given'
  BY <1>1 DEF StepInv, Given
<1>3. ASSUME Counted PROVE Counted'
  BY <1>1, <1>3 DEF Counted
<1> QED
  BY <1>1, <1>2, <1>3 DEF StepInv

LEMMA StepInvStep ==
    ASSUME Typed, StepInv, [StorageNext]_storageVars
    PROVE  StepInv'
<1>1. CASE UNCHANGED storageVars
  BY <1>1 DEF storageVars, StepInv, Given, Counted
<1>2. CASE StorageNext
  BY <1>2, StepsOfNext, StepsOfBegin, StepsOfRead, StepsOfOpen, StepsOfClose, StepsOfMove
<1> QED
  BY <1>1, <1>2

LEMMA StepInvInit == StorageInit => StepInv
<1> SUFFICES ASSUME StorageInit PROVE StepInv
  OBVIOUS
<1> DEFINE first == [Empty EXCEPT !.keys = {"id"}]
<1>1. first.msgs = Empty.msgs /\ first.step = Empty.step
  BY DEF Empty
<1>2. Good(first) /\ Ids(first) = {}
  BY <1>1, EmptyFile DEF Good, Ids
<1> HIDE DEF first
<1>3. \A p \in Places : files[p] # Absent => files[p] = first
  BY DEF StorageInit, first
<1>4. \A t \in Tasks : ~Writing(task[t]) /\ ~Appending(task[t])
  BY DEF StorageInit, Idle, Writing, Appending
<1>5. Given
  BY <1>2, <1>3, <1>4 DEF Given
<1>6. Counted
  BY <1>2, <1>3, <1>4 DEF Counted, NewTo
<1> QED
  BY <1>5, <1>6 DEF StepInv

-----------------------------------------------------------------------------
(* The lock keeps every update of the metadata *)

LEMMA LockOfBegin ==
    ASSUME Typed, LockInv, NEW t \in Tasks, NEW op \in Ops,
           NEW arg \in Args, NEW p \in Places, NEW lock \in Locks \cup {Absent},
           Begins(t, op, arg, p, lock)
    PROVE  LockInv'
<1> SUFFICES ASSUME calm', ~apart' PROVE Exclusive'
  BY DEF LockInv
<1>1. calm /\ ~apart /\ op = "metadata" /\ task[t].pc = "idle" /\ Finds(p)
  BY DEF Begins, Begin
<1>2. Exclusive
  BY <1>1 DEF LockInv
<1>3. p = "chat"
  BY <1>1, <1>2 DEF Exclusive, Finds, Places
<1>4. /\ \A u \in Tasks \ {t} : task'[u] = task[u]
      /\ task'[t].pc = "found" /\ task'[t].op = op
      /\ task'[t].place = p /\ task'[t].lock = lock
  BY Begun
<1>5. UNCHANGED <<files, holder, renamed>> /\ lock \in Locks
  BY <1>1 DEF Begins, Begin
<1>6. \A u \in Tasks : task'[u].pc # "idle" => UnderLock(task'[u])
  BY <1>1, <1>2, <1>3, <1>4, <1>5 DEF Exclusive, UnderLock
<1>7. \A u \in Tasks : Writing(task'[u]) => u # t /\ Writing(task[u])
  BY <1>4 DEF Writing
<1>8. \A u \in Tasks :
          /\ Writing(task'[u]) => holder'[task'[u].lock] = u
          /\ task'[u].pc = "read" => task'[u].seen = files'["chat"]
          /\ task'[u].pc = "open" => files'["chat"] = Empty /\ renamed' \subseteq task'[u].seen.keys
  BY <1>2, <1>4, <1>5 DEF Exclusive, Writing
<1>9. (\A u \in Tasks : task'[u].pc # "open") => renamed' \subseteq files'["chat"].keys
  BY <1>1, <1>2, <1>4, <1>5 DEF Exclusive
<1> QED
  BY <1>2, <1>5, <1>6, <1>7, <1>8, <1>9 DEF Exclusive

\* Whoever is between its read and its close, or reads next under the lock of whoever is, is
\* alone in reading and writing the file.
LEMMA Alone ==
    ASSUME Typed, Exclusive, NEW t \in Tasks, task[t].pc # "idle",
           Writing(task[t]) \/ (Enters(t) /\ \A u \in Tasks : ~Beside(t, u))
    PROVE  UnderLock(task[t]) /\ \A u \in Tasks \ {t} : ~Writing(task[u])
<1>1. UnderLock(task[t])
  BY DEF Exclusive
<1>2. CASE Writing(task[t])
  BY <1>1, <1>2 DEF Exclusive
<1>3. CASE Enters(t) /\ \A u \in Tasks : ~Beside(t, u)
  <2> SUFFICES ASSUME NEW u \in Tasks \ {t}, Writing(task[u]) PROVE FALSE
    BY <1>1
  <2>1. UnderLock(task[u]) /\ holder[task[u].lock] = u
    BY DEF Exclusive, Writing
  <2>2. task[u].lock = task[t].lock
    BY <1>1, <1>3, <2>1 DEF Beside, UnderLock, Writing
  <2>3. task[t].lock # Absent /\ Absent \notin Tasks
    BY <1>1, StorageAssumption DEF UnderLock, Locks
  <2> QED
    BY <1>3, <2>1, <2>2, <2>3 DEF Enters
<1> QED
  BY <1>2, <1>3

LEMMA LockOfRead ==
    ASSUME Typed, LockInv, NEW t \in Tasks, Read(t)
    PROVE  LockInv'
<1> SUFFICES ASSUME calm', ~apart' PROVE Exclusive'
  BY DEF LockInv
<1>1. /\ UNCHANGED <<files, renamed>> /\ calm /\ ~apart
      /\ task[t].pc = "found" /\ Enters(t) /\ \A u \in Tasks : ~Beside(t, u)
  BY DEF Read
<1>2. Exclusive
  BY <1>1 DEF LockInv
<1>3. UnderLock(task[t]) /\ \A u \in Tasks \ {t} : ~Writing(task[u])
  BY <1>1, <1>2, Alone
<1>4. /\ \A u \in Tasks \ {t} : task'[u] = task[u]
      /\ Refused(t) \/ Located(t) \/ Seen(t)
  BY ReadDone
<1>5. ~Located(t)
  BY <1>3 DEF Located, UnderLock
<1>6. task'[t].pc # "idle" => UnderLock(task'[t])
  BY <1>3, <1>4, <1>5 DEF Refused, Seen, UnderLock
<1>7. \A u \in Tasks : task[u].pc # "open" /\ task'[u].pc # "open"
  BY <1>1, <1>3, <1>4, <1>5 DEF Refused, Seen, Writing
<1>8. \A u \in Tasks : Writing(task'[u]) => u = t /\ Seen(t)
  BY <1>3, <1>4, <1>5 DEF Refused, Writing
<1>9. Seen(t) => holder'[task'[t].lock] = t /\ task'[t].seen = files["chat"]
  BY <1>3 DEF Seen, Locked, Locks, UnderLock
<1>10. \A u \in Tasks :
          /\ Writing(task'[u]) => holder'[task'[u].lock] = u
          /\ task'[u].pc = "read" => task'[u].seen = files["chat"]
  BY <1>8, <1>9 DEF Writing
<1>11. \A u \in Tasks : task'[u].pc # "idle" => UnderLock(task'[u])
  BY <1>2, <1>4, <1>6 DEF Exclusive
<1> QED
  BY <1>1, <1>2, <1>7, <1>8, <1>10, <1>11 DEF Exclusive

LEMMA LockOfOpen ==
    ASSUME Typed, LockInv, NEW t \in Tasks, Open(t)
    PROVE  LockInv'
<1> SUFFICES ASSUME calm', ~apart' PROVE Exclusive'
  BY DEF LockInv
<1>1. /\ UNCHANGED <<holder, renamed>> /\ calm /\ ~apart
      /\ task[t].pc = "read" /\ Writing(task[t])
  BY DEF Open, Writing
<1>2. Exclusive
  BY <1>1 DEF LockInv
<1>3. UnderLock(task[t]) /\ \A u \in Tasks \ {t} : ~Writing(task[u])
  BY <1>1, <1>2, Alone
<1>4. /\ \A u \in Tasks \ {t} : task'[u] = task[u]
      /\ task'[t].pc = "open" /\ task'[t].op = task[t].op
      /\ task'[t].place = task[t].place
      /\ task'[t].lock = task[t].lock /\ task'[t].seen = task[t].seen
      /\ files' = [files EXCEPT ![task[t].place] = Empty]
  BY OpenDone
<1>5. files'["chat"] = Empty /\ files'["project"] = Absent
  BY <1>2, <1>3, <1>4 DEF Typed, FilesTyped, UnderLock, Exclusive, Places
<1>6. \A u \in Tasks : task[u].pc # "open"
  BY <1>1, <1>3 DEF Writing
<1>7. renamed \subseteq task[t].seen.keys
  BY <1>1, <1>2, <1>6 DEF Exclusive
<1>8. UnderLock(task'[t])
  BY <1>3, <1>4 DEF UnderLock
<1>9. \A u \in Tasks : task'[u].pc # "idle" => UnderLock(task'[u])
  BY <1>2, <1>4, <1>8 DEF Exclusive
<1>10. \A u \in Tasks : Writing(task'[u]) => u = t
  BY <1>3, <1>4
<1>11. holder[task'[t].lock] = t
  BY <1>1, <1>2, <1>4 DEF Exclusive
<1>12. \A u \in Tasks :
          /\ Writing(task'[u]) => holder[task'[u].lock] = u
          /\ task'[u].pc = "read" => task'[u].seen = files'["chat"]
          /\ task'[u].pc = "open" => files'["chat"] = Empty /\ renamed \subseteq task'[u].seen.keys
  BY <1>4, <1>5, <1>7, <1>10, <1>11 DEF Writing
<1> QED
  BY <1>1, <1>4, <1>5, <1>9, <1>10, <1>12 DEF Exclusive

LEMMA LockOfClose ==
    ASSUME Typed, LockInv, NEW t \in Tasks, Close(t)
    PROVE  LockInv'
<1> SUFFICES ASSUME calm', ~apart' PROVE Exclusive'
  BY DEF LockInv
<1> DEFINE r == task[t]
           file == Changed(r.op, r.arg, r.seen)
<1>1. /\ calm /\ ~apart
      /\ renamed' = IF r.op = "metadata" THEN renamed \cup {r.arg} ELSE renamed
  BY DEF Close
<1>2. Exclusive
  BY <1>1 DEF LockInv
<1>3. /\ \A u \in Tasks \ {t} : task'[u] = task[u]
      /\ r.pc = "open" /\ task'[t].pc = "idle" /\ r.seen \in File
      /\ \/ /\ files[r.place] = Empty /\ files' = [files EXCEPT ![r.place] = file]
         \/ files[r.place] # Empty
  BY CloseDone
<1>4. UnderLock(r) /\ \A u \in Tasks \ {t} : ~Writing(task[u])
  BY <1>2, <1>3, Alone DEF Writing
<1>5. files["chat"] = Empty /\ renamed \subseteq r.seen.keys
  BY <1>2, <1>3 DEF Exclusive
<1>6. file.keys = r.seen.keys \cup {r.arg}
  BY <1>3, <1>4 DEF Changed, UnderLock, File
<1> HIDE DEF file
<1>7. files' = [files EXCEPT !["chat"] = file]
  BY <1>3, <1>4, <1>5 DEF UnderLock
<1>8. files'["chat"] = file /\ files'["project"] = Absent
  BY <1>2, <1>7 DEF Typed, FilesTyped, Exclusive, Places
<1>9. renamed' \subseteq files'["chat"].keys
  BY <1>1, <1>4, <1>5, <1>6, <1>8 DEF UnderLock
<1>10. \A u \in Tasks : ~Writing(task'[u])
  BY <1>3, <1>4 DEF Writing
<1>11. \A u \in Tasks : task'[u].pc # "idle" => UnderLock(task'[u])
  BY <1>2, <1>3 DEF Exclusive
<1> QED
  BY <1>1, <1>8, <1>9, <1>10, <1>11 DEF Exclusive, Writing

LEMMA LockInvStep ==
    ASSUME Typed, LockInv, [StorageNext]_storageVars
    PROVE  LockInv'
<1>1. CASE UNCHANGED storageVars
  BY <1>1 DEF storageVars, LockInv, Exclusive
<1>2. (\E p \in Places : Delete(p)) \/ (\E p, q \in Places : Move(p, q)) => LockInv'
  BY MovedAway DEF LockInv
<1>3. CASE StorageNext
  BY <1>2, <1>3, StepsOfNext, LockOfBegin, LockOfRead, LockOfOpen, LockOfClose
<1> QED
  BY <1>1, <1>3

LEMMA LockInvInit == StorageInit => LockInv
<1> SUFFICES ASSUME StorageInit PROVE Exclusive
  BY DEF LockInv
<1>1. \A t \in Tasks : task[t].pc = "idle"
  BY DEF StorageInit, Idle
<1> QED
  BY <1>1 DEF StorageInit, Exclusive, Writing, Places

-----------------------------------------------------------------------------
(* The theorems *)

LEMMA HeldByInv ==
    ASSUME Typed, StepInv, LockInv
    PROVE  LockedUpdatesHold
<1>1. StepCountsAnswers
  <2> SUFFICES ASSUME ~tangled, NEW p \in Places, files[p] # Absent
               PROVE  /\ files[p].step = Answers(files[p].msgs)
                      /\ Cardinality(Ids(files[p])) = Len(files[p].msgs)
    BY DEF StepCountsAnswers
  <2>1. files[p] \in File /\ Good(files[p])
    BY DEF Typed, FilesTyped, StepInv, Counted
  <2> QED
    BY <2>1, DistinctIds DEF Good
<1>2. MetadataUpdatesSurvive
  BY DEF MetadataUpdatesSurvive, LockInv, Exclusive
<1> QED
  BY <1>1, <1>2 DEF LockedUpdatesHold

\* Whatever operations overlap, current_step is the number of answers in a file and no message
\* is there twice as long as no two writes are interleaved; and updates of the metadata that
\* overlap only with each other are all kept unless two were at the file at once through
\* storages of their own, because each reads and writes the file as the only holder of the
\* lock they share.
THEOREM LockedCorrect == StorageSpec => []LockedUpdatesHold
<1>1. StorageInit => IInv
  BY TypedInit, StepInvInit, LockInvInit DEF IInv
<1>2. IInv /\ [StorageNext]_storageVars => IInv'
  BY TypedStep, StepInvStep, LockInvStep DEF IInv
<1>3. IInv => LockedUpdatesHold
  BY HeldByInv DEF IInv
<1> QED
  BY <1>1, <1>2, <1>3, PTL DEF StorageSpec

-----------------------------------------------------------------------------
(* The log of a chat: types *)

Kinds == {"user", "assistant", "summary", "separator"}
Entries == [kind : Kinds, id : Nat, by : Requests, covers : SUBSET Nat]
Phases == {"idle", "asking", "loading", "compressing", "summarising", "reloading",
           "streaming", "saving", "partial", "closing", "done"}
Records == [pc : Phases, temporary : BOOLEAN, asks : Nat \cup {NoQuestion},
            prompt : SUBSET Nat, sums : SUBSET Nat, alone : BOOLEAN]

TurnTyped ==
    /\ log \in Seq(Entries) /\ nextId \in Nat /\ crossed \subseteq Requests
    /\ req \in [Requests -> Records]

-----------------------------------------------------------------------------
(* The invariant *)

\* Ids are given once.
IdsFresh ==
    /\ \A i \in DOMAIN log : log[i].id < nextId
    /\ \A i, j \in DOMAIN log : log[i].id = log[j].id => i = j

\* What a request has left in the log, by how far it got.
Nothing(r) == \A i \in DOMAIN log : log[i].by # r
NoAnswer(r) == \A i \in DOMAIN log : log[i].kind = "assistant" => log[i].by # r
AnswersOf(r) ==
    /\ At(r, "idle") => Nothing(r)
    /\ req[r].pc \notin {"closing", "done"} => NoAnswer(r)
    /\ req[r].temporary =>
          Nothing(r) /\ req[r].pc \in {"asking", "loading", "streaming", "done"}
Single ==
    \A i, j \in DOMAIN log :
       log[i].kind = "assistant" /\ log[j].kind = "assistant" /\ log[i].by = log[j].by => i = j
OneEach == Single /\ \A r \in Requests : AnswersOf(r)

\* A request that has been alone all the time is alone.
Working(r) == req[r].pc \notin {"idle", "done"}
AloneHolds ==
    \A r, q \in Requests : Working(r) /\ req[r].alone /\ Working(q) => q = r

\* Where the question of a request is that has been alone.
Visible(r) == req[r].asks \in IdsOf(AfterBoundary(log))
AskedOf(r) ==
    /\ At(r, "loading") \/ At(r, "reloading") => req[r].asks # NoQuestion
    /\ req[r].alone /\ req[r].asks # NoQuestion =>
          /\ At(r, "asking") => Visible(r)
          /\ At(r, "loading") /\ ~req[r].temporary => Visible(r)
          /\ At(r, "compressing") => Visible(r) /\ req[r].asks \in req[r].prompt
          /\ At(r, "summarising") => req[r].asks \in req[r].sums \cap req[r].prompt
          /\ At(r, "reloading") => req[r].asks \in Reaches(log)
    /\ req[r].alone /\ At(r, "streaming") => req[r].asks \in req[r].prompt
Asked == \A r \in Requests : AskedOf(r)

\* A summary in the making sums up what it was to, unless the log has changed.
SummingOf(r) ==
    At(r, "summarising") /\ r \notin crossed => req[r].sums = IdsOf(AfterBoundary(log))
Summing == \A r \in Requests : SummingOf(r)

TurnInv ==
    TurnTyped /\ IdsFresh /\ OneEach /\ AloneHolds /\ Asked /\ Summing /\ SummariesStayInside

-----------------------------------------------------------------------------
(* The boundary of a list of messages *)

\* A set of numbers up to a bound has a greatest one.
LEMMA Greatest ==
    ASSUME NEW n \in Nat, NEW S \in SUBSET (1..n), S # {}
    PROVE  \E i \in S : \A j \in S : j <= i
<1> DEFINE T == {n - i : i \in S}
           less == {ss \in Nat \X Nat : ss[1] < ss[2]}
<1>1. T \subseteq Nat /\ T # {}
  <2>1. \A i \in S : i \in Nat /\ n - i \in Nat
    OBVIOUS
  <2> QED
    BY <2>1
<1>2. IsWellFoundedOn(less, Nat)
  BY NatLessThanWellFounded, Zenon DEF OpToRel
<1>3. \A x, y \in Nat : y < x => <<y, x>> \in less
  OBVIOUS
<1> HIDE DEF less, T
<1>4. PICK x \in T : \A y \in T : ~ (<<y, x>> \in less)
  BY <1>1, <1>2, WFMin
<1>5. \A y \in T : ~ (y < x)
  BY <1>1, <1>3, <1>4
<1>6. PICK i \in S : x = n - i
  BY <1>4 DEF T
<1>7. \A j \in S : ~ (n - j < n - i)
  BY <1>5, <1>6 DEF T
<1> QED
  BY <1>7

LEMMA BoundaryRight ==
    ASSUME NEW list \in Seq(Entries)
    PROVE  /\ Boundary(list) \in 0..Len(list)
           /\ Boundary(list) # 0 => list[Boundary(list)].kind \in Boundaries
           /\ \A i \in 1..Len(list) : list[i].kind \in Boundaries => i <= Boundary(list)
<1> DEFINE at == {i \in DOMAIN list : list[i].kind \in Boundaries}
<1>1. at \in SUBSET (1..Len(list)) /\ Len(list) \in Nat
  OBVIOUS
<1>2. CASE at = {}
  BY <1>1, <1>2 DEF Boundary, LastOf
<1>3. CASE at # {}
  <2>1. \E i \in at : \A j \in at : j <= i
    BY <1>1, <1>3, Greatest
  <2>2. Boundary(list) = CHOOSE i \in at : \A j \in at : j <= i
    BY <1>3 DEF Boundary, LastOf
  <2>3. Boundary(list) \in at /\ \A j \in at : j <= Boundary(list)
    BY <2>1, <2>2
  <2> QED
    BY <1>1, <2>3
<1> QED
  BY <1>2, <1>3

LEMMA AfterRight ==
    ASSUME NEW list \in Seq(Entries)
    PROVE  IdsOf(AfterBoundary(list)) = {list[i].id : i \in (Boundary(list) + 1)..Len(list)}
<1> DEFINE b == Boundary(list)
           after == SubSeq(list, b + 1, Len(list))
<1>1. b \in 0..Len(list) /\ Len(list) \in Nat
  BY BoundaryRight
<1> HIDE DEF b
<1>2. /\ DOMAIN after = 1..(Len(list) - b)
      /\ \A i \in 1..(Len(list) - b) : after[i] = list[b + i]
  BY <1>1
<1>3. AfterBoundary(list) = after
  BY DEF AfterBoundary, b
<1> HIDE DEF after
<1>4. IdsOf(after) \subseteq {list[i].id : i \in (b + 1)..Len(list)}
  BY <1>1, <1>2 DEF IdsOf
<1>5. ASSUME NEW i \in (b + 1)..Len(list)
      PROVE  list[i].id \in IdsOf(after)
  <2>1. i - b \in 1..(Len(list) - b) /\ b + (i - b) = i
    BY <1>1
  <2>2. after[i - b] = list[i]
    BY <1>2, <2>1
  <2> QED
    BY <1>2, <2>1, <2>2 DEF IdsOf
<1> QED
  BY <1>3, <1>4, <1>5 DEF b

LEMMA PushRight ==
    ASSUME NEW list \in Seq(Entries), NEW e \in Entries
    PROVE  /\ Append(list, e) \in Seq(Entries)
           /\ Len(Append(list, e)) = Len(list) + 1 /\ Len(list) \in Nat
           /\ DOMAIN Append(list, e) = 1..(Len(list) + 1) /\ DOMAIN list = 1..Len(list)
           /\ \A i \in 1..Len(list) : Append(list, e)[i] = list[i]
           /\ Append(list, e)[Len(list) + 1] = e
OBVIOUS

LEMMA CutRight ==
    ASSUME NEW list \in Seq(Entries), NEW k \in 0..Len(list)
    PROVE  /\ SubSeq(list, 1, k) \in Seq(Entries)
           /\ Len(SubSeq(list, 1, k)) = k
           /\ DOMAIN SubSeq(list, 1, k) = 1..k /\ 1..k \subseteq DOMAIN list
           /\ \A i \in 1..k : SubSeq(list, 1, k)[i] = list[i]
OBVIOUS

\* A message that is no boundary is visible at the end of the list.
LEMMA LastVisible ==
    ASSUME NEW list \in Seq(Entries), Len(list) # 0, list[Len(list)].kind \notin Boundaries
    PROVE  list[Len(list)].id \in IdsOf(AfterBoundary(list))
<1> DEFINE b == Boundary(list)
<1>1. /\ b \in 0..Len(list) /\ Len(list) \in Nat
      /\ b # 0 => list[b].kind \in Boundaries
  BY BoundaryRight
<1>2. Len(list) \in (b + 1)..Len(list)
  BY <1>1
<1> QED
  BY <1>2, AfterRight

\* A summary hides what it sums up, which it reaches.
LEMMA SummaryReaches ==
    ASSUME NEW list \in Seq(Entries), NEW e \in Entries, e.kind = "summary"
    PROVE  e.covers \subseteq Reaches(Append(list, e))
<1> DEFINE new == Append(list, e)
<1>1. /\ new \in Seq(Entries) /\ Len(new) = Len(list) + 1 /\ Len(list) \in Nat
      /\ new[Len(list) + 1] = e
  OBVIOUS
<1> HIDE DEF new
<1>2. Len(new) <= Boundary(new) /\ Boundary(new) \in 0..Len(new)
  <2>1. Len(new) \in 1..Len(new) /\ new[Len(new)].kind \in Boundaries
    BY <1>1 DEF Boundaries
  <2> QED
    BY <1>1, <2>1, BoundaryRight
<1>3. Boundary(new) = Len(new) /\ Boundary(new) # 0
  BY <1>1, <1>2
<1> QED
  BY <1>1, <1>3 DEF Reaches, new

-----------------------------------------------------------------------------
(* What the changes of the log do to the invariant *)

LEMMA LogRight ==
    ASSUME TurnTyped
    PROVE  /\ log \in Seq(Entries) /\ Len(log) \in Nat /\ DOMAIN log = 1..Len(log)
           /\ \A i \in DOMAIN log :
                 log[i] \in Entries /\ log[i].id \in Nat /\ log[i].covers \subseteq Nat
<1>1. log \in Seq(Entries)
  BY DEF TurnTyped
<1>2. Len(log) \in Nat /\ DOMAIN log = 1..Len(log) /\ \A i \in DOMAIN log : log[i] \in Entries
  BY <1>1
<1> QED
  BY <1>1, <1>2 DEF Entries

LEMMA IdsCut ==
    ASSUME TurnTyped, IdsFresh, NEW k \in 0..Len(log), log' = SubSeq(log, 1, k),
           nextId' \in Nat, nextId <= nextId'
    PROVE  IdsFresh'
<1>1. /\ DOMAIN log' = 1..k /\ 1..k \subseteq DOMAIN log
      /\ \A i \in 1..k : log'[i] = log[i]
  BY CutRight DEF TurnTyped
<1>2. \A i \in DOMAIN log : log[i].id \in Nat
  BY LogRight
<1>3. ASSUME NEW i \in DOMAIN log'
      PROVE  log'[i].id < nextId'
  <2>1. log'[i] = log[i] /\ i \in DOMAIN log /\ log[i].id < nextId
    BY <1>1 DEF IdsFresh
  <2> QED
    BY <1>2, <2>1 DEF TurnTyped
<1>4. ASSUME NEW i \in DOMAIN log', NEW j \in DOMAIN log', log'[i].id = log'[j].id
      PROVE  i = j
  BY <1>1, <1>4, Zenon DEF IdsFresh
<1> QED
  BY <1>3, <1>4 DEF IdsFresh

LEMMA IdsPush ==
    ASSUME TurnTyped, IdsFresh, NEW e \in Entries, e.id = nextId, log' = Append(log, e),
           nextId' = nextId + 1
    PROVE  IdsFresh'
<1>1. /\ DOMAIN log' = 1..(Len(log) + 1) /\ DOMAIN log = 1..Len(log) /\ Len(log) \in Nat
      /\ \A i \in 1..Len(log) : log'[i] = log[i]
      /\ log'[Len(log) + 1] = e
  BY PushRight DEF TurnTyped
<1>2. \A i \in DOMAIN log : log[i].id \in Nat /\ log[i].id < nextId
  BY LogRight DEF IdsFresh
<1>3. ASSUME NEW i \in DOMAIN log'
      PROVE  log'[i].id < nextId'
  <2>1. i \in 1..Len(log) \/ i = Len(log) + 1
    BY <1>1
  <2> QED
    BY <1>1, <1>2, <2>1 DEF TurnTyped
<1>4. ASSUME NEW i \in DOMAIN log', NEW j \in DOMAIN log', log'[i].id = log'[j].id
      PROVE  i = j
  <2>1. /\ i \in 1..Len(log) \/ i = Len(log) + 1
        /\ j \in 1..Len(log) \/ j = Len(log) + 1
    BY <1>1
  <2> QED
    BY <1>1, <1>2, <1>4, <2>1 DEF TurnTyped, IdsFresh
<1> QED
  BY <1>3, <1>4 DEF IdsFresh

\* The ids up to a place do not depend on what comes after.
LEMMA IdsUpTo ==
    ASSUME NEW list \in Seq(Entries), NEW i \in 1..Len(list)
    PROVE  IdsOf(SubSeq(list, 1, i)) = {list[k].id : k \in 1..i}
<1>1. /\ DOMAIN SubSeq(list, 1, i) = 1..i
      /\ \A k \in 1..i : SubSeq(list, 1, i)[k] = list[k]
  BY CutRight
<1> QED
  BY <1>1 DEF IdsOf

LEMMA SamePrefix ==
    ASSUME NEW a \in Seq(Entries), NEW b \in Seq(Entries), NEW i \in 1..Len(a), i \in 1..Len(b),
           \A k \in 1..i : a[k] = b[k]
    PROVE  IdsOf(SubSeq(a, 1, i)) = IdsOf(SubSeq(b, 1, i))
<1>1. {a[k].id : k \in 1..i} = {b[k].id : k \in 1..i}
  OBVIOUS
<1> QED
  BY <1>1, IdsUpTo

LEMMA InsideCut ==
    ASSUME TurnTyped, SummariesStayInside, NEW k \in 0..Len(log), log' = SubSeq(log, 1, k),
           crossed \subseteq crossed'
    PROVE  SummariesStayInside'
<1>1. /\ log' \in Seq(Entries) /\ Len(log') = k
      /\ DOMAIN log' = 1..k /\ 1..k \subseteq DOMAIN log
      /\ \A i \in 1..k : log'[i] = log[i]
  BY CutRight DEF TurnTyped
<1>2. ASSUME NEW j \in DOMAIN log', log'[j].by \notin crossed', NEW i \in 1..j
      PROVE  Inside(i, j)'
  <2>1. j \in DOMAIN log /\ i \in 1..Len(log) /\ i \in 1..Len(log')
    BY <1>1
  <2>2. log'[i] = log[i] /\ log'[j] = log[j]
    BY <1>1, <2>1
  <2>3. IdsOf(SubSeq(log', 1, i)) = IdsOf(SubSeq(log, 1, i))
    <3>1. \A m \in 1..i : log'[m] = log[m]
      BY <1>1
    <3> QED
      BY <1>1, <2>1, <3>1, SamePrefix DEF TurnTyped
  <2>4. Inside(i, j)
    BY <1>2, <2>1, <2>2 DEF SummariesStayInside
  <2> QED
    BY <2>2, <2>3, <2>4 DEF Inside
<1> QED
  BY <1>2 DEF SummariesStayInside

\* What comes after the boundary has other ids than what comes before.
LEMMA Apart ==
    ASSUME TurnTyped, IdsFresh, NEW i \in 1..Len(log), i <= Boundary(log)
    PROVE  IdsOf(AfterBoundary(log)) \cap IdsOf(SubSeq(log, 1, i)) = {}
<1> DEFINE b == Boundary(log)
<1>1. b \in 0..Len(log) /\ Len(log) \in Nat /\ DOMAIN log = 1..Len(log)
  BY LogRight, BoundaryRight
<1>2. IdsOf(AfterBoundary(log)) = {log[k].id : k \in (b + 1)..Len(log)}
  BY LogRight, AfterRight
<1>3. IdsOf(SubSeq(log, 1, i)) = {log[k].id : k \in 1..i}
  BY LogRight, IdsUpTo
<1> HIDE DEF b
<1>4. ASSUME NEW k \in (b + 1)..Len(log), NEW m \in 1..i
      PROVE  log[k].id # log[m].id
  <2>1. k \in DOMAIN log /\ m \in DOMAIN log /\ k # m
    BY <1>1 DEF b
  <2> QED
    BY <2>1 DEF IdsFresh
<1> QED
  BY <1>2, <1>3, <1>4

LEMMA InsidePush ==
    ASSUME TurnTyped, IdsFresh, SummariesStayInside, NEW e \in Entries, log' = Append(log, e),
           crossed \subseteq crossed',
           e.kind = "summary" /\ e.by \notin crossed'
              => e.covers \subseteq IdsOf(AfterBoundary(log))
    PROVE  SummariesStayInside'
<1>1. /\ log' \in Seq(Entries) /\ Len(log') = Len(log) + 1
      /\ DOMAIN log' = 1..(Len(log) + 1) /\ DOMAIN log = 1..Len(log) /\ Len(log) \in Nat
      /\ \A i \in 1..Len(log) : log'[i] = log[i]
      /\ log'[Len(log) + 1] = e
  BY PushRight DEF TurnTyped
<1>2. ASSUME NEW i \in 1..Len(log)
      PROVE  IdsOf(SubSeq(log', 1, i)) = IdsOf(SubSeq(log, 1, i))
  <2>1. i \in 1..Len(log') /\ \A m \in 1..i : log'[m] = log[m]
    BY <1>1
  <2> QED
    BY <1>1, <2>1, SamePrefix, LogRight
<1>3. ASSUME NEW j \in 1..Len(log), log'[j].by \notin crossed', NEW i \in 1..j
      PROVE  Inside(i, j)'
  <2>1. j \in DOMAIN log /\ i \in 1..Len(log)
    BY <1>1
  <2>2. log'[i] = log[i] /\ log'[j] = log[j]
    BY <1>1, <2>1
  <2>3. Inside(i, j)
    BY <1>3, <2>1, <2>2 DEF SummariesStayInside
  <2> QED
    BY <1>2, <2>1, <2>2, <2>3 DEF Inside
<1>4. ASSUME e.by \notin crossed', NEW i \in 1..(Len(log) + 1), log'[i].kind = "separator",
             e.kind = "summary"
      PROVE  e.covers \cap IdsOf(SubSeq(log', 1, i)) = {}
  <2>1. i \in 1..Len(log) /\ log[i].kind \in Boundaries
    BY <1>1, <1>4 DEF Boundaries
  <2>2. i <= Boundary(log)
    BY <2>1, LogRight, BoundaryRight
  <2> QED
    BY <1>2, <1>4, <2>1, <2>2, Apart
<1>5. ASSUME e.by \notin crossed', NEW j, j = Len(log) + 1, NEW i \in 1..j
      PROVE  Inside(i, j)'
  <2>1. log'[j] = e
    BY <1>1, <1>5
  <2> QED
    BY <1>4, <1>5, <2>1 DEF Inside
<1>6. ASSUME NEW j \in DOMAIN log', log'[j].by \notin crossed', NEW i \in 1..j
      PROVE  Inside(i, j)'
  <2>1. CASE j \in 1..Len(log)
    BY <1>3, <1>6, <2>1
  <2>2. CASE j = Len(log) + 1
    BY <1>1, <1>5, <1>6, <2>2
  <2> QED
    BY <1>1, <2>1, <2>2
<1> QED
  BY <1>6 DEF SummariesStayInside

-----------------------------------------------------------------------------
(* Answers in the log *)

LEMMA SingleCut ==
    ASSUME TurnTyped, Single, NEW k \in 0..Len(log), log' = SubSeq(log, 1, k)
    PROVE  /\ Single'
           /\ \A r \in Requests : (Nothing(r) => Nothing(r)') /\ (NoAnswer(r) => NoAnswer(r)')
<1>1. /\ DOMAIN log' = 1..k /\ 1..k \subseteq DOMAIN log
      /\ \A i \in 1..k : log'[i] = log[i]
  BY CutRight DEF TurnTyped
<1>2. \A i \in DOMAIN log' : i \in DOMAIN log /\ log'[i] = log[i]
  BY <1>1
<1>3. Single'
  BY <1>2 DEF Single
<1>4. ASSUME NEW r \in Requests
      PROVE  (Nothing(r) => Nothing(r)') /\ (NoAnswer(r) => NoAnswer(r)')
  BY <1>2 DEF Nothing, NoAnswer
<1> QED
  BY <1>3, <1>4

LEMMA SinglePush ==
    ASSUME TurnTyped, Single, NEW e \in Entries, log' = Append(log, e),
           e.kind = "assistant" => NoAnswer(e.by)
    PROVE  /\ Single'
           /\ \A r \in Requests :
                 /\ Nothing(r) /\ e.by # r => Nothing(r)'
                 /\ NoAnswer(r) /\ (e.by # r \/ e.kind # "assistant") => NoAnswer(r)'
<1>1. /\ DOMAIN log' = 1..(Len(log) + 1) /\ DOMAIN log = 1..Len(log) /\ Len(log) \in Nat
      /\ \A i \in 1..Len(log) : log'[i] = log[i]
      /\ log'[Len(log) + 1] = e
  BY PushRight DEF TurnTyped
<1>2. \A i \in DOMAIN log' :
         (i \in DOMAIN log /\ log'[i] = log[i]) \/ (i = Len(log) + 1 /\ log'[i] = e)
  BY <1>1
<1>3. Single'
  BY <1>2 DEF Single, NoAnswer
<1>4. ASSUME NEW r \in Requests, Nothing(r), e.by # r
      PROVE  Nothing(r)'
  BY <1>2, <1>4 DEF Nothing
<1>5. ASSUME NEW r \in Requests, NoAnswer(r), e.by # r \/ e.kind # "assistant"
      PROVE  NoAnswer(r)'
  BY <1>2, <1>5 DEF NoAnswer
<1> QED
  BY <1>3, <1>4, <1>5

-----------------------------------------------------------------------------
(* A step of a request, and the others *)

\* The others stay where they are, and none of them is alone if it is at work.
Moves(r) ==
    /\ req' \in [Requests -> Records]
    /\ \A q \in Requests \ {r} :
          /\ req'[q].pc = req[q].pc /\ req'[q].temporary = req[q].temporary
          /\ req'[q].asks = req[q].asks /\ req'[q].sums = req[q].sums
          /\ Working(q) => ~req'[q].alone /\ ~(Working(r)' /\ req'[r].alone)

LEMMA AloneStep ==
    ASSUME NEW r \in Requests, Moves(r), AloneHolds
    PROVE  AloneHolds'
<1>1. \A q \in Requests \ {r} : Working(q)' <=> Working(q)
  BY DEF Moves, Working
<1>2. \A q \in Requests \ {r} : ~(Working(q)' /\ req'[q].alone)
  BY <1>1, Zenon DEF Moves
<1>3. \A q \in Requests \ {r} : Working(q) => ~(Working(r)' /\ req'[r].alone)
  BY Zenon DEF Moves
<1> QED
  BY <1>1, <1>2, <1>3, Zenon DEF AloneHolds

LEMMA AskedStep ==
    ASSUME NEW r \in Requests, Moves(r), Asked, AskedOf(r)'
    PROVE  Asked'
<1> SUFFICES ASSUME NEW q \in Requests \ {r}
             PROVE  AskedOf(q)'
  BY DEF Asked
<1>1. /\ req'[q].pc = req[q].pc /\ req'[q].asks = req[q].asks
      /\ Working(q) => ~req'[q].alone
  BY Zenon DEF Moves
<1>2. At(q, "loading") \/ At(q, "reloading") => req[q].asks # NoQuestion
  BY DEF Asked, AskedOf
<1>3. CASE Working(q)
  <2>1. ~req'[q].alone
    BY <1>1, <1>3
  <2> QED
    BY <1>1, <1>2, <2>1 DEF AskedOf, At
<1>4. CASE ~Working(q)
  <2>1. req'[q].pc \in {"idle", "done"}
    BY <1>1, <1>4 DEF Working
  <2> QED
    BY <2>1 DEF AskedOf, At
<1> QED
  BY <1>3, <1>4

LEMMA SummingStep ==
    ASSUME NEW r \in Requests, Moves(r), Summing, SummingOf(r)',
           UNCHANGED <<log, crossed>> \/ Wrote(r, log')
    PROVE  Summing'
<1> SUFFICES ASSUME NEW q \in Requests \ {r}
             PROVE  SummingOf(q)'
  BY DEF Summing
<1>1. req'[q].pc = req[q].pc /\ req'[q].sums = req[q].sums
  BY DEF Moves
<1>2. SummingOf(q)
  BY DEF Summing
<1>3. CASE UNCHANGED <<log, crossed>>
  <2>1. IdsOf(AfterBoundary(log))' = IdsOf(AfterBoundary(log))
    BY <1>3
  <2> QED
    BY <1>1, <1>2, <1>3, <2>1 DEF SummingOf, At
<1>4. CASE Wrote(r, log')
  BY <1>1, <1>4 DEF SummingOf, At, Wrote
<1> QED
  BY <1>3, <1>4

LEMMA AnswersStep ==
    ASSUME NEW r \in Requests, Moves(r), OneEach, Single', AnswersOf(r)',
           \A q \in Requests \ {r} :
              (Nothing(q) => Nothing(q)') /\ (NoAnswer(q) => NoAnswer(q)')
    PROVE  OneEach'
<1> SUFFICES ASSUME NEW q \in Requests \ {r}
             PROVE  AnswersOf(q)'
  BY DEF OneEach
<1>1. req'[q].pc = req[q].pc /\ req'[q].temporary = req[q].temporary
  BY DEF Moves
<1>2. AnswersOf(q)
  BY DEF OneEach
<1> QED
  BY <1>1, <1>2, Zenon DEF AnswersOf, At

\* A request that is at work moves on.
LEMMA MovesOn ==
    ASSUME TurnTyped, AloneHolds, NEW r \in Requests, Working(r), NEW new \in Records,
           req' = [req EXCEPT ![r] = new], new.pc = "done" \/ (new.alone => req[r].alone)
    PROVE  Moves(r) /\ req'[r] = new
<1>1. req \in [Requests -> Records]
  BY DEF TurnTyped
<1>2. req'[r] = new /\ req' \in [Requests -> Records]
  BY <1>1
<1>3. \A q \in Requests \ {r} : req'[q] = req[q]
  BY <1>1
<1>4. ASSUME NEW q \in Requests \ {r}, Working(q)
      PROVE  ~req[q].alone /\ ~req[r].alone
  BY <1>4, Zenon DEF AloneHolds
<1>5. Working(r)' => new.pc # "done"
  BY <1>2 DEF Working
<1>6. ASSUME NEW q \in Requests \ {r}, Working(q)
      PROVE  ~(Working(r)' /\ req'[r].alone)
  BY <1>2, <1>4, <1>5, <1>6, Zenon
<1> QED
  BY <1>2, <1>3, <1>4, <1>6, Zenon DEF Moves

\* A request comes in.
LEMMA MovesIn ==
    ASSUME TurnTyped, NEW r \in Requests, NEW record \in Records, Arrives(r, record)
    PROVE  /\ Moves(r) /\ At(r, "idle")
           /\ req'[r] = [record EXCEPT !.alone = (Busy = {})]
<1> DEFINE new == [record EXCEPT !.alone = (Busy = {})]
<1>1. req \in [Requests -> Records] /\ At(r, "idle")
  BY DEF TurnTyped, Arrives
<1>2. new \in Records
  BY DEF Records
<1>3. new.alone <=> Busy = {}
  BY DEF Records
<1> HIDE DEF new
<1>4. \A q \in Requests : [req[q] EXCEPT !.alone = FALSE] \in Records
  BY <1>1 DEF Records
<1>5. req' = [q \in Requests |-> CASE q = r -> new
                                   [] q \in Busy -> [req[q] EXCEPT !.alone = FALSE]
                                   [] OTHER -> req[q]]
  BY DEF Arrives, new
<1>6. r \notin Busy
  BY <1>1 DEF Busy, At
<1>7. req'[r] = new
  BY <1>5, <1>6
<1>8. ASSUME NEW q \in Requests \ {r}, q \in Busy
      PROVE  req'[q] = [req[q] EXCEPT !.alone = FALSE]
  BY <1>5, <1>8
<1>9. ASSUME NEW q \in Requests \ {r}, q \notin Busy
      PROVE  req'[q] = req[q]
  BY <1>5, <1>9
<1>10. req' \in [Requests -> Records]
  BY <1>1, <1>2, <1>4, <1>5, <1>7, <1>8, <1>9
<1>11. ASSUME NEW q \in Requests \ {r}, Working(q)
       PROVE  ~req'[q].alone /\ ~req'[r].alone
  <2>1. q \in Busy
    BY <1>11 DEF Working, Busy
  <2>2. req'[q] = [req[q] EXCEPT !.alone = FALSE] /\ req[q] \in Records
    BY <1>1, <1>8, <2>1
  <2>3. ~req'[q].alone
    BY <2>2 DEF Records
  <2> QED
    BY <1>3, <1>7, <2>1, <2>3, Zenon
<1>12. ASSUME NEW q \in Requests \ {r}
       PROVE  /\ req'[q].pc = req[q].pc /\ req'[q].temporary = req[q].temporary
              /\ req'[q].asks = req[q].asks /\ req'[q].sums = req[q].sums
  <2>1. req[q] \in Records
    BY <1>1
  <2> QED
    BY <1>8, <1>9, <2>1 DEF Records
<1> QED
  BY <1>1, <1>7, <1>10, <1>11, <1>12, Zenon DEF Moves, new

LEMMA Goes ==
    ASSUME TurnTyped, AloneHolds, NEW r \in Requests, Working(r), NEW phase \in Phases, Go(r, phase)
    PROVE  /\ Moves(r) /\ req'[r].pc = phase /\ req'[r].temporary = req[r].temporary
           /\ phase # "done" => /\ req'[r].asks = req[r].asks /\ req'[r].prompt = req[r].prompt
                             /\ req'[r].sums = req[r].sums /\ (req'[r].alone => req[r].alone)
<1> DEFINE new == IF phase = "done" THEN Done(r) ELSE [req[r] EXCEPT !.pc = phase]
<1>1. req[r] \in Records /\ req' = [req EXCEPT ![r] = new]
  BY DEF TurnTyped, Go
<1>2. CASE phase = "done"
  <2>1. new = Done(r)
    BY <1>2
  <2>2. Done(r) \in Records /\ Done(r).pc = "done" /\ Done(r).temporary = req[r].temporary
    BY <1>1 DEF Done, Unused, Records, Phases
  <2> HIDE DEF new
  <2> QED
    BY <1>1, <1>2, <2>1, <2>2, MovesOn
<1>3. CASE phase # "done"
  <2>1. new = [req[r] EXCEPT !.pc = phase]
    BY <1>3
  <2>2. /\ new \in Records /\ new.pc = phase /\ new.temporary = req[r].temporary
        /\ new.asks = req[r].asks /\ new.prompt = req[r].prompt
        /\ new.sums = req[r].sums /\ new.alone = req[r].alone
    BY <1>1, <2>1 DEF Records
  <2> HIDE DEF new
  <2>3. Moves(r) /\ req'[r] = new
    BY <1>1, <2>2, MovesOn
  <2> QED
    BY <2>2, <2>3
<1> QED
  BY <1>2, <1>3

-----------------------------------------------------------------------------
(* What a step of a request has to show of itself *)

\* A step that leaves the log alone.
LEMMA Quiet ==
    ASSUME TurnInv, NEW r \in Requests, Moves(r), UNCHANGED <<log, crossed>>,
           nextId' \in Nat, nextId <= nextId', AnswersOf(r)', AskedOf(r)', SummingOf(r)'
    PROVE  TurnInv'
<1>1. log \in Seq(Entries) /\ Len(log) \in 0..Len(log) /\ log' = SubSeq(log, 1, Len(log))
  BY DEF TurnInv, TurnTyped
<1>2. TurnTyped'
  BY DEF TurnInv, TurnTyped, Moves
<1>3. IdsFresh'
  BY <1>1, IdsCut DEF TurnInv
<1>4. SummariesStayInside'
  BY <1>1, InsideCut DEF TurnInv
<1>5. OneEach'
  BY <1>1, SingleCut, AnswersStep DEF TurnInv, OneEach
<1>6. AloneHolds' /\ Asked' /\ Summing'
  BY AloneStep, AskedStep, SummingStep DEF TurnInv
<1> QED
  BY <1>2, <1>3, <1>4, <1>5, <1>6 DEF TurnInv

\* A step that truncates the log.
LEMMA Cuts ==
    ASSUME TurnInv, NEW r \in Requests, Moves(r), NEW k \in 0..Len(log),
           Wrote(r, SubSeq(log, 1, k)), nextId' = nextId, AnswersOf(r)', AskedOf(r)',
           ~At(r, "summarising")'
    PROVE  TurnInv'
<1>1. log' = SubSeq(log, 1, k) /\ crossed \subseteq crossed' /\ Wrote(r, log')
  BY DEF Wrote
<1>2. TurnTyped'
  BY <1>1, CutRight DEF TurnInv, TurnTyped, Moves, Wrote
<1>3. IdsFresh'
  <2>1. nextId' \in Nat /\ nextId <= nextId'
    BY DEF TurnInv, TurnTyped
  <2> QED
    BY <1>1, <2>1, IdsCut DEF TurnInv
<1>4. SummariesStayInside'
  BY <1>1, InsideCut DEF TurnInv
<1>5. OneEach'
  BY <1>1, SingleCut, AnswersStep DEF TurnInv, OneEach
<1>6. AloneHolds' /\ Asked'
  BY AloneStep, AskedStep DEF TurnInv
<1>7. Summing'
  BY <1>1, SummingStep DEF TurnInv, SummingOf
<1> QED
  BY <1>2, <1>3, <1>4, <1>5, <1>6, <1>7 DEF TurnInv

\* A step that appends an entry.
LEMMA Pushes ==
    ASSUME TurnInv, NEW r \in Requests, Moves(r), NEW e \in Entries, e.id = nextId, e.by = r,
           Wrote(r, Append(log, e)), nextId' = nextId + 1,
           e.kind = "assistant" => NoAnswer(r),
           e.kind = "summary" /\ r \notin crossed => e.covers \subseteq IdsOf(AfterBoundary(log)),
           AnswersOf(r)', AskedOf(r)', ~At(r, "summarising")'
    PROVE  TurnInv'
<1>1. log' = Append(log, e) /\ crossed \subseteq crossed' /\ Wrote(r, log')
  BY DEF Wrote
<1>2. TurnTyped'
  BY <1>1, PushRight DEF TurnInv, TurnTyped, Moves, Wrote
<1>3. IdsFresh'
  BY <1>1, IdsPush DEF TurnInv
<1>4. SummariesStayInside'
  <2>1. e.kind = "summary" /\ e.by \notin crossed'
           => e.covers \subseteq IdsOf(AfterBoundary(log))
    BY <1>1
  <2> QED
    BY <1>1, <2>1, InsidePush DEF TurnInv
<1>5. OneEach'
  <2>1. e.kind = "assistant" => NoAnswer(e.by)
    OBVIOUS
  <2>2. /\ Single'
        /\ \A q \in Requests :
              /\ Nothing(q) /\ e.by # q => Nothing(q)'
              /\ NoAnswer(q) /\ (e.by # q \/ e.kind # "assistant") => NoAnswer(q)'
    BY <1>1, <2>1, SinglePush DEF TurnInv, OneEach
  <2> QED
    BY <2>2, AnswersStep DEF TurnInv
<1>6. AloneHolds' /\ Asked'
  BY AloneStep, AskedStep DEF TurnInv
<1>7. Summing'
  BY <1>1, SummingStep DEF TurnInv, SummingOf
<1> QED
  BY <1>2, <1>3, <1>4, <1>5, <1>6, <1>7 DEF TurnInv

-----------------------------------------------------------------------------
(* The steps that leave the log alone *)

\* What a request has left in the log, when it moves on and writes nothing.
LEMMA AnswersGo ==
    ASSUME TurnInv, NEW r \in Requests, log' = log, Working(r),
           req'[r].pc # "idle", req'[r].temporary = req[r].temporary,
           req'[r].pc \notin {"closing", "done"} => req[r].pc # "closing",
           req[r].temporary => req'[r].pc \in {"asking", "loading", "streaming", "done"}
    PROVE  AnswersOf(r)'
<1>1. AnswersOf(r)
  BY DEF TurnInv, OneEach
<1>2. (Nothing(r) => Nothing(r)') /\ (NoAnswer(r) => NoAnswer(r)')
  BY DEF Nothing, NoAnswer
<1> QED
  BY <1>1, <1>2, Zenon DEF AnswersOf, At, Working

\* A temporary turn does not compress, does not save.
LEMMA NotTemporary ==
    ASSUME TurnInv, NEW r \in Requests,
           req[r].pc \in {"compressing", "summarising", "reloading", "saving", "partial", "closing"}
    PROVE  ~req[r].temporary
<1>1. AnswersOf(r)
  BY DEF TurnInv, OneEach
<1> QED
  BY <1>1 DEF AnswersOf

\* A request that ends.
LEMMA Ends ==
    ASSUME TurnInv, NEW r \in Requests, Working(r), Go(r, "done"),
           UNCHANGED <<log, nextId, crossed>>
    PROVE  TurnInv'
<1>1. Moves(r) /\ req'[r].pc = "done" /\ req'[r].temporary = req[r].temporary
  BY Goes DEF TurnInv, Phases
<1>2. AnswersOf(r)'
  BY <1>1, AnswersGo
<1>3. AskedOf(r)' /\ SummingOf(r)'
  BY <1>1 DEF AskedOf, SummingOf, At
<1>4. nextId' \in Nat /\ nextId <= nextId'
  BY DEF TurnInv, TurnTyped
<1> QED
  BY <1>1, <1>2, <1>3, <1>4, Quiet

\* A request that goes on to one of the phases that ask nothing of the question.
LEMMA GoesOn ==
    ASSUME TurnInv, NEW r \in Requests, Working(r), ~req[r].temporary, ~At(r, "closing"),
           NEW phase \in {"saving", "partial"}, Go(r, phase), UNCHANGED <<log, nextId, crossed>>
    PROVE  TurnInv'
<1>1. Moves(r) /\ req'[r].pc = phase /\ req'[r].temporary = req[r].temporary
  BY Goes DEF TurnInv, Phases
<1>2. AnswersOf(r)'
  BY <1>1, AnswersGo DEF At
<1>3. AskedOf(r)' /\ SummingOf(r)'
  BY <1>1 DEF AskedOf, SummingOf, At
<1>4. nextId' \in Nat /\ nextId <= nextId'
  BY DEF TurnInv, TurnTyped
<1> QED
  BY <1>1, <1>2, <1>3, <1>4, Quiet

\* A request whose question is in the prompt goes on to the answer.
LEMMA Streams ==
    ASSUME TurnInv, NEW r \in Requests, req[r].pc \in {"compressing", "summarising"},
           req[r].asks # NoQuestion, Go(r, "streaming"), UNCHANGED <<log, nextId, crossed>>
    PROVE  TurnInv'
<1>1. Working(r)
  BY DEF Working
<1>2. /\ Moves(r) /\ req'[r].pc = "streaming" /\ req'[r].temporary = req[r].temporary
      /\ req'[r].asks = req[r].asks /\ req'[r].prompt = req[r].prompt
      /\ req'[r].alone => req[r].alone
  BY <1>1, Goes DEF TurnInv, Phases
<1>3. AnswersOf(r)'
  BY <1>1, <1>2, AnswersGo
<1>4. AskedOf(r) /\ AskedOf(r)'
  <2>1. AskedOf(r)
    BY DEF TurnInv, Asked
  <2>2. req[r].alone => req[r].asks \in req[r].prompt
    BY <2>1 DEF AskedOf, At
  <2> QED
    BY <1>2, <2>1, <2>2 DEF AskedOf, At
<1>5. SummingOf(r)'
  BY <1>2 DEF SummingOf, At
<1>6. nextId' \in Nat /\ nextId <= nextId'
  BY DEF TurnInv, TurnTyped
<1> QED
  BY <1>2, <1>3, <1>4, <1>5, <1>6, Quiet

LEMMA EndTurnKeeps ==
    ASSUME TurnInv, NEW r \in Requests, EndTurn(r)
    PROVE  TurnInv'
<1>1. Working(r)
  BY DEF EndTurn, At, Working
<1> QED
  BY <1>1, Ends DEF EndTurn

LEMMA StreamEndsKeeps ==
    ASSUME TurnInv, NEW r \in Requests, StreamEnds(r)
    PROVE  TurnInv'
<1>1. Working(r) /\ ~At(r, "closing") /\ UNCHANGED <<log, nextId, crossed>>
  BY DEF StreamEnds, At, Working
<1>2. CASE req[r].temporary
  BY <1>1, <1>2, Ends DEF StreamEnds
<1>3. CASE ~req[r].temporary
  BY <1>1, <1>3, GoesOn DEF StreamEnds
<1> QED
  BY <1>2, <1>3

LEMMA StopKeeps ==
    ASSUME TurnInv, NEW r \in Requests, NEW part \in BOOLEAN, Stop(r, part)
    PROVE  TurnInv'
<1>1. Working(r) /\ UNCHANGED <<log, nextId, crossed>>
  BY DEF Stop, At, Working
<1>2. CASE SavesPart(r, part)
  <2>1. Go(r, "partial")
    BY <1>2 DEF Stop
  <2>2. ~req[r].temporary /\ ~At(r, "closing")
    BY <1>2 DEF SavesPart, At
  <2> QED
    BY <1>1, <2>1, <2>2, GoesOn
<1>3. CASE ~SavesPart(r, part)
  BY <1>1, <1>3, Ends DEF Stop
<1> QED
  BY <1>2, <1>3

LEMMA SummaryFailsKeeps ==
    ASSUME TurnInv, NEW r \in Requests, SummaryFails(r)
    PROVE  TurnInv'
<1>1. /\ Working(r) /\ UNCHANGED <<log, nextId, crossed>> /\ Go(r, Proceed(r))
      /\ req[r].pc \in {"compressing", "summarising"}
  BY DEF SummaryFails, At, Working
<1>2. CASE req[r].asks = NoQuestion
  BY <1>1, <1>2, Ends DEF Proceed
<1>3. CASE req[r].asks # NoQuestion
  BY <1>1, <1>3, Streams DEF Proceed
<1> QED
  BY <1>2, <1>3

\* The ids that can be in a prompt are numbers, and those after the boundary are in it.
LEMMA ReachesRight ==
    ASSUME NEW list \in Seq(Entries)
    PROVE  /\ Reaches(list) \subseteq Nat /\ IdsOf(AfterBoundary(list)) \subseteq Nat
           /\ IdsOf(AfterBoundary(list)) \subseteq Reaches(list)
<1> DEFINE b == Boundary(list)
<1>1. b \in 0..Len(list) /\ Len(list) \in Nat
  BY BoundaryRight
<1>2. \A i \in 1..Len(list) : list[i] \in Entries
  OBVIOUS
<1>3. \A i \in 1..Len(list) : list[i].id \in Nat /\ list[i].covers \subseteq Nat
  BY <1>2 DEF Entries
<1>4. IdsOf(AfterBoundary(list)) = {list[i].id : i \in (b + 1)..Len(list)}
  BY AfterRight
<1> HIDE DEF b
<1>5. IdsOf(AfterBoundary(list)) \subseteq Nat
  BY <1>1, <1>3, <1>4
<1>6. b # 0 => list[b].covers \subseteq Nat
  BY <1>1, <1>3
<1> QED
  BY <1>5, <1>6 DEF Reaches, b

LEMMA ReadForSummaryKeeps ==
    ASSUME TurnInv, NEW r \in Requests, ReadForSummary(r)
    PROVE  TurnInv'
<1>1. /\ At(r, "compressing") /\ Working(r) /\ UNCHANGED <<log, nextId, crossed>>
      /\ req[r].pc \in {"compressing", "summarising"}
  BY DEF ReadForSummary, At, Working
<1>2. CASE Len(Compressible(log)) < MinMessages
  <2>1. Go(r, Proceed(r))
    BY <1>2 DEF ReadForSummary
  <2>2. CASE req[r].asks = NoQuestion
    BY <1>1, <2>1, <2>2, Ends DEF Proceed
  <2>3. CASE req[r].asks # NoQuestion
    BY <1>1, <2>1, <2>3, Streams DEF Proceed
  <2> QED
    BY <2>2, <2>3
<1>3. CASE ~(Len(Compressible(log)) < MinMessages)
  <2> DEFINE new == [req[r] EXCEPT !.pc = "summarising", !.sums = IdsOf(AfterBoundary(log))]
  <2>1. req \in [Requests -> Records] /\ req[r] \in Records
    BY DEF TurnInv, TurnTyped
  <2>2. req' = [req EXCEPT ![r] = new]
    BY <1>3, <2>1 DEF ReadForSummary, Compressible
  <2>3. IdsOf(AfterBoundary(log)) \subseteq Nat
    BY ReachesRight, LogRight DEF TurnInv
  <2>4. /\ new \in Records /\ new.pc = "summarising" /\ new.temporary = req[r].temporary
        /\ new.asks = req[r].asks /\ new.prompt = req[r].prompt
        /\ new.sums = IdsOf(AfterBoundary(log)) /\ new.alone = req[r].alone
    BY <2>1, <2>3 DEF Records, Phases
  <2> HIDE DEF new
  <2>5. Moves(r) /\ req'[r] = new
    BY <1>1, <2>2, <2>4, MovesOn DEF TurnInv
  <2>6. AnswersOf(r)'
    BY <1>1, <2>4, <2>5, NotTemporary, AnswersGo DEF At
  <2>7. AskedOf(r)'
    <3>1. AskedOf(r)
      BY DEF TurnInv, Asked
    <3> QED
      BY <1>1, <2>4, <2>5, <3>1 DEF AskedOf, At, Visible
  <2>8. SummingOf(r)'
    <3>1. IdsOf(AfterBoundary(log))' = IdsOf(AfterBoundary(log))
      BY <1>1
    <3> QED
      BY <2>4, <2>5, <3>1 DEF SummingOf
  <2>9. nextId' \in Nat /\ nextId <= nextId'
    BY <1>1 DEF TurnInv, TurnTyped
  <2> QED
    BY <1>1, <2>5, <2>6, <2>7, <2>8, <2>9, Quiet
<1> QED
  BY <1>2, <1>3

LEMMA ReloadKeeps ==
    ASSUME TurnInv, NEW r \in Requests, Reload(r)
    PROVE  TurnInv'
<1> DEFINE new == [req[r] EXCEPT !.pc = "streaming", !.prompt = Reaches(log)]
<1>1. At(r, "reloading") /\ Working(r) /\ UNCHANGED <<log, nextId, crossed>>
  BY DEF Reload, At, Working
<1>2. req \in [Requests -> Records] /\ req[r] \in Records
  BY DEF TurnInv, TurnTyped
<1>3. req' = [req EXCEPT ![r] = new]
  BY <1>2 DEF Reload
<1>4. Reaches(log) \subseteq Nat
  BY ReachesRight, LogRight DEF TurnInv
<1>5. /\ new \in Records /\ new.pc = "streaming" /\ new.temporary = req[r].temporary
      /\ new.asks = req[r].asks /\ new.prompt = Reaches(log) /\ new.alone = req[r].alone
  BY <1>2, <1>4 DEF Records, Phases
<1> HIDE DEF new
<1>6. Moves(r) /\ req'[r] = new
  BY <1>1, <1>3, <1>5, MovesOn DEF TurnInv
<1>7. AnswersOf(r)'
  BY <1>1, <1>5, <1>6, NotTemporary, AnswersGo DEF At
<1>8. AskedOf(r)'
  <2>1. AskedOf(r)
    BY DEF TurnInv, Asked
  <2> QED
    BY <1>1, <1>5, <1>6, <2>1 DEF AskedOf, At
<1>9. SummingOf(r)'
  BY <1>5, <1>6 DEF SummingOf, At
<1>10. nextId' \in Nat /\ nextId <= nextId'
  BY <1>1 DEF TurnInv, TurnTyped
<1> QED
  BY <1>1, <1>6, <1>7, <1>8, <1>9, <1>10, Quiet

LEMMA LoadKeeps ==
    ASSUME TurnInv, NEW r \in Requests, NEW over \in BOOLEAN, Load(r, over)
    PROVE  TurnInv'
<1> DEFINE question == Entry("user", req[r].asks, r, {})
           compresses == over /\ MayCompress(r)
           phase == IF compresses THEN "compressing" ELSE "streaming"
           list == IF req[r].temporary /\ ~compresses THEN Append(log, question) ELSE log
           new == [req[r] EXCEPT !.pc = phase, !.prompt = Reaches(list)]
<1>1. At(r, "loading") /\ Working(r) /\ UNCHANGED <<log, nextId, crossed>>
  BY DEF Load, At, Working
<1>2. req \in [Requests -> Records] /\ req[r] \in Records /\ log \in Seq(Entries)
  BY DEF TurnInv, TurnTyped
<1>3. AskedOf(r) /\ req[r].asks # NoQuestion /\ req[r].asks \in Nat
  <2>1. AskedOf(r)
    BY DEF TurnInv, Asked
  <2> QED
    BY <1>1, <1>2, <2>1 DEF AskedOf, Records
<1>4. question \in Entries /\ question.id = req[r].asks /\ question.kind = "user"
  BY <1>3 DEF Entry, Entries, Kinds
<1> HIDE DEF question
<1>5. list \in Seq(Entries)
  BY <1>2, <1>4, PushRight
<1>6. compresses => ~req[r].temporary
  BY DEF MayCompress
<1>7. req[r].alone => req[r].asks \in Reaches(list)
  <2>1. CASE list = log /\ ~req[r].temporary
    BY <1>1, <1>2, <1>3, <2>1, ReachesRight DEF AskedOf, Visible
  <2>2. CASE list = Append(log, question)
    <3>1. /\ Len(list) # 0 /\ list[Len(list)] = question
      BY <1>2, <1>4, <2>2, PushRight
    <3>2. list[Len(list)].kind \notin Boundaries
      BY <1>4, <3>1 DEF Boundaries
    <3>3. req[r].asks \in IdsOf(AfterBoundary(list))
      <4> HIDE DEF list
      <4> QED
        BY <1>4, <1>5, <3>1, <3>2, LastVisible
    <3> QED
      BY <1>5, <3>3, ReachesRight
  <2> QED
    BY <1>6, <2>1, <2>2
<1>8. req' = [req EXCEPT ![r] = new]
  BY <1>2 DEF Load, question
<1>9. Reaches(list) \subseteq Nat
  BY <1>5, ReachesRight
<1>10. phase \in {"compressing", "streaming"} /\ (phase = "compressing" => compresses)
  OBVIOUS
<1> HIDE DEF list, compresses, phase
<1>11. /\ new \in Records /\ new.pc = phase /\ new.temporary = req[r].temporary
       /\ new.asks = req[r].asks /\ new.prompt = Reaches(list) /\ new.alone = req[r].alone
  BY <1>2, <1>9, <1>10 DEF Records, Phases
<1> HIDE DEF new
<1>12. Moves(r) /\ req'[r] = new
  BY <1>1, <1>8, <1>11, MovesOn DEF TurnInv
<1>13. AnswersOf(r)'
  BY <1>1, <1>6, <1>10, <1>11, <1>12, AnswersGo DEF At
<1>14. AskedOf(r)'
  <2>1. phase = "compressing" /\ req[r].alone => Visible(r)
    BY <1>1, <1>3, <1>6, <1>10 DEF AskedOf
  <2>2. Visible(r)' <=> Visible(r)
    BY <1>1, <1>11, <1>12 DEF Visible
  <2> QED
    BY <1>3, <1>7, <1>10, <1>11, <1>12, <2>1, <2>2 DEF AskedOf, At
<1>15. SummingOf(r)'
  BY <1>10, <1>11, <1>12 DEF SummingOf, At
<1>16. nextId' \in Nat /\ nextId <= nextId'
  BY <1>1 DEF TurnInv, TurnTyped
<1> QED
  BY <1>1, <1>12, <1>13, <1>14, <1>15, <1>16, Quiet

-----------------------------------------------------------------------------
(* The steps of a request that comes in *)

\* The record of a request that comes in.
LEMMA Incoming ==
    ASSUME TurnTyped, NEW r \in Requests, NEW record \in Records, Arrives(r, record)
    PROVE  /\ Moves(r) /\ At(r, "idle")
           /\ req'[r].pc = record.pc /\ req'[r].temporary = record.temporary
           /\ req'[r].asks = record.asks
<1>1. Moves(r) /\ At(r, "idle") /\ req'[r] = [record EXCEPT !.alone = (Busy = {})]
  BY MovesIn
<1> QED
  BY <1>1 DEF Records

\* Nothing of a request is in the log before it comes in.
LEMMA NothingYet ==
    ASSUME TurnInv, NEW r \in Requests, At(r, "idle")
    PROVE  Nothing(r) /\ NoAnswer(r)
<1>1. Nothing(r)
  BY DEF TurnInv, OneEach, AnswersOf
<1> QED
  BY <1>1 DEF Nothing, NoAnswer

LEMMA BeginCompressKeeps ==
    ASSUME TurnInv, TurnAssumption, NEW r \in Requests, BeginCompress(r)
    PROVE  TurnInv'
<1> DEFINE record == [Unused EXCEPT !.pc = "compressing"]
<1>1. /\ record \in Records /\ record.pc = "compressing" /\ record.temporary = FALSE
      /\ record.asks = NoQuestion
  BY DEF Unused, Records, Phases
<1>2. /\ Moves(r) /\ At(r, "idle") /\ req'[r].pc = "compressing" /\ req'[r].temporary = FALSE
      /\ req'[r].asks = NoQuestion
  <2>1. Arrives(r, record)
    BY DEF BeginCompress
  <2> HIDE DEF record
  <2> QED
    BY <1>1, <2>1, Incoming DEF TurnInv
<1>3. UNCHANGED <<log, nextId, crossed>> /\ nextId' \in Nat /\ nextId <= nextId'
  BY DEF BeginCompress, TurnInv, TurnTyped
<1>4. Nothing(r)' /\ NoAnswer(r)'
  BY <1>2, <1>3, NothingYet DEF Nothing, NoAnswer
<1>5. AnswersOf(r)'
  BY <1>2, <1>4 DEF AnswersOf, At
<1>6. AskedOf(r)' /\ SummingOf(r)'
  BY <1>2 DEF AskedOf, SummingOf, At
<1> QED
  BY <1>2, <1>3, <1>5, <1>6, Quiet

LEMMA SeparateKeeps ==
    ASSUME TurnInv, NEW r \in Requests, Separate(r)
    PROVE  TurnInv'
<1> DEFINE e == Entry("separator", nextId, r, {})
<1> DEFINE record == [Unused EXCEPT !.pc = "done"]
<1>1. /\ record \in Records /\ record.pc = "done" /\ record.temporary = FALSE
      /\ record.asks = NoQuestion
  BY DEF Unused, Records, Phases
<1>2. /\ Moves(r) /\ At(r, "idle") /\ req'[r].pc = "done" /\ req'[r].temporary = FALSE
      /\ req'[r].asks = NoQuestion
  <2>1. Arrives(r, record)
    BY DEF Separate
  <2> HIDE DEF record
  <2> QED
    BY <1>1, <2>1, Incoming DEF TurnInv
<1>3. /\ e \in Entries /\ e.id = nextId /\ e.by = r /\ e.kind = "separator"
  BY DEF TurnInv, TurnTyped, Entry, Entries, Kinds
<1>4. Wrote(r, Append(log, e)) /\ nextId' = nextId + 1
  BY DEF Separate
<1> HIDE DEF e
<1>5. AnswersOf(r)'
  BY <1>2, Zenon DEF AnswersOf, At
<1>6. AskedOf(r)' /\ ~At(r, "summarising")'
  BY <1>2 DEF AskedOf, At
<1> QED
  BY <1>2, <1>3, <1>4, <1>5, <1>6, Pushes

LEMMA BeginTurnKeeps ==
    ASSUME TurnInv, TurnAssumption, NEW r \in Requests, NEW temporary \in BOOLEAN,
           NEW skip \in BOOLEAN, NEW keep \in 0..Len(log), BeginTurn(r, temporary, skip, keep)
    PROVE  TurnInv'
<1> DEFINE asks == IF skip THEN log[keep].id ELSE NoQuestion
<1>1. skip => keep \in 1..Len(log) /\ log[keep].kind = "user"
  BY LogRight DEF BeginTurn, TurnInv
<1>2. asks \in Nat \cup {NoQuestion}
  BY <1>1, LogRight DEF TurnInv
<1>3. /\ Moves(r) /\ At(r, "idle") /\ req'[r].pc = "asking"
      /\ req'[r].temporary = temporary /\ req'[r].asks = asks
  <2> DEFINE record == [Unused EXCEPT !.pc = "asking", !.temporary = temporary, !.asks = asks]
  <2>1. Arrives(r, record)
    BY DEF BeginTurn
  <2> HIDE DEF asks
  <2>2. /\ record \in Records /\ record.pc = "asking" /\ record.temporary = temporary
        /\ record.asks = asks
    BY <1>2 DEF Unused, Records, Phases
  <2> HIDE DEF record
  <2> QED
    BY <2>1, <2>2, Incoming DEF TurnInv
<1>4. Wrote(r, SubSeq(log, 1, keep)) /\ log' = SubSeq(log, 1, keep) /\ nextId' = nextId
  BY DEF BeginTurn, Wrote
<1>5. Nothing(r)' /\ NoAnswer(r)'
  BY <1>3, <1>4, NothingYet, SingleCut DEF TurnInv, OneEach
<1>6. AnswersOf(r)'
  BY <1>3, <1>5 DEF AnswersOf, At
<1>7. ASSUME skip
      PROVE  asks \in IdsOf(AfterBoundary(log'))
  <2>1. /\ log' \in Seq(Entries) /\ Len(log') = keep /\ keep # 0 /\ log'[keep] = log[keep]
    BY <1>1, <1>4, <1>7, CutRight, LogRight DEF TurnInv
  <2>2. log'[Len(log')].kind \notin Boundaries
    BY <1>1, <1>7, <2>1 DEF Boundaries
  <2>3. log'[Len(log')].id \in IdsOf(AfterBoundary(log'))
    BY <2>1, <2>2, LastVisible
  <2> QED
    BY <1>7, <2>1, <2>3
<1>8. AskedOf(r)'
  <2>1. req'[r].asks # NoQuestion => req'[r].asks \in IdsOf(AfterBoundary(log'))
    BY <1>3, <1>7
  <2> HIDE DEF asks
  <2> QED
    BY <1>3, <2>1 DEF AskedOf, Visible, At
<1>9. ~At(r, "summarising")'
  BY <1>3 DEF At
<1> QED
  BY <1>3, <1>4, <1>6, <1>8, <1>9, Cuts

-----------------------------------------------------------------------------
(* The steps that append to the log *)

LEMMA SaveKeeps ==
    ASSUME TurnInv, NEW r \in Requests, Save(r)
    PROVE  TurnInv'
<1> DEFINE e == Entry("assistant", nextId, r, {})
           phase == IF At(r, "saving") THEN "closing" ELSE "done"
<1>1. /\ req[r].pc \in {"saving", "partial"} /\ Working(r) /\ ~req[r].temporary
      /\ NoAnswer(r)
  <2>1. req[r].pc \in {"saving", "partial"} /\ ~req[r].temporary
    BY NotTemporary DEF Save
  <2>2. NoAnswer(r)
    BY <2>1 DEF TurnInv, OneEach, AnswersOf
  <2> QED
    BY <2>1, <2>2 DEF Working
<1>2. /\ e \in Entries /\ e.id = nextId /\ e.by = r /\ e.kind = "assistant"
  BY DEF TurnInv, TurnTyped, Entry, Entries, Kinds
<1>3. Wrote(r, Append(log, e)) /\ nextId' = nextId + 1 /\ Go(r, phase)
  BY DEF Save
<1>4. phase \in {"closing", "done"} /\ phase \in Phases
  BY DEF Phases
<1> HIDE DEF e, phase
<1>5. Moves(r) /\ req'[r].pc = phase /\ req'[r].temporary = req[r].temporary
  BY <1>1, <1>3, <1>4, Goes DEF TurnInv
<1>6. AnswersOf(r)'
  BY <1>1, <1>4, <1>5 DEF AnswersOf, At
<1>7. AskedOf(r)' /\ ~At(r, "summarising")'
  BY <1>4, <1>5 DEF AskedOf, At
<1> QED
  BY <1>1, <1>2, <1>3, <1>5, <1>6, <1>7, Pushes

LEMMA AppendSummaryKeeps ==
    ASSUME TurnInv, NEW r \in Requests, AppendSummary(r)
    PROVE  TurnInv'
<1> DEFINE e == Entry("summary", nextId, r, req[r].sums)
           phase == IF req[r].asks = NoQuestion THEN "done" ELSE "reloading"
<1>1. At(r, "summarising") /\ Working(r) /\ ~req[r].temporary
  BY NotTemporary DEF AppendSummary, At, Working
<1>2. NoAnswer(r)
  BY <1>1 DEF TurnInv, OneEach, AnswersOf, At
<1>3. req[r].sums \subseteq Nat /\ log \in Seq(Entries)
  BY DEF TurnInv, TurnTyped, Records
<1>4. /\ e \in Entries /\ e.id = nextId /\ e.by = r /\ e.kind = "summary"
      /\ e.covers = req[r].sums
  BY <1>3 DEF TurnInv, TurnTyped, Entry, Entries, Kinds
<1>5. Wrote(r, Append(log, e)) /\ nextId' = nextId + 1 /\ Go(r, phase)
  BY DEF AppendSummary
<1>6. /\ phase \in {"reloading", "done"} /\ phase \in Phases
      /\ phase = "reloading" => req[r].asks # NoQuestion
  BY DEF Phases
<1> HIDE DEF e, phase
<1>7. /\ Moves(r) /\ req'[r].pc = phase /\ req'[r].temporary = req[r].temporary
      /\ phase # "done" => req'[r].asks = req[r].asks /\ (req'[r].alone => req[r].alone)
  BY <1>1, <1>5, <1>6, Goes DEF TurnInv
<1>8. r \notin crossed => e.covers \subseteq IdsOf(AfterBoundary(log))
  BY <1>1, <1>4 DEF TurnInv, Summing, SummingOf
<1>9. AnswersOf(r)'
  <2>1. Single /\ log' = Append(log, e)
    BY <1>5 DEF TurnInv, OneEach, Wrote
  <2>2. NoAnswer(r)'
    BY <1>2, <1>4, <2>1, SinglePush DEF TurnInv
  <2> QED
    BY <1>1, <1>6, <1>7, <2>2 DEF AnswersOf, At
<1>10. AskedOf(r)'
  <2>1. req[r].sums \subseteq Reaches(log')
    BY <1>3, <1>4, <1>5, SummaryReaches DEF Wrote
  <2>2. req[r].alone /\ req[r].asks # NoQuestion => req[r].asks \in req[r].sums
    BY <1>1 DEF TurnInv, Asked, AskedOf
  <2> QED
    BY <1>6, <1>7, <2>1, <2>2 DEF AskedOf, At
<1>11. ~At(r, "summarising")'
  BY <1>6, <1>7 DEF At
<1> QED
  BY <1>4, <1>5, <1>7, <1>8, <1>9, <1>10, <1>11, Pushes

LEMMA AskKeeps ==
    ASSUME TurnInv, TurnAssumption, NEW r \in Requests, Ask(r)
    PROVE  TurnInv'
<1> DEFINE e == Entry("user", nextId, r, {})
           new == [req[r] EXCEPT !.pc = "loading", !.asks = nextId]
<1>1. At(r, "asking") /\ Working(r)
  BY DEF Ask, At, Working
<1>2. AnswersOf(r) /\ AskedOf(r)
  BY DEF TurnInv, OneEach, Asked
<1>3. CASE req[r].asks # NoQuestion
  <2>1. Go(r, "loading") /\ UNCHANGED <<log, nextId, crossed>>
    BY <1>3 DEF Ask
  <2>2. /\ Moves(r) /\ req'[r].pc = "loading" /\ req'[r].temporary = req[r].temporary
        /\ req'[r].asks = req[r].asks /\ (req'[r].alone => req[r].alone)
    BY <1>1, <2>1, Goes DEF TurnInv, Phases
  <2>3. AnswersOf(r)'
    BY <1>1, <2>1, <2>2, AnswersGo DEF At
  <2>4. AskedOf(r)'
    <3>1. Visible(r)' <=> Visible(r)
      BY <2>1, <2>2 DEF Visible
    <3> QED
      BY <1>1, <1>2, <1>3, <2>2, <3>1 DEF AskedOf, At
  <2>5. SummingOf(r)'
    BY <2>2 DEF SummingOf, At
  <2>6. nextId' \in Nat /\ nextId <= nextId'
    BY <2>1 DEF TurnInv, TurnTyped
  <2> QED
    BY <2>1, <2>2, <2>3, <2>4, <2>5, <2>6, Quiet
<1>4. CASE req[r].asks = NoQuestion
  <2>1. req \in [Requests -> Records] /\ req[r] \in Records /\ nextId \in Nat
    BY DEF TurnInv, TurnTyped
  <2>2. req' = [req EXCEPT ![r] = new] /\ nextId' = nextId + 1
    BY <1>4, <2>1 DEF Ask
  <2>3. /\ new \in Records /\ new.pc = "loading" /\ new.temporary = req[r].temporary
        /\ new.asks = nextId /\ new.alone = req[r].alone
    BY <2>1 DEF Records, Phases
  <2>4. /\ e \in Entries /\ e.id = nextId /\ e.by = r /\ e.kind = "user"
    BY <2>1 DEF Entry, Entries, Kinds
  <2>5. req[r].temporary => UNCHANGED <<log, crossed>>
    BY <1>4 DEF Ask
  <2>6. ~req[r].temporary => Wrote(r, Append(log, e))
    BY <1>4 DEF Ask
  <2> HIDE DEF e, new
  <2>7. Moves(r) /\ req'[r] = new
    BY <1>1, <2>2, <2>3, MovesOn DEF TurnInv
  <2>8. nextId # NoQuestion
    BY <2>1 DEF TurnAssumption
  <2>9. SummingOf(r)' /\ ~At(r, "summarising")'
    BY <2>3, <2>7 DEF SummingOf, At
  <2>10. CASE req[r].temporary
    <3>1. AnswersOf(r)'
      BY <1>1, <2>3, <2>5, <2>7, <2>10, AnswersGo DEF At
    <3>2. AskedOf(r)'
      BY <2>3, <2>7, <2>8, <2>10 DEF AskedOf, At
    <3>3. nextId' \in Nat /\ nextId <= nextId'
      BY <2>1, <2>2
    <3> QED
      BY <2>5, <2>7, <2>9, <2>10, <3>1, <3>2, <3>3, Quiet
  <2>11. CASE ~req[r].temporary
    <3>1. log' = Append(log, e) /\ log \in Seq(Entries)
      BY <2>6, <2>11 DEF Wrote, TurnInv, TurnTyped
    <3>2. AnswersOf(r)'
      <4>1. NoAnswer(r)
        BY <1>1, <1>2 DEF AnswersOf, At
      <4>2. NoAnswer(r)'
        BY <2>4, <3>1, <4>1, SinglePush DEF TurnInv, OneEach
      <4> QED
        BY <2>3, <2>7, <2>11, <4>2 DEF AnswersOf, At
    <3>3. nextId \in IdsOf(AfterBoundary(log'))
      <4>1. log' \in Seq(Entries) /\ Len(log') # 0 /\ log'[Len(log')] = e
        BY <2>4, <3>1, PushRight
      <4>2. log'[Len(log')].kind \notin Boundaries
        BY <2>4, <4>1 DEF Boundaries
      <4>3. log'[Len(log')].id \in IdsOf(AfterBoundary(log'))
        BY <4>1, <4>2, LastVisible
      <4> QED
        BY <2>4, <4>1, <4>3
    <3>4. AskedOf(r)'
      BY <2>3, <2>7, <2>8, <3>3 DEF AskedOf, At, Visible
    <3> QED
      BY <2>2, <2>4, <2>6, <2>7, <2>9, <2>11, <3>2, <3>4, Pushes
  <2> QED
    BY <2>10, <2>11
<1> QED
  BY <1>3, <1>4

-----------------------------------------------------------------------------
(* The log is in order *)

LEMMA TurnInitRight ==
    ASSUME TurnInit
    PROVE  TurnInv
<1>1. log = <<>> /\ DOMAIN log = {} /\ nextId = 1 /\ crossed = {}
  BY DEF TurnInit
<1>2. req = [r \in Requests |-> Unused] /\ Unused \in Records
  BY DEF TurnInit, Unused, Records, Phases
<1>3. \A r \in Requests : req[r].pc = "idle" /\ ~req[r].temporary
  BY <1>2 DEF Unused
<1>4. TurnTyped
  BY <1>1, <1>2 DEF TurnTyped
<1>5. IdsFresh /\ Single /\ SummariesStayInside
  BY <1>1 DEF IdsFresh, Single, SummariesStayInside
<1>6. OneEach
  BY <1>1, <1>3, <1>5, Zenon DEF OneEach, AnswersOf, Nothing, NoAnswer
<1>7. AloneHolds
  BY <1>3 DEF AloneHolds, Working
<1>8. Asked /\ Summing
  BY <1>3 DEF Asked, AskedOf, Summing, SummingOf, At
<1> QED
  BY <1>4, <1>5, <1>6, <1>7, <1>8 DEF TurnInv

LEMMA TurnStepRight ==
    ASSUME TurnInv, TurnAssumption, [TurnNext]_turnVars
    PROVE  TurnInv'
<1>1. CASE UNCHANGED turnVars
  <2>1. log' = log /\ req' = req /\ nextId' = nextId /\ crossed' = crossed
    BY <1>1 DEF turnVars
  <2> QED
    BY <2>1 DEF TurnInv, TurnTyped, IdsFresh, OneEach, Single, AnswersOf, Nothing, NoAnswer,
                AloneHolds, Working, Asked, AskedOf, Visible, Summing, SummingOf, At,
                SummariesStayInside, Inside
<1>2. ASSUME NEW r \in Requests, NEW temporary \in BOOLEAN, NEW skip \in BOOLEAN,
             NEW keep \in 0..Len(log), BeginTurn(r, temporary, skip, keep)
      PROVE  TurnInv'
  BY <1>2, BeginTurnKeeps
<1>3. ASSUME NEW r \in Requests, Ask(r)
      PROVE  TurnInv'
  BY <1>3, AskKeeps
<1>4. ASSUME NEW r \in Requests, NEW over \in BOOLEAN, Load(r, over)
      PROVE  TurnInv'
  BY <1>4, LoadKeeps
<1>5. ASSUME NEW r \in Requests,
             \/ BeginCompress(r) \/ ReadForSummary(r) \/ SummaryFails(r) \/ AppendSummary(r)
             \/ Reload(r)
      PROVE  TurnInv'
  BY <1>5, BeginCompressKeeps, ReadForSummaryKeeps, SummaryFailsKeeps, AppendSummaryKeeps,
     ReloadKeeps
<1>6. ASSUME NEW r \in Requests, Separate(r) \/ StreamEnds(r) \/ Save(r) \/ EndTurn(r)
      PROVE  TurnInv'
  BY <1>6, SeparateKeeps, StreamEndsKeeps, SaveKeeps, EndTurnKeeps
<1>7. ASSUME NEW r \in Requests, NEW part \in BOOLEAN, Stop(r, part)
      PROVE  TurnInv'
  BY <1>7, StopKeeps
<1> QED
  BY <1>1, <1>2, <1>3, <1>4, <1>5, <1>6, <1>7 DEF TurnNext

\* A set with at most one element has at most that cardinality.
LEMMA AtMostOne ==
    ASSUME NEW S, \A a, b \in S : a = b
    PROVE  Cardinality(S) <= 1
<1>1. CASE S = {}
  BY <1>1, FS_EmptySet
<1>2. CASE S # {}
  <2>1. PICK a : a \in S
    BY <1>2
  <2>2. S = {a}
    BY <2>1
  <2>3. Cardinality(S) = 1
    BY <2>2, FS_Singleton
  <2> QED
    BY <2>3
<1> QED
  BY <1>1, <1>2

LEMMA LogFollows ==
    ASSUME TurnInv
    PROVE  LogInOrder
<1>1. QuestionReachesModel
  BY DEF TurnInv, Asked, AskedOf, QuestionReachesModel
<1>2. SummariesStayInside
  BY DEF TurnInv
<1>3. ASSUME NEW r \in Requests
      PROVE  LET left == {i \in DOMAIN log : log[i].by = r}
             IN  /\ Cardinality({i \in left : log[i].kind = "assistant"}) <= 1
                 /\ req[r].temporary => left = {}
  <2> DEFINE left == {i \in DOMAIN log : log[i].by = r}
             answers == {i \in left : log[i].kind = "assistant"}
  <2>1. \A a, b \in answers : a = b
    BY DEF TurnInv, OneEach, Single
  <2>2. Cardinality(answers) <= 1
    <3> HIDE DEF answers
    <3> QED
      BY <2>1, AtMostOne
  <2>3. req[r].temporary => left = {}
    BY DEF TurnInv, OneEach, AnswersOf, Nothing
  <2> QED
    BY <2>2, <2>3
<1> QED
  BY <1>1, <1>2, <1>3 DEF LogInOrder, OneAnswer

\* However many requests overlap, are stopped or fail: the model a turn asks that was at work
\* alone sees the question, a turn leaves at most one answer and a temporary one nothing, and a
\* summary sums up nothing before the separator, unless the log changed while it was written.
THEOREM LogCorrect == TurnSpec => []LogInOrder
<1>1. TurnInit => TurnInv
  BY TurnInitRight
<1>2. TurnInv /\ [TurnNext]_turnVars => TurnInv'
  BY TurnAssumption, TurnStepRight
<1>3. TurnInv => LogInOrder
  BY LogFollows
<1> QED
  BY <1>1, <1>2, <1>3, PTL DEF TurnSpec
-----------------------------------------------------------------------------
(* The cost of a turn *)

One(holds) == IF holds THEN 1 ELSE 0

\* Every pass of the model is paid for by a round, a prompt, the refusal of more tools or the
\* answer.
Paid ==
    /\ passes \in Nat /\ round \in Nat
    /\ final \in BOOLEAN
    /\ ~final => round <= MaxToolRounds
    /\ passes <= (IF final THEN MaxToolRounds + 1 ELSE round)
                 + One("read" \in compensated) + One("web" \in compensated) + One(pc = "done")

LEMMA PaidStep ==
    ASSUME Paid, [Next]_vars
    PROVE  Paid'
<1> USE ToolAssumption DEF Paid
<1>1. CASE AnsweredTooSoon
  <2>1. /\ pc = "llm" /\ pc' = pc /\ round' = round /\ final' = final /\ passes' = passes + 1
        /\ \/ "read" \notin compensated /\ compensated' = compensated \cup {"read"}
           \/ "web" \notin compensated /\ compensated' = compensated \cup {"web"}
    BY <1>1 DEF AnsweredTooSoon, NeedsRead, NeedsWebRead, Compensate
  <2> QED
    BY <2>1 DEF One
<1>2. ASSUME NEW says \in BOOLEAN, Answered(says)
      PROVE  Paid'
  BY <1>2 DEF Answered, One
<1>3. ASSUME NEW says \in BOOLEAN, ForceFinalize(says)
      PROVE  Paid'
  BY <1>3 DEF ForceFinalize, One
<1>4. ASSUME NEW says \in BOOLEAN, NEW calls \in Batches, CallTools(calls, says)
      PROVE  Paid'
  BY <1>4 DEF CallTools, One
<1>5. CASE ServerTool \/ FinishRound \/ Await \/ TimeOut \/ Wake \/ (\E c \in Calls : Post(c))
           \/ UNCHANGED vars
  <2>1. /\ UNCHANGED <<passes, round, final, compensated>>
        /\ pc = "done" => pc' = "done"
    BY <1>5 DEF ServerTool, FinishRound, Await, TimeOut, Wake, Post, vars, loopVars, Running
  <2> QED
    BY <2>1 DEF One
<1>6. CASE Abandon
  <2>1. UNCHANGED <<passes, round, final, compensated>> /\ pc # "done" /\ pc' = "done"
    BY <1>6 DEF Abandon
  <2> QED
    BY <2>1 DEF One
<1> QED
  BY <1>1, <1>2, <1>3, <1>4, <1>5, <1>6 DEF Next, Turn

LEMMA PaidInit == Init => Paid
<1> SUFFICES ASSUME Init PROVE Paid
  OBVIOUS
<1>1. passes = 0 /\ round = 0 /\ ~final /\ final \in BOOLEAN /\ compensated = {} /\ pc = "llm"
  BY DEF Init
<1>2. /\ One("read" \in compensated) = 0 /\ One("web" \in compensated) = 0
      /\ One(pc = "done") = 0
  BY <1>1 DEF One
<1>3. 0 <= MaxToolRounds /\ 0 <= 0 + 0 + 0 + 0
  BY ToolAssumption
<1> QED
  BY <1>1, <1>2, <1>3 DEF Paid

\* A turn ends after a bounded number of model calls: max_tool_rounds, one prompt of each
\* kind, one refusal and the answer (decide_tool_loop_branch, advance_round_or_force_finalize).
THEOREM CostBounded == Spec => []RoundsBounded
<1>1. Paid => RoundsBounded
  BY ToolAssumption DEF Paid, One, RoundsBounded
<1> QED
  BY <1>1, PaidInit, PaidStep, PTL DEF Spec

-----------------------------------------------------------------------------
(* The coordinator *)

\* A round is one of the allowed, and its calls are one of the batches.
InRound == pc = "tools" => /\ round \in 1..MaxToolRounds /\ batch \in Batches
                           /\ results \in Seq(Outcomes) /\ Len(results) <= Len(batch)

LEMMA CurrentCall ==
    ASSUME InRound, Running
    PROVE  Current \in Calls /\ Len(results) \in Nat /\ Len(batch) \in Nat
<1>1. batch \in Seq(Tools) /\ results \in Seq(Outcomes) /\ Len(results) < Len(batch)
  BY ToolAssumption DEF InRound, Running
<1>2. Len(results) \in Nat /\ DOMAIN batch = 1..Len(batch) /\ Len(batch) \in Nat
  BY <1>1, LenProperties
<1>3. Len(results) + 1 \in DOMAIN batch
  BY <1>1, <1>2
<1>4. Len(results) + 1 \in Positions /\ round \in 1..MaxToolRounds
  BY <1>3 DEF Positions, InRound, Running
<1> QED
  BY <1>2, <1>4 DEF Calls, Current

LEMMA GrownResults ==
    ASSUME InRound, Running, NEW outcome \in Outcomes, results' = Append(results, outcome),
           UNCHANGED <<round, batch>>
    PROVE  InRound'
<1>1. results \in Seq(Outcomes) /\ Len(results) < Len(batch)
  BY DEF InRound, Running
<1>2. results' \in Seq(Outcomes) /\ Len(results') = Len(results) + 1
  BY <1>1, AppendProperties
<1>3. Len(results) \in Nat /\ Len(batch) \in Nat
  BY CurrentCall
<1>4. Len(results') <= Len(batch)
  BY <1>1, <1>2, <1>3
<1> QED
  BY <1>2, <1>4 DEF InRound, Running

\* The turn sleeps on the call it is at.
Asleep == waiting # None => Running /\ waiting = Current /\ CurrentTool = Client

LEMMA InRoundStep ==
    ASSUME Paid, InRound, Asleep, [Next]_vars
    PROVE  InRound' /\ Asleep'
<1>1. Useless \in Outcomes
  BY DEF Useless, Outcomes
<1>2. CASE AnsweredTooSoon \/ FinishRound \/ Abandon
  BY <1>2 DEF AnsweredTooSoon, FinishRound, Abandon, InRound, Asleep, Running, clientVars
<1>3. ASSUME NEW says \in BOOLEAN, Answered(says) \/ ForceFinalize(says)
      PROVE  InRound' /\ Asleep'
  BY <1>3 DEF Answered, ForceFinalize, InRound, Asleep, Running, clientVars
<1>4. ASSUME NEW says \in BOOLEAN, NEW calls \in Batches, CallTools(calls, says)
      PROVE  InRound' /\ Asleep'
  <2>1. /\ pc = "llm" /\ round < MaxToolRounds /\ round' = round + 1 /\ batch' = calls
        /\ results' = <<>> /\ waiting' = waiting
    BY <1>4 DEF CallTools
  <2>2. round' \in 1..MaxToolRounds
    BY <2>1, ToolAssumption DEF Paid
  <2>3. results' \in Seq(Outcomes) /\ Len(results') <= Len(calls)
    BY <2>1, EmptySeq, LenProperties, ToolAssumption
  <2> QED
    BY <2>1, <2>2, <2>3 DEF InRound, Asleep, Running
<1>5. CASE ServerTool
  <2>1. PICK outcome \in Outcomes : results' = Append(results, outcome)
    BY <1>5 DEF ServerTool
  <2>2. Running /\ UNCHANGED <<round, batch>> /\ CurrentTool # Client /\ waiting' = waiting
    BY <1>5 DEF ServerTool, clientVars
  <2> QED
    BY <2>1, <2>2, GrownResults DEF Asleep
<1>6. CASE Await
  <2>1. Running /\ CurrentTool = Client /\ UNCHANGED <<round, batch, pc>>
    BY <1>6 DEF Await
  <2>2. CASE Current \in buffered
    BY <1>1, <1>6, <2>1, <2>2, GrownResults DEF Await, Asleep
  <2>3. CASE Current \notin buffered
    BY <1>6, <2>1, <2>3 DEF Await, InRound, Asleep, Running, Current, CurrentTool
  <2> QED
    BY <2>2, <2>3
<1>7. CASE Wake
  <2>1. Running /\ results' = Append(results, Useless) /\ waiting' = None
        /\ UNCHANGED <<round, batch, pc>>
    BY <1>7 DEF Wake, Asleep
  <2> QED
    BY <1>1, <2>1, GrownResults DEF Asleep
<1>8. CASE TimeOut \/ (\E c \in Calls : Post(c)) \/ UNCHANGED vars
  BY <1>8 DEF TimeOut, Post, vars, loopVars, clientVars, InRound, Asleep, Running, Current,
              CurrentTool
<1> QED
  BY <1>2, <1>3, <1>4, <1>5, <1>6, <1>7, <1>8 DEF Next, Turn

\* A call in the table is the one the turn sleeps on, and while its future waits the table
\* holds it and no result of it is buffered.
Met ==
    /\ pending \in [Calls -> {None, "waiting", "cancelled"}]
    /\ waiting = None <=> future = None
    /\ \A c \in Calls : pending[c] # None => waiting # None /\ c = waiting
    /\ waiting # None => waiting \in Calls
    /\ future = "waiting" => waiting # None /\ pending[waiting] = "waiting" /\ waiting \notin buffered

LEMMA MetStep ==
    ASSUME InRound, Met, [Next]_vars
    PROVE  Met'
<1> USE ToolAssumption
<1>1. CASE Await
  <2>1. Current \in Calls /\ waiting = None
    BY <1>1, CurrentCall DEF Await
  <2>2. CASE Current \in buffered
    BY <1>1, <2>1, <2>2 DEF Await, Met
  <2>3. CASE Current \notin buffered
    BY <1>1, <2>1, <2>3 DEF Await, Met
  <2> QED
    BY <2>2, <2>3
<1>2. ASSUME NEW c \in Calls, Post(c)
      PROVE  Met'
  BY <1>2 DEF Post, Submit, Met
<1>3. CASE TimeOut
  BY <1>3 DEF TimeOut, Met
<1>4. CASE Wake
  BY <1>4 DEF Wake, Released, Met
<1>5. CASE Abandon
  BY <1>5 DEF Abandon, Released, Met
<1>6. CASE UNCHANGED <<pending, buffered, waiting, future>>
  BY <1>6 DEF Met
<1>7. ~(Await \/ TimeOut \/ Wake \/ Abandon \/ \E c \in Calls : Post(c))
          => UNCHANGED <<pending, buffered, waiting, future>>
  BY DEF Next, Turn, AnsweredTooSoon, Answered, ForceFinalize, CallTools, ServerTool, FinishRound,
         vars, clientVars
<1> QED
  BY <1>1, <1>2, <1>3, <1>4, <1>5, <1>6, <1>7

-----------------------------------------------------------------------------
(* The messages *)

Note == [kind : {"human", "ai"}, call : {None}]
CallNote == [kind : {"calls", "tool"}, call : Nat \X Nat]
Notes == Note \cup CallNote

\* Every call in ms is answered in ms, and every answer has its call.
AnsweredIn(ms) ==
    \A i \in DOMAIN ms :
        LET call == ms[i].call IN
        /\ ms[i].kind = "calls" => \A k \in 1..call[2] :
              i + k \in DOMAIN ms /\ ms[i + k] = [kind |-> "tool", call |-> <<call[1], k>>]
        /\ ms[i].kind = "tool" => \E j \in 1..i : ms[j].kind = "calls"
              /\ ms[j].call[1] = call[1] /\ i - j = call[2] /\ call[2] <= ms[j].call[2]

\* What is answered on its own stays so when one follows the other.
LEMMA AnsweredConcat ==
    ASSUME NEW s \in Seq(Notes), NEW t \in Seq(Notes), AnsweredIn(s), AnsweredIn(t)
    PROVE  s \o t \in Seq(Notes) /\ AnsweredIn(s \o t)
<1> DEFINE ms == s \o t
           n == Len(s)
           m == Len(t)
<1>1. /\ ms \in Seq(Notes) /\ Len(ms) = n + m
      /\ \A i \in 1..(n + m) : ms[i] = IF i <= n THEN s[i] ELSE t[i - n]
  BY ConcatProperties
<1>2. n \in Nat /\ m \in Nat /\ DOMAIN s = 1..n /\ DOMAIN t = 1..m
  BY LenProperties
<1>3. DOMAIN ms = 1..(n + m)
  BY <1>1, LenProperties
<1> HIDE DEF ms, n, m
<1>4. /\ \A i \in 1..n : i \in DOMAIN ms /\ ms[i] = s[i]
      /\ \A i \in 1..m : n + i \in DOMAIN ms /\ ms[n + i] = t[i]
  <2>1. ASSUME NEW i \in 1..n
        PROVE  i \in 1..(n + m) /\ i <= n
    BY <1>2
  <2>2. ASSUME NEW i \in 1..m
        PROVE  n + i \in 1..(n + m) /\ ~(n + i <= n) /\ (n + i) - n = i
    BY <1>2
  <2> QED
    BY <1>1, <1>3, <2>1, <2>2
<1>5. ASSUME NEW i \in DOMAIN ms, ms[i].kind = "calls", NEW k \in 1..ms[i].call[2]
      PROVE  i + k \in DOMAIN ms /\ ms[i + k] = [kind |-> "tool", call |-> <<ms[i].call[1], k>>]
  <2>1. CASE i \in 1..n
    <3>1. ms[i] = s[i] /\ i + k \in 1..n
             /\ s[i + k] = [kind |-> "tool", call |-> <<s[i].call[1], k>>]
      BY <1>2, <1>4, <1>5, <2>1 DEF AnsweredIn
    <3> QED
      BY <1>4, <3>1
  <2>2. CASE i \notin 1..n
    <3>1. i - n \in 1..m /\ i = n + (i - n)
      BY <1>2, <1>3, <2>2
    <3>2. ms[i] = t[i - n]
      BY <1>4, <3>1
    <3>3. (i - n) + k \in 1..m
             /\ t[(i - n) + k] = [kind |-> "tool", call |-> <<t[i - n].call[1], k>>]
      BY <1>2, <1>5, <3>1, <3>2 DEF AnsweredIn
    <3>4. n + ((i - n) + k) = i + k
      <4>1. k \in Int /\ i \in Int
        BY <1>2, <3>1, <1>5
      <4> QED
        BY <1>2, <4>1
    <3> QED
      BY <1>4, <3>2, <3>3, <3>4
  <2> QED
    BY <2>1, <2>2
<1>6. ASSUME NEW i \in DOMAIN ms, ms[i].kind = "tool"
      PROVE  \E j \in 1..i : /\ ms[j].kind = "calls" /\ ms[j].call[1] = ms[i].call[1]
                             /\ i - j = ms[i].call[2] /\ ms[i].call[2] <= ms[j].call[2]
  <2>1. CASE i \in 1..n
    <3>1. ms[i] = s[i] /\ i \in DOMAIN s
      BY <1>2, <1>4, <2>1
    <3>2. PICK j \in 1..i : /\ s[j].kind = "calls" /\ s[j].call[1] = s[i].call[1]
                            /\ i - j = s[i].call[2] /\ s[i].call[2] <= s[j].call[2]
      BY <1>6, <3>1 DEF AnsweredIn
    <3>3. j \in 1..n
      BY <1>2, <2>1, <3>2
    <3> QED
      BY <1>4, <3>1, <3>2, <3>3
  <2>2. CASE i \notin 1..n
    <3>1. i - n \in 1..m /\ i = n + (i - n)
      BY <1>2, <1>3, <2>2
    <3>2. ms[i] = t[i - n]
      BY <1>4, <3>1
    <3>3. PICK j \in 1..(i - n) :
            /\ t[j].kind = "calls" /\ t[j].call[1] = t[i - n].call[1]
            /\ (i - n) - j = t[i - n].call[2] /\ t[i - n].call[2] <= t[j].call[2]
      BY <1>2, <1>6, <3>1, <3>2 DEF AnsweredIn
    <3>4. j \in 1..m /\ n + j \in 1..i /\ i - (n + j) = (i - n) - j
      BY <1>2, <3>1, <3>3
    <3>5. ms[n + j] = t[j]
      BY <1>4, <3>4
    <3> QED
      BY <3>2, <3>3, <3>4, <3>5
  <2> QED
    BY <2>1, <2>2
<1>7. AnsweredIn(ms)
  BY <1>5, <1>6 DEF AnsweredIn
<1> QED
  BY <1>1, <1>7 DEF ms

LEMMA NotesAnswered ==
    ASSUME NEW ms \in Seq(Note)
    PROVE  ms \in Seq(Notes) /\ AnsweredIn(ms)
<1>1. \A i \in DOMAIN ms : ms[i].kind \notin {"calls", "tool"}
  <2>1. \A i \in DOMAIN ms : ms[i] \in Note
    BY ElementOfSeq, LenProperties
  <2> QED
    BY <2>1 DEF Note
<1>2. ms \in Seq(Notes)
  BY SeqMonotonic DEF Notes
<1> QED
  BY <1>1, <1>2 DEF AnsweredIn

LEMMA RoundAnswered ==
    ASSUME results \in Seq(Outcomes), round \in Nat
    PROVE  RoundMessages \in Seq(Notes) /\ AnsweredIn(RoundMessages)
<1> DEFINE n == Len(results)
           head == <<CallMessage(n)>>
           tail == [i \in DOMAIN results |-> Tool(i)]
<1>1. n \in Nat /\ DOMAIN results = 1..n
  BY LenProperties
<1>2. \A i \in 1..n : Tool(i) \in Notes
  BY <1>1 DEF Tool, Notes, CallNote
<1>3. CallMessage(n) \in Notes
  BY <1>1 DEF CallMessage, Notes, CallNote
<1>4. head \in Seq(Notes) /\ Len(head) = 1 /\ head[1] = CallMessage(n)
  BY <1>3
<1>5. tail \in Seq(Notes) /\ Len(tail) = n /\ \A i \in 1..n : tail[i] = Tool(i)
  BY <1>1, <1>2
<1> HIDE DEF n, head, tail
<1>6. /\ RoundMessages \in Seq(Notes) /\ Len(RoundMessages) = 1 + n
      /\ \A i \in 1..(1 + n) : RoundMessages[i] = IF i <= 1 THEN head[i] ELSE tail[i - 1]
  <2>1. RoundMessages = head \o tail
    BY DEF RoundMessages, head, tail, n
  <2>2. /\ head \o tail \in Seq(Notes) /\ Len(head \o tail) = Len(head) + Len(tail)
        /\ \A i \in 1..(Len(head) + Len(tail)) :
              (head \o tail)[i] = IF i <= Len(head) THEN head[i] ELSE tail[i - Len(head)]
    BY <1>4, <1>5, ConcatProperties
  <2> QED
    BY <1>4, <1>5, <2>1, <2>2, Zenon
<1>7. DOMAIN RoundMessages = 1..(1 + n)
  BY <1>6, LenProperties
<1>8. RoundMessages[1] = CallMessage(n) /\ \A k \in 1..n : RoundMessages[1 + k] = Tool(k)
  <2>1. 1 \in 1..(1 + n) /\ \A k \in 1..n : 1 + k \in 1..(1 + n) /\ ~(1 + k <= 1) /\ (1 + k) - 1 = k
    BY <1>1
  <2> QED
    BY <1>4, <1>5, <1>6, <2>1
<1>9. ASSUME NEW i \in DOMAIN RoundMessages
      PROVE  i = 1 \/ \E k \in 1..n : i = 1 + k
  <2>1. i # 1 => i - 1 \in 1..n /\ i = 1 + (i - 1)
    BY <1>1, <1>7
  <2> QED
    BY <2>1
<1>10. /\ CallMessage(n).kind = "calls" /\ CallMessage(n).call = <<round, n>>
       /\ \A k \in 1..n : Tool(k) = [kind |-> "tool", call |-> <<round, k>>]
  BY DEF CallMessage, Tool
<1>11. ASSUME NEW i \in DOMAIN RoundMessages, RoundMessages[i].kind = "calls"
       PROVE  i = 1
  BY <1>8, <1>9, <1>10, <1>11
<1>12. ASSUME NEW k \in 1..n
       PROVE  1 + k \in DOMAIN RoundMessages
              /\ RoundMessages[1 + k] = [kind |-> "tool", call |-> <<round, k>>]
  BY <1>1, <1>7, <1>8, <1>10
<1>13. ASSUME NEW i \in DOMAIN RoundMessages, RoundMessages[i].kind = "tool"
       PROVE  \E k \in 1..n : i = 1 + k /\ RoundMessages[i].call = <<round, k>>
  BY <1>8, <1>9, <1>10, <1>13
<1>14. ASSUME NEW i \in DOMAIN RoundMessages, RoundMessages[i].kind = "tool"
       PROVE  \E j \in 1..i :
                 /\ RoundMessages[j].kind = "calls"
                 /\ RoundMessages[j].call[1] = RoundMessages[i].call[1]
                 /\ i - j = RoundMessages[i].call[2]
                 /\ RoundMessages[i].call[2] <= RoundMessages[j].call[2]
  <2>1. PICK k \in 1..n : i = 1 + k /\ RoundMessages[i].call = <<round, k>>
    BY <1>13, <1>14
  <2>2. 1 \in 1..i /\ i - 1 = k /\ k <= n
    BY <1>1, <2>1
  <2>3. /\ RoundMessages[1].kind = "calls" /\ RoundMessages[1].call[1] = round
        /\ RoundMessages[1].call[2] = n
        /\ RoundMessages[i].call[1] = round /\ RoundMessages[i].call[2] = k
    BY <1>8, <1>10, <2>1
  <2> QED
    BY <2>2, <2>3
<1>15. RoundMessages[1].call[1] = round /\ RoundMessages[1].call[2] = n
  BY <1>8, <1>10
<1>16. AnsweredIn(RoundMessages)
  BY <1>11, <1>12, <1>14, <1>15 DEF AnsweredIn
<1> QED
  BY <1>6, <1>16

MessagesAnswered == msgs \in Seq(Notes) /\ AnsweredIn(msgs)

LEMMA MessagesStep ==
    ASSUME Paid, InRound, MessagesAnswered, [Next]_vars
    PROVE  MessagesAnswered'
<1>1. Message("human") \in Note /\ Message("ai") \in Note
  BY DEF Message, Note
<1>2. CASE AnsweredTooSoon
  <2>1. msgs' = msgs \o <<Message("human")>>
    BY <1>2, AppendIsConcat DEF AnsweredTooSoon, Compensate, MessagesAnswered
  <2>2. <<Message("human")>> \in Seq(Note)
    BY <1>1
  <2> QED
    BY <2>1, <2>2, NotesAnswered, AnsweredConcat DEF MessagesAnswered
<1>3. ASSUME NEW says \in BOOLEAN, ForceFinalize(says)
      PROVE  MessagesAnswered'
  <2>1. msgs' = msgs \o <<Message("ai"), Message("human")>>
    BY <1>3 DEF ForceFinalize, DropsCalls
  <2>2. <<Message("ai"), Message("human")>> \in Seq(Note)
    BY <1>1
  <2> QED
    BY <2>1, <2>2, NotesAnswered, AnsweredConcat DEF MessagesAnswered
<1>4. CASE FinishRound
  <2>1. msgs' = msgs \o RoundMessages /\ results \in Seq(Outcomes) /\ round \in Nat
    BY <1>4 DEF FinishRound, InRound, Paid
  <2> QED
    BY <2>1, RoundAnswered, AnsweredConcat DEF MessagesAnswered
<1>5. CASE UNCHANGED msgs
  BY <1>5 DEF MessagesAnswered
<1>6. AnsweredTooSoon \/ FinishRound \/ (\E says \in BOOLEAN : ForceFinalize(says)) \/ UNCHANGED msgs
  BY DEF Next, Turn, Answered, CallTools, ServerTool, Await, TimeOut, Wake, Abandon, Post, vars,
         loopVars
<1> QED
  BY <1>2, <1>3, <1>4, <1>5, <1>6

\* Every call of a round is answered once, by the result meant for it, and the coordinator
\* sleeps on no call whose result has come and keeps none that nobody awaits (await_result,
\* submit_result, append_round_with_tool_results).
THEOREM CallsMeetResults == Spec => []ResultsReachTheirCall
<1> DEFINE Inv == Paid /\ InRound /\ Asleep /\ Met /\ MessagesAnswered
<1>1. Init => Inv
  <2> SUFFICES ASSUME Init PROVE Inv
    OBVIOUS
  <2>1. Paid
    BY PaidInit
  <2>2. InRound /\ Asleep
    BY DEF Init, InRound, Asleep
  <2>3. Met
    <3>1. pending = [c \in Calls |-> None] /\ waiting = None /\ future = None
      BY DEF Init
    <3> QED
      BY <3>1, ToolAssumption DEF Met
  <2>4. MessagesAnswered
    BY EmptySeq, NotesAnswered DEF Init, MessagesAnswered
  <2> QED
    BY <2>1, <2>2, <2>3, <2>4
<1>2. Inv /\ [Next]_vars => Inv'
  BY PaidStep, InRoundStep, MetStep, MessagesStep
<1>3. Inv => ResultsReachTheirCall
  <2> SUFFICES ASSUME Inv PROVE ResultsReachTheirCall
    OBVIOUS
  <2>1. CallsAnswered
    BY DEF MessagesAnswered, AnsweredIn, CallsAnswered
  <2>2. Rendezvous
    BY DEF Met, Rendezvous
  <2> QED
    BY <2>1, <2>2 DEF ResultsReachTheirCall
<1> QED
  BY <1>1, <1>2, <1>3, PTL DEF Spec
=============================================================================
