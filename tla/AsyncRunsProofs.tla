-------------------------- MODULE AsyncRunsProofs --------------------------
(***************************************************************************)
(* Theorems of AsyncRuns, for any runs, requests, attempts, stops and      *)
(* capacities of the runtime: the types, and what the background runs      *)
(* promise as long as their check-then-await windows are respected.        *)
(***************************************************************************)
EXTENDS AsyncRuns, FlowStreamRuntimeProofs

-----------------------------------------------------------------------------
(* Types *)

Starting == {r \in Runs : creating[r] = "saving"}
Asking == {q \in Resumers : resumes[q].pc = "getwf"}

\* Every request that may start a task has an attempt left for it.
Reserved == Cardinality(Starting) + Cardinality(Asking) <= Cardinality(FreeAttempts)

\* Tasks at work and requests in flight know their run, and a request whose
\* record is being saved owns an attempt of that run.
RunsKnown ==
    /\ \A t \in Attempts : att[t].pc \notin {"unused", "dead"} => att[t].run \in Runs
    /\ \A q \in Resumers :
          /\ resumes[q].pc \in {"getwf", "saving"} => resumes[q].run \in Runs
          /\ resumes[q].pc = "saving" =>
                /\ resumes[q].t \in Attempts
                /\ att[resumes[q].t].pc # "unused"
                /\ att[resumes[q].t].run = resumes[q].run

Shape == TypeOK /\ RunsKnown /\ Reserved

LEMMA RecordTypes ==
    /\ NewRecord \in Record
    /\ \A rec \in Record :
          /\ rec.status \in ActiveStatuses \cup TerminalStatuses
          /\ rec.ckpt \in 0..MaxCheckpoints /\ rec.sticky \in 0..MaxCheckpoints
          /\ \A status \in ActiveStatuses \cup TerminalStatuses :
                [rec EXCEPT !.status = status] \in Record
          /\ \A c \in 0..MaxCheckpoints : [rec EXCEPT !.ckpt = c] \in Record
BY RunsAssumption DEF NewRecord, Record, ActiveStatuses

LEMMA AttemptTypes ==
    /\ Unused \in Attempt
    /\ [Unused EXCEPT !.pc = "dead"] \in Attempt
    /\ \A r \in Runs, rec \in Record, from \in 0..MaxCheckpoints :
          /\ NewAttempt(r, rec, from) \in Attempt
          /\ [NewAttempt(r, rec, from) EXCEPT !.pc = "dead"] \in Attempt
    /\ \A a \in Attempt, pc \in TaskStates :
          /\ [a EXCEPT !.pc = pc] \in Attempt
          /\ \A rec \in Record : [a EXCEPT !.pc = pc, !.rec = rec] \in Attempt
<1>1. Unused \in Attempt
  BY RecordTypes, RunsAssumption DEF Unused, Attempt, TaskStates
<1>2. ASSUME NEW a \in Attempt, NEW pc \in TaskStates
      PROVE  /\ [a EXCEPT !.pc = pc] \in Attempt
             /\ \A rec \in Record : [a EXCEPT !.pc = pc, !.rec = rec] \in Attempt
  BY DEF Attempt
<1>3. ASSUME NEW r \in Runs, NEW rec \in Record, NEW from \in 0..MaxCheckpoints
      PROVE  NewAttempt(r, rec, from) \in Attempt
  BY <1>1 DEF NewAttempt, Attempt, TaskStates
<1>4. "dead" \in TaskStates
  BY DEF TaskStates
<1> QED
  BY <1>1, <1>2, <1>3, <1>4

\* The kinds of save.
LEMMA SavedType ==
    ASSUME writes \in Seq(Write), store \in [Runs -> Record \cup {None}], writes # <<>>
    PROVE  /\ Head(writes) \in Write /\ Tail(writes) \in Seq(Write)
           /\ Written \in [Runs -> Record \cup {None}]
<1>1. Head(writes) \in Write /\ Tail(writes) \in Seq(Write)
  BY HeadTailProperties
<1>2. Head(writes).run \in Runs /\ Head(writes).rec \in Record
  BY <1>1 DEF Write
<1> QED
  BY <1>1, <1>2 DEF Written

StoreType == writes \in Seq(Write) /\ store \in [Runs -> Record \cup {None}]

LEMMA SaveTypes ==
    ASSUME StoreType, NEW by \in Actors, NEW r \in Runs, NEW rec \in Record
    PROVE  /\ Save(by, r, rec) \/ SavedThenSave(by, r, rec) => StoreType'
           /\ \A any : Saved(any) => StoreType'
<1>1. Entry(by, r, rec) \in Write
  BY DEF Entry, Write
<1>2. Append(writes, Entry(by, r, rec)) \in Seq(Write)
  BY <1>1, AppendProperties DEF StoreType
<1>3. ASSUME writes # <<>>
      PROVE  /\ Written \in [Runs -> Record \cup {None}]
             /\ Tail(writes) \in Seq(Write)
             /\ Append(Tail(writes), Entry(by, r, rec)) \in Seq(Write)
  <2>1. Written \in [Runs -> Record \cup {None}] /\ Tail(writes) \in Seq(Write)
    BY <1>3, SavedType DEF StoreType
  <2> QED
    BY <1>1, <2>1, AppendProperties
<1>4. Save(by, r, rec) => StoreType'
  BY <1>2 DEF Save, StoreType
<1>5. SavedThenSave(by, r, rec) => StoreType'
  BY <1>3 DEF SavedThenSave, Turn, StoreType
<1>6. \A any : Saved(any) => StoreType'
  BY <1>3 DEF Saved, Turn, StoreType
<1> QED
  BY <1>4, <1>5, <1>6

LEMMA InitShape == Init => Shape
<1> SUFFICES ASSUME Init PROVE Shape
  OBVIOUS
<1>1. TypeOK
  <2>1. IdleResume \in ResumeCall
    BY RecordTypes, RunsAssumption DEF IdleResume, ResumeCall
  <2>2. <<>> \in Seq(Write) /\ 0 \in 0..MaxAttempts /\ 0 \in 0..MaxCheckpoints /\ 0 \in 0..MaxStops
    BY EmptySeq, RunsAssumption
  <2>3. poll \in [copy : [Runs -> Record \cup {None}], todo : SUBSET Runs, busy : BOOLEAN]
    BY RecordTypes DEF Init, IdlePoll
  <2> QED
    BY <2>1, <2>2, <2>3, RuntimeInitType, AttemptTypes DEF Init, TypeOK
<1>2. RunsKnown
  BY DEF Init, RunsKnown, Unused, IdleResume
<1>3. Reserved
  <2>1. Starting = {} /\ Asking = {}
    BY DEF Init, Starting, Asking, IdleResume
  <2>2. FreeAttempts = 1..MaxAttempts
    BY DEF Init, FreeAttempts, Unused, Attempts
  <2>3. Cardinality({}) = 0 /\ Cardinality(FreeAttempts) \in Nat
    BY <2>2, FS_EmptySet, FS_Interval, FS_CardinalityType, RunsAssumption
  <2> QED
    BY <2>1, <2>3 DEF Reserved
<1> QED
  BY <1>1, <1>2, <1>3 DEF Shape

\* The variables a task's step may touch besides the runtime's and the store's.
TaskVarsType ==
    /\ att \in [Attempts -> Attempt]
    /\ tasks \in [Runs -> 0..MaxAttempts]
    /\ flags \in [Runs -> 0..MaxAttempts]
    /\ ckpts \in [Runs -> 0..MaxCheckpoints]

LEMMA LeaveType ==
    ASSUME TaskVarsType, NEW t \in Attempts, NEW pc \in TaskStates, Leave(t, pc)
    PROVE  TaskVarsType'
<1>1. att[t] \in Attempt /\ 0 \in 0..MaxAttempts
  BY RunsAssumption DEF TaskVarsType
<1>2. [att[t] EXCEPT !.pc = pc] \in Attempt
  BY <1>1, AttemptTypes
<1> QED
  BY <1>1, <1>2 DEF Leave, TaskVarsType

LEMMA GotoType ==
    ASSUME att \in [Attempts -> Attempt], NEW t \in Attempts, NEW pc \in TaskStates
    PROVE  /\ Goto(t, pc) => att' \in [Attempts -> Attempt]
           /\ \A rec \in Record : GotoWith(t, pc, rec) => att' \in [Attempts -> Attempt]
<1>1. att[t] \in Attempt
  OBVIOUS
<1>2. Goto(t, pc) => att' = [att EXCEPT ![t] = [att[t] EXCEPT !.pc = pc]]
  BY DEF Goto
<1>3. ASSUME NEW rec \in Record, GotoWith(t, pc, rec)
      PROVE  att' = [att EXCEPT ![t] = [att[t] EXCEPT !.pc = pc, !.rec = rec]]
  BY <1>3 DEF GotoWith
<1>4. [att[t] EXCEPT !.pc = pc] \in Attempt
  BY <1>1, AttemptTypes
<1>5. \A rec \in Record : [att[t] EXCEPT !.pc = pc, !.rec = rec] \in Attempt
  BY <1>1, AttemptTypes
<1> QED
  BY <1>2, <1>3, <1>4, <1>5

LEMMA CheckpointedType ==
    ASSUME TypeOK, NEW r \in Runs, Checkpointed(r)
    PROVE  /\ ckpts' \in [Runs -> 0..MaxCheckpoints]
           /\ ckpts[r] + 1 \in 0..MaxCheckpoints /\ ckpts'[r] = ckpts[r] + 1
BY RunsAssumption DEF TypeOK, Checkpointed

LEMMA TaskType ==
    ASSUME Shape, NEW t \in Attempts, TaskStep(t)
    PROVE  TypeOK'
<1> DEFINE r == att[t].run
<1>1. /\ att[t] \in Attempt /\ att[t].rec \in Record
      /\ att \in [Attempts -> Attempt] /\ TaskVarsType
      /\ att[t].flag \in BOOLEAN
      /\ RuntimeTypeOK /\ StoreType
  BY DEF Shape, TypeOK, Attempt, TaskVarsType, StoreType
<1>2. r \in Runs
  <2>1. att[t].pc \notin {"unused", "dead"}
    BY DEF TaskStep, InState, TaskStart, TaskMark, TaskAborted, TaskStarted, TaskAwaits,
           TaskCancelled, TaskProgress, TaskWorkflowFinished, TaskFailed, TaskFinalize,
           TaskEnsureEnded, TaskEnds
  <2> QED
    BY <2>1 DEF Shape, RunsKnown
<1>3. Me(t) \in Actors
  BY DEF Me, Actors
<1>4. \A status \in ActiveStatuses \cup TerminalStatuses : Rec(t, status) \in Record
  BY <1>1, RecordTypes DEF Rec
<1>5. \A pc \in TaskStates : Saved(Me(t)) /\ Leave(t, pc) => StoreType' /\ TaskVarsType'
  BY <1>1, <1>2, <1>3, SaveTypes, LeaveType DEF Shape, StoreType
<1>6. ASSUME NEW rec \in Record,
             \/ Save(Me(t), r, rec)
             \/ Saved(Me(t))
             \/ SavedThenSave(Me(t), r, rec)
             \/ UNCHANGED <<store, writes>>
      PROVE  StoreType'
  BY <1>1, <1>2, <1>3, <1>6, SaveTypes DEF Shape, StoreType, TypeOK
<1>7. AppendEvent(r, "started") \/ AppendEvent(r, "data") \/ AppendEvent(r, "error")
      \/ AppendEvent(r, "ended") \/ Lookup \/ UNCHANGED runtimeVars => RuntimeTypeOK'
  BY <1>1, <1>2, RuntimeTypeStep DEF RuntimeStep, StreamCall, Kinds, Runs
<1>8. UNCHANGED <<requestVars, lifeVars>> /\ TaskVarsType' /\ StoreType' /\ RuntimeTypeOK'
      => TypeOK'
  BY DEF Shape, TypeOK, TaskVarsType, StoreType, requestVars, lifeVars
<1>9. "cancelled" \in TerminalStatuses /\ "failed" \in TerminalStatuses
      /\ "succeeded" \in TerminalStatuses /\ "running" \in ActiveStatuses
  BY DEF TerminalStatuses, ActiveStatuses
<1> HIDE DEF r
<1> USE DEF KeepRegistered
<1>11. CASE TaskStart(t)
  <2>1. att' \in [Attempts -> Attempt]
    BY <1>1, <1>4, <1>9, <1>11, GotoType DEF TaskStart, TaskStates
  <2>2. StoreType'
    BY <1>4, <1>6, <1>9, <1>11 DEF TaskStart, r
  <2> QED
    BY <1>1, <1>7, <1>8, <1>11, <2>1, <2>2 DEF TaskStart, TaskVarsType
<1>12. CASE TaskMark(t)
  <2>1. att' \in [Attempts -> Attempt] /\ StoreType'
    BY <1>1, <1>4, <1>6, <1>9, <1>12, GotoType DEF TaskMark, TaskStates, r
  <2> QED
    BY <1>1, <1>7, <1>8, <1>12, <2>1 DEF TaskMark, TaskVarsType
<1>13. CASE TaskAborted(t) \/ TaskEnds(t)
  BY <1>5, <1>7, <1>8, <1>13 DEF TaskAborted, TaskEnds, TaskStates
<1>14. CASE TaskStarted(t)
  <2>1. CASE Leave(t, "dead") /\ Saved(Me(t)) /\ Lookup
    BY <1>5, <1>7, <1>8, <1>14, <2>1 DEF TaskStarted, TaskStates
  <2>2. CASE Goto(t, "starting") /\ KeepRegistered
    <3>1. att' \in [Attempts -> Attempt] /\ StoreType'
      BY <1>1, <1>6, <1>14, <2>2, GotoType DEF TaskStarted, TaskStates, r
    <3> QED
      BY <1>1, <1>7, <1>8, <1>14, <2>2, <3>1 DEF TaskStarted, TaskVarsType, r
  <2> QED
    BY <1>14, <2>1, <2>2 DEF TaskStarted, r
<1>15. CASE TaskAwaits(t)
  <2>1. att' \in [Attempts -> Attempt] /\ StoreType'
    BY <1>1, <1>6, <1>15, GotoType DEF TaskAwaits, TaskStates
  <2> QED
    BY <1>1, <1>7, <1>8, <1>15, <2>1 DEF TaskAwaits, TaskVarsType
<1>16. CASE TaskCancelled(t)
  <2>1. att' \in [Attempts -> Attempt] /\ StoreType'
    BY <1>1, <1>4, <1>6, <1>9, <1>16, GotoType DEF TaskCancelled, TaskStates
  <2>2. ckpts' \in [Runs -> 0..MaxCheckpoints]
    BY <1>1, <1>2, <1>16, CheckpointedType DEF TaskCancelled, Shape, TypeOK, r
  <2> QED
    BY <1>1, <1>7, <1>8, <1>16, <2>1, <2>2 DEF TaskCancelled, TaskVarsType
<1>17. CASE TaskProgress(t)
  <2>1. PICK rec \in {att[t].rec, [att[t].rec EXCEPT !.ckpt = ckpts[r] + 1]} :
           /\ IF rec = att[t].rec THEN produced[r] < MaxProduced /\ UNCHANGED ckpts
                                  ELSE Checkpointed(r)
           /\ GotoWith(t, "recording", rec)
           /\ Save(Me(t), r, rec)
    BY <1>17 DEF TaskProgress, r
  <2>2. rec \in Record /\ ckpts' \in [Runs -> 0..MaxCheckpoints]
    BY <1>1, <1>2, <2>1, CheckpointedType, RecordTypes DEF Shape, TypeOK
  <2>3. att' \in [Attempts -> Attempt] /\ StoreType'
    BY <1>1, <1>6, <2>1, <2>2, GotoType DEF TaskStates
  <2> QED
    BY <1>1, <1>7, <1>8, <1>17, <2>2, <2>3 DEF TaskProgress, TaskVarsType, r
<1>18. CASE TaskWorkflowFinished(t)
  <2>1. ckpts' \in [Runs -> 0..MaxCheckpoints] /\ ckpts'[r] \in 0..MaxCheckpoints
    BY <1>2, <1>18, CheckpointedType DEF TaskWorkflowFinished, Shape, r
  <2>2. att' \in [Attempts -> Attempt]
    BY <1>1, <1>9, <1>18, <2>1
       DEF TaskWorkflowFinished, Attempt, Record, TaskStates, r
  <2> QED
    BY <1>1, <1>6, <1>7, <1>8, <1>18, <2>1, <2>2 DEF TaskWorkflowFinished, TaskVarsType, r
<1>19. CASE TaskFailed(t)
  <2>1. ckpts' \in [Runs -> 0..MaxCheckpoints]
    BY <1>1, <1>2, <1>19, CheckpointedType DEF TaskFailed, Shape, TypeOK, r
  <2>2. att' \in [Attempts -> Attempt]
    <3>1. CASE att' = [att EXCEPT ![t] = [@ EXCEPT !.pc = "closing", !.term = TRUE,
                                               !.rec.status = "failed"]]
      BY <1>1, <1>9, <3>1 DEF Attempt, Record, TaskStates
    <3>2. CASE GotoWith(t, "closing", Rec(t, "failed"))
      BY <1>1, <1>4, <1>9, <3>2, GotoType DEF TaskStates
    <3> QED
      BY <1>19, <3>1, <3>2 DEF TaskFailed
  <2> QED
    BY <1>1, <1>6, <1>7, <1>8, <1>19, <2>1, <2>2 DEF TaskFailed, TaskVarsType, r
<1>20. CASE TaskFinalize(t)
  <2> DEFINE rec == Rec(t, FinalStatus(att[t].rec.status, att[t].flag))
  <2>1. rec \in Record
    BY <1>1, <1>4, <1>9, RecordTypes DEF FinalStatus
  <2>2. att' \in [Attempts -> Attempt]
    <3>1. att' = [att EXCEPT ![t] = [@ EXCEPT !.pc = "finalizing", !.rec = rec,
                                             !.heeded = att[t].flag]]
      BY <1>20 DEF TaskFinalize
    <3> HIDE DEF rec
    <3> QED
      BY <1>1, <2>1, <3>1 DEF Attempt, TaskStates
  <2>3. StoreType'
    BY <1>6, <1>20, <2>1 DEF TaskFinalize, r
  <2> QED
    BY <1>1, <1>7, <1>8, <1>20, <2>2, <2>3 DEF TaskFinalize, TaskVarsType
<1>21. CASE TaskEnsureEnded(t)
  <2>1. CASE Goto(t, "ending") /\ SavedThenSave(Me(t), r, att[t].rec) /\ KeepRegistered
    <3>1. att' \in [Attempts -> Attempt] /\ StoreType'
      BY <1>1, <1>6, <2>1, GotoType DEF TaskStates
    <3>2. RuntimeTypeOK' /\ UNCHANGED <<requestVars, lifeVars>>
      BY <1>7, <1>21 DEF TaskEnsureEnded, r
    <3> QED
      BY <1>1, <1>8, <2>1, <3>1, <3>2 DEF TaskVarsType
  <2>2. CASE (Leave(t, "dead") \/ Leave(t, "finished")) /\ Saved(Me(t)) /\ Lookup
    BY <1>5, <1>7, <1>8, <1>21, <2>2 DEF TaskEnsureEnded, TaskStates
  <2> QED
    BY <1>21, <2>1, <2>2 DEF TaskEnsureEnded, r
<1> QED
  BY <1>11, <1>12, <1>13, <1>14, <1>15, <1>16, <1>17, <1>18, <1>19, <1>20, <1>21 DEF TaskStep

\* RoomForTask keeps its word: a request that goes on finds an attempt.
LEMMA FiniteSetsOfRuns ==
    /\ IsFiniteSet(Starting) /\ IsFiniteSet(Asking) /\ IsFiniteSet(FreeAttempts)
    /\ Cardinality(Starting) \in Nat /\ Cardinality(Asking) \in Nat
    /\ Cardinality(FreeAttempts) \in Nat
<1>1. IsFiniteSet(Starting)
  BY RuntimeAssumption, FS_Subset DEF Starting, Runs
<1>2. IsFiniteSet(Asking)
  BY RunsAssumption, FS_Subset DEF Asking
<1>3. IsFiniteSet(FreeAttempts)
  <2>1. IsFiniteSet(1..MaxAttempts) /\ FreeAttempts \subseteq 1..MaxAttempts
    BY FS_Interval, RunsAssumption DEF FreeAttempts, Attempts
  <2> QED
    BY <2>1, FS_Subset
<1> QED
  BY <1>1, <1>2, <1>3, FS_CardinalityType

LEMMA AttemptLeft ==
    ASSUME Reserved, Starting # {} \/ Asking # {}
    PROVE  NextAttempt \in Attempts /\ att[NextAttempt].pc = "unused"
<1>1. Cardinality(Starting) > 0 \/ Cardinality(Asking) > 0
  BY FiniteSetsOfRuns, FS_EmptySet
<1>2. Cardinality(FreeAttempts) > 0
  BY <1>1, FiniteSetsOfRuns DEF Reserved
<1>3. FreeAttempts # {}
  BY <1>2, FS_EmptySet
<1>4. NextAttempt \in FreeAttempts
  BY <1>3 DEF NextAttempt
<1> QED
  BY <1>4 DEF FreeAttempts

\* The rest of the type invariant.
RequestVarsType ==
    /\ creating \in [Runs -> {"none", "saving", "failing", "done"}]
    /\ cancels \in [Cancellers -> {"idle", "saving", "done"}]
    /\ resumes \in [Resumers -> ResumeCall]
    /\ poll \in [copy : [Runs -> Record \cup {None}], todo : SUBSET Runs, busy : BOOLEAN]
    /\ stops \in 0..MaxStops
    /\ stopping \in BOOLEAN

LEMMA TypeParts ==
    /\ TypeOK <=> RuntimeTypeOK /\ StoreType /\ TaskVarsType /\ RequestVarsType
    /\ TypeOK' <=> RuntimeTypeOK' /\ StoreType' /\ TaskVarsType' /\ RequestVarsType'
BY DEF TypeOK, StoreType, TaskVarsType, RequestVarsType

LEMMA PartsKept ==
    /\ RuntimeTypeOK /\ UNCHANGED runtimeVars => RuntimeTypeOK'
    /\ StoreType /\ UNCHANGED <<store, writes>> => StoreType'
    /\ TaskVarsType /\ UNCHANGED taskVars => TaskVarsType'
    /\ RequestVarsType /\ UNCHANGED <<requestVars, lifeVars>> => RequestVarsType'
BY DEF runtimeVars, RuntimeTypeOK, StoreType, taskVars, TaskVarsType, RequestVarsType,
       requestVars, lifeVars

LEMMA CreateRunType ==
    ASSUME Shape, NEW r \in Runs, CreateRun(r) \/ LaunchRun(r) \/ RunRefused(r)
    PROVE  TypeOK'
<1>1. RuntimeTypeOK /\ StoreType /\ TaskVarsType /\ RequestVarsType /\ TypeOK
  BY TypeParts DEF Shape
<1>2. <<"create", r>> \in Actors
  BY DEF Actors
<1>3. NewRecord \in Record /\ [NewRecord EXCEPT !.status = "failed"] \in Record
  BY RecordTypes DEF TerminalStatuses
<1>4. /\ RuntimeTypeOK'
      /\ UNCHANGED <<cancels, resumes, poll, lifeVars>>
  BY <1>1, RuntimeTypeStep DEF RuntimeStep, StreamCall, Runs, CreateRun, LaunchRun, RunRefused
<1>5. StoreType'
  BY <1>1, <1>2, <1>3, SaveTypes DEF StoreType, CreateRun, LaunchRun, RunRefused, RefuseRun
<1>6. creating' \in [Runs -> {"none", "saving", "failing", "done"}]
  BY <1>1 DEF RequestVarsType, CreateRun, LaunchRun, RunRefused, RefuseRun, StartTask
<1>7. TaskVarsType'
  <2>1. CASE UNCHANGED taskVars
    BY <1>1, <2>1 DEF taskVars, TaskVarsType
  <2>2. CASE creating[r] = "saving" /\ StartTask(r)
    <3>1. NextAttempt \in Attempts
      BY <2>2, AttemptLeft DEF Shape, Starting
    <3>2. 0 \in 0..MaxCheckpoints /\ NextAttempt \in 0..MaxAttempts
      BY <3>1, RunsAssumption DEF Attempts
    <3>3. NewAttempt(r, NewRecord, 0) \in Attempt
      BY <1>3, <3>2, AttemptTypes
    <3> QED
      BY <1>1, <2>2, <3>1, <3>2, <3>3 DEF StartTask, TaskVarsType
  <2> QED
    BY <2>1, <2>2 DEF CreateRun, LaunchRun, RunRefused
<1>8. RequestVarsType'
  BY <1>1, <1>4, <1>6 DEF RequestVarsType, lifeVars
<1> QED
  BY <1>4, <1>5, <1>7, <1>8, TypeParts

LEMMA CancelType ==
    ASSUME Shape, NEW c \in Cancellers,
           CancelSaved(c) \/ \E r \in Runs : Cancel(c, r)
    PROVE  TypeOK'
<1>1. RuntimeTypeOK /\ StoreType /\ TaskVarsType /\ RequestVarsType /\ TypeOK
  BY TypeParts DEF Shape
<1>2. <<"cancel", c>> \in Actors
  BY DEF Actors
<1>3. CASE CancelSaved(c)
  <2>1. StoreType'
    BY <1>1, <1>3, SavedType DEF CancelSaved, Saved, Turn, StoreType
  <2>2. RequestVarsType'
    BY <1>1, <1>3 DEF CancelSaved, RequestVarsType, lifeVars
  <2> QED
    BY <1>1, <1>3, <2>1, <2>2, TypeParts, PartsKept DEF CancelSaved
<1>4. ASSUME NEW r \in Runs, Cancel(c, r)
      PROVE  TypeOK'
  <2>1. [store[r] EXCEPT !.status = "cancelled"] \in Record
    BY <1>1, <1>4, RecordTypes DEF Cancel, StoreType, TerminalStatuses
  <2>2. StoreType'
    BY <1>1, <1>2, <1>4, <2>1, SaveTypes DEF Cancel, StoreType
  <2>3. TaskVarsType'
    <3>1. CASE flags[r] # 0
      <4>1. flags[r] \in Attempts /\ att[flags[r]] \in Attempt
        BY <1>1, <3>1, RunsAssumption DEF TaskVarsType, Attempts
      <4>2. [att[flags[r]] EXCEPT !.flag = TRUE] \in Attempt
        BY <4>1 DEF Attempt
      <4>3. att' = [att EXCEPT ![flags[r]] = [att[flags[r]] EXCEPT !.flag = TRUE]]
        BY <1>4, <3>1 DEF Cancel, SetFlag
      <4> QED
        BY <1>1, <1>4, <4>1, <4>2, <4>3 DEF Cancel, KeepRegistered, TaskVarsType
    <3>2. CASE flags[r] = 0
      BY <1>1, <1>4, <3>2 DEF Cancel, SetFlag, KeepRegistered, TaskVarsType
    <3> QED
      BY <3>1, <3>2
  <2>4. RequestVarsType'
    BY <1>1, <1>4 DEF Cancel, RequestVarsType, lifeVars
  <2> QED
    BY <1>1, <1>4, <2>2, <2>3, <2>4, TypeParts, PartsKept DEF Cancel
<1> QED
  BY <1>3, <1>4

LEMMA ResumeType ==
    ASSUME Shape, NEW q \in Resumers,
           \/ \E r \in Runs : ResumeRequest(q, r)
           \/ ResumeRejected(q) \/ ResumePrepare(q) \/ ResumeLaunch(q)
    PROVE  TypeOK'
<1>1. RuntimeTypeOK /\ StoreType /\ TaskVarsType /\ RequestVarsType /\ TypeOK
  BY TypeParts DEF Shape
<1>2. <<"resume", q>> \in Actors
  BY DEF Actors
<1>3. /\ resumes[q] \in ResumeCall
      /\ resumes[q].pc \in {"getwf", "saving"} => resumes[q].run \in Runs
      /\ [resumes[q] EXCEPT !.pc = "done"] \in ResumeCall
  BY <1>1 DEF RequestVarsType, Shape, RunsKnown, ResumeCall
<1>4. ASSUME NEW r \in Runs, ResumeRequest(q, r)
      PROVE  TypeOK'
  <2>1. PICK explicit \in 0..ckpts[r] :
          resumes' = [resumes EXCEPT ![q] = [IdleResume EXCEPT
              !.pc = "getwf", !.run = r, !.explicit = explicit, !.rec = store[r]]]
    BY <1>4 DEF ResumeRequest
  <2>2. store[r] \in Record
    BY <1>1, <1>4 DEF StoreType, ResumeRequest
  <2>3. explicit \in 0..MaxCheckpoints /\ 0 \in 0..MaxCheckpoints /\ 0 \in 0..MaxAttempts
    <3>1. ckpts[r] \in 0..MaxCheckpoints
      BY <1>1 DEF TaskVarsType
    <3> QED
      BY <3>1, RunsAssumption
  <2>4. [IdleResume EXCEPT !.pc = "getwf", !.run = r, !.explicit = explicit, !.rec = store[r]]
          \in ResumeCall
    BY <2>2, <2>3 DEF IdleResume, ResumeCall
  <2>5. RequestVarsType'
    BY <1>1, <1>4, <2>1, <2>4 DEF ResumeRequest, RequestVarsType, lifeVars
  <2> QED
    BY <1>1, <1>4, <2>5, TypeParts, PartsKept DEF ResumeRequest
<1>5. CASE ResumeRejected(q)
  <2>1. RequestVarsType'
    BY <1>1, <1>3, <1>5 DEF ResumeRejected, ResumeDone, RequestVarsType, lifeVars
  <2> QED
    BY <1>1, <1>5, <2>1, TypeParts, PartsKept DEF ResumeRejected
<1>6. CASE ResumePrepare(q)
  <2> DEFINE r == resumes[q].run
             from == ResumeFrom(resumes[q].explicit, resumes[q].rec)
             rec == [resumes[q].rec EXCEPT !.status = "running",
                                           !.sticky = IF from # 0 THEN from ELSE @]
             t == NextAttempt
  <2>1. r \in Runs /\ resumes[q].rec \in Record /\ resumes[q].explicit \in 0..MaxCheckpoints
    BY <1>3, <1>6 DEF ResumePrepare, ResumeCall
  <2>2. from \in 0..MaxCheckpoints
    BY <2>1 DEF ResumeFrom, FirstGiven, Record
  <2>3. rec \in Record
    <3> HIDE DEF from
    <3> QED
      BY <2>1, <2>2 DEF Record, ActiveStatuses
  <2>4. t \in Attempts /\ t \in 0..MaxAttempts
    BY <1>6, AttemptLeft, RunsAssumption DEF ResumePrepare, Shape, Asking, Attempts
  <2>5. \/ /\ CreateStream(r)
           /\ flags' = [flags EXCEPT ![r] = t]
           /\ att' = [att EXCEPT ![t] = [NewAttempt(r, rec, from) EXCEPT !.pc = "dead"]]
           /\ resumes' = [resumes EXCEPT ![q] = [@ EXCEPT !.pc = "saving", !.rec = rec,
                                                    !.t = t, !.from = from]]
           /\ Save(<<"resume", q>>, r, rec)
           /\ UNCHANGED <<tasks, ckpts>>
        \/ /\ Lookup
           /\ ResumeDone(q)
           /\ UNCHANGED <<store, writes, taskVars>>
    BY <1>6 DEF ResumePrepare
  <2>6. RuntimeTypeOK'
    <3> HIDE DEF r
    <3> QED
      BY <1>1, <2>1, <2>5, RuntimeTypeStep DEF RuntimeStep, StreamCall, Runs
  <2> HIDE DEF r, from, rec, t
  <2>7. StoreType' /\ TaskVarsType'
    <3>1. [NewAttempt(r, rec, from) EXCEPT !.pc = "dead"] \in Attempt
      BY <2>1, <2>2, <2>3, AttemptTypes
    <3> QED
      BY <1>1, <1>2, <2>1, <2>3, <2>4, <2>5, <3>1, SaveTypes DEF StoreType, TaskVarsType, taskVars
  <2>8. resumes' \in [Resumers -> ResumeCall]
    <3>1. [resumes[q] EXCEPT !.pc = "saving", !.rec = rec, !.t = t, !.from = from] \in ResumeCall
      BY <1>3, <2>2, <2>3, <2>4 DEF ResumeCall
    <3> QED
      BY <1>1, <1>3, <2>5, <3>1 DEF RequestVarsType, ResumeDone
  <2>9. RequestVarsType'
    BY <1>1, <1>6, <2>8 DEF ResumePrepare, RequestVarsType, lifeVars
  <2> QED
    BY <2>6, <2>7, <2>9, TypeParts
<1>7. CASE ResumeLaunch(q)
  <2> DEFINE r == resumes[q].run
             t == resumes[q].t
  <2>1. r \in Runs /\ t \in Attempts /\ t \in 0..MaxAttempts /\ resumes[q].rec \in Record
    BY <1>3, <1>7, RunsAssumption DEF ResumeLaunch, Shape, RunsKnown, Attempts, ResumeCall
  <2>2. att' = [att EXCEPT ![t].pc = "start"] /\ tasks' = [tasks EXCEPT ![r] = t]
        /\ UNCHANGED <<flags, ckpts>> /\ Saved(<<"resume", q>>)
    BY <1>7 DEF ResumeLaunch
  <2>3. StoreType'
    BY <1>1, <1>2, <2>1, <2>2, SaveTypes DEF StoreType
  <2> HIDE DEF r, t
  <2>4. [att[t] EXCEPT !.pc = "start"] \in Attempt
    BY <1>1, <2>1, AttemptTypes DEF TaskVarsType, TaskStates
  <2>5. TaskVarsType'
    BY <1>1, <2>1, <2>2, <2>4 DEF TaskVarsType
  <2>6. RequestVarsType'
    BY <1>1, <1>3, <1>7 DEF ResumeLaunch, ResumeDone, RequestVarsType, lifeVars
  <2> QED
    BY <1>1, <1>7, <2>3, <2>5, <2>6, TypeParts, PartsKept DEF ResumeLaunch
<1> QED
  BY <1>4, <1>5, <1>6, <1>7

LEMMA PollType ==
    ASSUME Shape, Poll \/ PollSaved
    PROVE  TypeOK'
<1>1. RuntimeTypeOK /\ StoreType /\ TaskVarsType /\ RequestVarsType /\ TypeOK
  BY TypeParts DEF Shape
<1>2. <<"poll", None>> \in Actors
  BY DEF Actors
<1>3. IdlePoll \in [copy : [Runs -> Record \cup {None}], todo : SUBSET Runs, busy : BOOLEAN]
  BY RecordTypes DEF IdlePoll
<1>4. ASSUME NEW copy \in [Runs -> Record \cup {None}], NEW todo \in SUBSET Runs, NEW r \in todo,
             NEW rest, NextOrphan(copy, todo, rest, r),
             \/ Save(<<"poll", None>>, r, [copy[r] EXCEPT !.status = "failed"])
             \/ SavedThenSave(<<"poll", None>>, r, [copy[r] EXCEPT !.status = "failed"])
      PROVE  StoreType' /\ poll' \in [copy : [Runs -> Record \cup {None}], todo : SUBSET Runs, busy : BOOLEAN]
  <2>1. [copy[r] EXCEPT !.status = "failed"] \in Record
    BY <1>4, RecordTypes DEF NextOrphan, Orphan, TerminalStatuses
  <2>2. StoreType'
    BY <1>1, <1>2, <1>4, <2>1, SaveTypes DEF StoreType
  <2> QED
    BY <1>4, <2>2 DEF NextOrphan
<1>5. StoreType' /\ poll' \in [copy : [Runs -> Record \cup {None}], todo : SUBSET Runs, busy : BOOLEAN]
  <2>1. CASE Poll
    BY <1>1, <1>4, <2>1 DEF Poll, StoreType
  <2>2. CASE PollSaved
    <3>1. CASE Saved(<<"poll", None>>) /\ poll' = IdlePoll
      BY <1>1, <1>3, <3>1, SavedType DEF Saved, Turn, StoreType
    <3>2. ASSUME NEW r \in poll.todo, NEW rest \in SUBSET poll.todo,
                 NextOrphan(poll.copy, poll.todo, rest, r),
                 SavedThenSave(<<"poll", None>>, r, [poll.copy[r] EXCEPT !.status = "failed"])
          PROVE  StoreType' /\ poll' \in [copy : [Runs -> Record \cup {None}], todo : SUBSET Runs, busy : BOOLEAN]
      BY <1>1, <1>4, <3>2 DEF RequestVarsType
    <3> QED
      BY <2>2, <3>1, <3>2 DEF PollSaved
  <2> QED
    BY <2>1, <2>2
<1>6. UNCHANGED <<runtimeVars, taskVars, creating, cancels, resumes, lifeVars>>
  BY DEF Poll, PollSaved
<1>7. RequestVarsType'
  BY <1>1, <1>5, <1>6 DEF RequestVarsType, lifeVars
<1> QED
  BY <1>1, <1>5, <1>6, <1>7, TypeParts, PartsKept

\* The process stops.
LEMMA RestartType ==
    ASSUME Shape, Restart, stops' \in 0..MaxStops
    PROVE  TypeOK'
<1>1. RuntimeTypeOK /\ StoreType /\ TaskVarsType /\ RequestVarsType
  BY TypeParts DEF Shape
<1>2. RuntimeTypeOK'
  BY <1>1 DEF Restart, RuntimeTypeOK
<1>3. StoreType'
  BY <1>1, EmptySeq DEF Restart, StoreType
<1>4. TaskVarsType'
  <2>1. 0 \in 0..MaxAttempts
    BY RunsAssumption
  <2>2. tasks' \in [Runs -> 0..MaxAttempts] /\ flags' \in [Runs -> 0..MaxAttempts]
    BY <2>1 DEF Restart
  <2>3. att' \in [Attempts -> Attempt]
    BY <1>1, AttemptTypes DEF Restart, TaskVarsType
  <2> QED
    BY <1>1, <2>2, <2>3 DEF Restart, TaskVarsType
<1>5. RequestVarsType'
  <2>1. IdleResume \in ResumeCall /\ [IdleResume EXCEPT !.pc = "done"] \in ResumeCall
    BY RecordTypes, RunsAssumption DEF IdleResume, ResumeCall
  <2>2. IdlePoll \in [copy : [Runs -> Record \cup {None}], todo : SUBSET Runs, busy : BOOLEAN]
    BY RecordTypes DEF IdlePoll
  <2>3. resumes' \in [Resumers -> ResumeCall]
    BY <2>1 DEF Restart
  <2>4. creating' \in [Runs -> {"none", "saving", "failing", "done"}]
        /\ cancels' \in [Cancellers -> {"idle", "saving", "done"}]
    BY DEF Restart
  <2> QED
    BY <2>2, <2>3, <2>4 DEF Restart, RequestVarsType
<1> QED
  BY <1>2, <1>3, <1>4, <1>5, TypeParts

LEMMA ShutdownType ==
    ASSUME Shape, Shutdown
    PROVE  TypeOK'
<1>1. RuntimeTypeOK /\ StoreType /\ TaskVarsType /\ RequestVarsType
  BY TypeParts DEF Shape
<1>2. StoreType'
  BY <1>1, EmptySeq DEF Shutdown, StoreType
<1>3. TaskVarsType'
  <2>1. \A a \in Attempt : CancelledTask(a) \in Attempt
    BY AttemptTypes DEF CancelledTask, TaskStates
  <2> QED
    BY <1>1, <2>1 DEF Shutdown, TaskVarsType
<1>4. RequestVarsType'
  <2>1. IdleResume \in ResumeCall /\ [IdleResume EXCEPT !.pc = "done"] \in ResumeCall
    BY RecordTypes, RunsAssumption DEF IdleResume, ResumeCall
  <2>2. IdlePoll \in [copy : [Runs -> Record \cup {None}], todo : SUBSET Runs, busy : BOOLEAN]
    BY RecordTypes DEF IdlePoll
  <2>3. resumes' \in [Resumers -> ResumeCall]
    BY <2>1 DEF Shutdown
  <2>4. creating' \in [Runs -> {"none", "saving", "failing", "done"}]
        /\ cancels' \in [Cancellers -> {"idle", "saving", "done"}]
    BY DEF Shutdown
  <2>5. stops' \in 0..MaxStops
    BY <1>1, RunsAssumption DEF Shutdown, RequestVarsType
  <2> QED
    BY <2>2, <2>3, <2>4, <2>5 DEF Shutdown, RequestVarsType
<1> QED
  BY <1>1, <1>2, <1>3, <1>4, TypeParts, PartsKept DEF Shutdown

LEMMA TypeStep ==
    ASSUME Shape, [Next]_vars
    PROVE  TypeOK'
<1>1. RuntimeTypeOK /\ StoreType /\ TaskVarsType /\ RequestVarsType /\ TypeOK
  BY TypeParts DEF Shape
<1>2. CASE Crash
  <2>1. stops' \in 0..MaxStops
    BY <1>1, <1>2, RunsAssumption DEF Crash, RequestVarsType
  <2> QED
    BY <1>2, <2>1, RestartType DEF Crash
<1>3. CASE ShutdownOver
  BY <1>1, <1>3, RestartType DEF ShutdownOver, RequestVarsType
<1>4. CASE Tick /\ UNCHANGED <<store, writes, taskVars, requestVars, lifeVars>>
  <2>1. RuntimeTypeOK'
    BY <1>1, <1>4, RuntimeTypeStep DEF RuntimeStep
  <2> QED
    BY <1>1, <1>4, <2>1, TypeParts, PartsKept
<1>5. CASE UNCHANGED vars
  BY <1>1, <1>5, TypeParts, PartsKept DEF vars
<1> QED
  BY <1>2, <1>3, <1>4, <1>5, TaskType, CreateRunType, CancelType, ResumeType, PollType, ShutdownType
     DEF Next, RequestStep

-----------------------------------------------------------------------------
(* What a step of a task does *)

Leaving == {"finished", "dead"}

\* The ways through _run_workflow_task.
Moves == {<<"start", "aborting">>, <<"start", "getwf">>, <<"getwf", "aborting">>,
          <<"getwf", "marking">>, <<"aborting", "finished">>, <<"marking", "starting">>,
          <<"marking", "dead">>, <<"starting", "consuming">>, <<"recording", "consuming">>,
          <<"consuming", "recording">>, <<"consuming", "closing">>,
          <<"closing", "finalizing">>, <<"finalizing", "ending">>,
          <<"finalizing", "finished">>, <<"finalizing", "dead">>, <<"ending", "finished">>}

Registration(t) ==
    IF att'[t].pc \in Leaving
    THEN /\ tasks' = [tasks EXCEPT ![att[t].run] = 0]
         /\ flags' = [flags EXCEPT ![att[t].run] = 0]
    ELSE UNCHANGED <<tasks, flags>>

LEMMA TaskMoves ==
    ASSUME att \in [Attempts -> Attempt], NEW t \in Attempts, TaskStep(t)
    PROVE  /\ <<att[t].pc, att'[t].pc>> \in Moves
           /\ att'[t].run = att[t].run
           /\ \A u \in Attempts \ {t} : att'[u] = att[u]
           /\ Registration(t)
           /\ UNCHANGED <<requestVars, lifeVars>>
<1> USE DEF InState
<1>0. att[t] \in Attempt
  OBVIOUS
<1>1. ASSUME NEW pc \in TaskStates \ Leaving, KeepRegistered,
             Goto(t, pc) \/ \E rec : GotoWith(t, pc, rec)
      PROVE  /\ att'[t].pc = pc /\ att'[t].run = att[t].run
             /\ \A u \in Attempts \ {t} : att'[u] = att[u]
             /\ Registration(t)
  <2>1. att'[t].pc = pc /\ att'[t].run = att[t].run /\ \A u \in Attempts \ {t} : att'[u] = att[u]
    BY <1>0, <1>1 DEF Goto, GotoWith, Attempt
  <2> QED
    BY <1>1, <2>1 DEF Registration, KeepRegistered
<1>2. ASSUME NEW pc \in Leaving, Leave(t, pc)
      PROVE  /\ att'[t].pc = pc /\ att'[t].run = att[t].run
             /\ \A u \in Attempts \ {t} : att'[u] = att[u]
             /\ Registration(t)
  <2>1. att'[t].pc = pc /\ att'[t].run = att[t].run /\ \A u \in Attempts \ {t} : att'[u] = att[u]
    BY <1>0, <1>2 DEF Leave, Attempt
  <2> QED
    BY <1>2, <2>1 DEF Registration, Leave
<1> DEFINE Goal == /\ <<att[t].pc, att'[t].pc>> \in Moves
                   /\ att'[t].run = att[t].run
                   /\ \A u \in Attempts \ {t} : att'[u] = att[u]
                   /\ Registration(t)
                   /\ UNCHANGED <<requestVars, lifeVars>>
<1>4. CASE TaskStart(t)
  BY <1>1, <1>4 DEF TaskStart, TaskStates, Leaving, Moves
<1>5. CASE TaskMark(t)
  BY <1>1, <1>5 DEF TaskMark, TaskStates, Leaving, Moves
<1>6. CASE TaskAborted(t) \/ TaskEnds(t)
  BY <1>2, <1>6 DEF TaskAborted, TaskEnds, Leaving, Moves
<1>7. CASE TaskStarted(t)
  BY <1>1, <1>2, <1>7 DEF TaskStarted, TaskStates, Leaving, Moves
<1>8. CASE TaskAwaits(t)
  BY <1>1, <1>8 DEF TaskAwaits, TaskStates, Leaving, Moves
<1>9. CASE TaskFinalize(t)
  <2>1. /\ att'[t].pc = "finalizing" /\ att'[t].run = att[t].run
        /\ \A u \in Attempts \ {t} : att'[u] = att[u]
    BY <1>0, <1>9 DEF TaskFinalize, Attempt
  <2> QED
    BY <1>9, <2>1 DEF TaskFinalize, KeepRegistered, Registration, Leaving, Moves
<1>10. CASE TaskEnsureEnded(t)
  BY <1>1, <1>2, <1>10 DEF TaskEnsureEnded, TaskStates, Leaving, Moves
<1>11. CASE TaskCancelled(t) \/ TaskProgress(t) \/ TaskWorkflowFinished(t) \/ TaskFailed(t)
  <2>1. /\ att[t].pc = "consuming" /\ att'[t].pc \in {"closing", "recording"}
        /\ att'[t].run = att[t].run
        /\ \A u \in Attempts \ {t} : att'[u] = att[u]
    <3>1. CASE TaskCancelled(t)
      BY <1>0, <3>1 DEF TaskCancelled, GotoWith, Attempt
    <3>2. CASE TaskProgress(t)
      BY <1>0, <3>2 DEF TaskProgress, GotoWith, Attempt
    <3>3. CASE TaskWorkflowFinished(t)
      BY <1>0, <3>3 DEF TaskWorkflowFinished, Attempt
    <3>4. CASE TaskFailed(t)
      <4>1. CASE att' = [att EXCEPT ![t] = [@ EXCEPT !.pc = "closing", !.term = TRUE,
                                                     !.rec.status = "failed"]]
        BY <1>0, <3>4, <4>1 DEF TaskFailed, Attempt
      <4>2. CASE GotoWith(t, "closing", Rec(t, "failed"))
        BY <1>0, <3>4, <4>2 DEF TaskFailed, GotoWith, Attempt
      <4> QED
        BY <3>4, <4>1, <4>2 DEF TaskFailed
    <3> QED
      BY <1>11, <3>1, <3>2, <3>3, <3>4
  <2> QED
    BY <1>11, <2>1
       DEF TaskCancelled, TaskProgress, TaskWorkflowFinished, TaskFailed,
           Registration, Leaving, Moves
<1> QED
  BY <1>4, <1>5, <1>6, <1>7, <1>8, <1>9, <1>10, <1>11 DEF TaskStep

LEMMA TaskRunsKnown ==
    ASSUME Shape, NEW t \in Attempts, TaskStep(t)
    PROVE  RunsKnown' /\ Reserved'
<1>1. att \in [Attempts -> Attempt]
  BY DEF Shape, TypeOK
<1>2. /\ <<att[t].pc, att'[t].pc>> \in Moves
      /\ att'[t].run = att[t].run
      /\ \A u \in Attempts \ {t} : att'[u] = att[u]
      /\ UNCHANGED <<creating, resumes>>
  BY <1>1, TaskMoves DEF requestVars
<1>3. att[t].pc \notin {"unused", "dead"} /\ att'[t].pc # "unused"
  BY <1>2 DEF Moves
<1>4. RunsKnown'
  <2>1. \A u \in Attempts : /\ att'[u].run = att[u].run
                            /\ att'[u].pc \notin {"unused", "dead"} => att[u].pc \notin {"unused", "dead"}
                            /\ att[u].pc # "unused" => att'[u].pc # "unused"
    BY <1>2, <1>3
  <2> QED
    BY <1>2, <2>1 DEF Shape, RunsKnown
<1>5. FreeAttempts' = FreeAttempts /\ Starting' = Starting /\ Asking' = Asking
  BY <1>2, <1>3 DEF FreeAttempts, Starting, Asking
<1> QED
  BY <1>4, <1>5 DEF Shape, Reserved

-----------------------------------------------------------------------------
(* The types are an invariant *)

\* Nothing new waits for an attempt, and none is taken.
LEMMA ReservedKept ==
    ASSUME Reserved, Starting' \subseteq Starting, Asking' \subseteq Asking,
           FreeAttempts \subseteq FreeAttempts', RunsAssumption
    PROVE  Reserved'
<1>1. /\ Cardinality(Starting') \in Nat /\ Cardinality(Starting') <= Cardinality(Starting)
      /\ Cardinality(Asking') \in Nat /\ Cardinality(Asking') <= Cardinality(Asking)
  BY FiniteSetsOfRuns, FS_Subset, FS_CardinalityType
<1>2. IsFiniteSet(FreeAttempts')
  <2>1. IsFiniteSet(1..MaxAttempts) /\ FreeAttempts' \subseteq 1..MaxAttempts
    BY FS_Interval, RunsAssumption DEF FreeAttempts, Attempts
  <2> QED
    BY <2>1, FS_Subset
<1>3. Cardinality(FreeAttempts') \in Nat /\ Cardinality(FreeAttempts) <= Cardinality(FreeAttempts')
  BY <1>2, FiniteSetsOfRuns, FS_Subset, FS_CardinalityType
<1> QED
  BY <1>1, <1>3, FiniteSetsOfRuns DEF Reserved

\* A request that asks for an attempt found room for it.
LEMMA ReservedMore ==
    ASSUME Reserved, RoomForTask, FreeAttempts' = FreeAttempts,
           \/ \E r \in Runs : Starting' = Starting \cup {r} /\ Asking' = Asking
           \/ \E q \in Resumers : Asking' = Asking \cup {q} /\ Starting' = Starting
    PROVE  Reserved'
<1>1. Cardinality(Starting) + Cardinality(Asking) < Cardinality(FreeAttempts)
  BY DEF RoomForTask, Starting, Asking
<1>2. \A S, x : IsFiniteSet(S) /\ Cardinality(S) \in Nat
                  => /\ Cardinality(S \cup {x}) \in Nat
                     /\ Cardinality(S \cup {x}) <= Cardinality(S) + 1
  <2> SUFFICES ASSUME NEW S, NEW x, IsFiniteSet(S), Cardinality(S) \in Nat
               PROVE  /\ Cardinality(S \cup {x}) \in Nat
                      /\ Cardinality(S \cup {x}) <= Cardinality(S) + 1
    OBVIOUS
  <2>1. IsFiniteSet(S \cup {x}) /\ Cardinality(S \cup {x})
           = IF x \in S THEN Cardinality(S) ELSE Cardinality(S) + 1
    BY FS_AddElement
  <2> QED
    BY <2>1
<1>3. CASE \E r \in Runs : Starting' = Starting \cup {r} /\ Asking' = Asking
  <2>1. Cardinality(Starting') \in Nat /\ Cardinality(Starting') <= Cardinality(Starting) + 1
        /\ Cardinality(Asking') = Cardinality(Asking)
    BY <1>2, <1>3, FiniteSetsOfRuns
  <2>2. Cardinality(FreeAttempts') = Cardinality(FreeAttempts)
    OBVIOUS
  <2> QED
    BY <1>1, <2>1, <2>2, FiniteSetsOfRuns DEF Reserved
<1>4. CASE \E q \in Resumers : Asking' = Asking \cup {q} /\ Starting' = Starting
  <2>1. Cardinality(Asking') \in Nat /\ Cardinality(Asking') <= Cardinality(Asking) + 1
        /\ Cardinality(Starting') = Cardinality(Starting)
    BY <1>2, <1>4, FiniteSetsOfRuns
  <2>2. Cardinality(FreeAttempts') = Cardinality(FreeAttempts)
    OBVIOUS
  <2> QED
    BY <1>1, <2>1, <2>2, FiniteSetsOfRuns DEF Reserved
<1> QED
  BY <1>3, <1>4

\* A request that takes an attempt no longer asks for one.
LEMMA ReservedTaken ==
    ASSUME Reserved, NEW t \in FreeAttempts, FreeAttempts' = FreeAttempts \ {t},
           \/ \E r \in Starting : Starting' = Starting \ {r} /\ Asking' = Asking
           \/ \E q \in Asking : Asking' = Asking \ {q} /\ Starting' = Starting
    PROVE  Reserved'
<1>1. \A S : \A x \in S : IsFiniteSet(S) => Cardinality(S \ {x}) = Cardinality(S) - 1
  BY FS_RemoveElement
<1>2. Cardinality(FreeAttempts') = Cardinality(FreeAttempts) - 1
  BY <1>1, FiniteSetsOfRuns
<1>3. CASE \E r \in Starting : Starting' = Starting \ {r} /\ Asking' = Asking
  <2>1. Cardinality(Starting') = Cardinality(Starting) - 1
        /\ Cardinality(Asking') = Cardinality(Asking)
    BY <1>1, <1>3, FiniteSetsOfRuns
  <2> QED
    BY <1>2, <2>1, FiniteSetsOfRuns DEF Reserved
<1>4. CASE \E q \in Asking : Asking' = Asking \ {q} /\ Starting' = Starting
  <2>1. Cardinality(Asking') = Cardinality(Asking) - 1
        /\ Cardinality(Starting') = Cardinality(Starting)
    BY <1>1, <1>4, FiniteSetsOfRuns
  <2> QED
    BY <1>2, <2>1, FiniteSetsOfRuns DEF Reserved
<1> QED
  BY <1>3, <1>4

LEMMA CreateRunKnown ==
    ASSUME Shape, NEW r \in Runs, CreateRun(r) \/ LaunchRun(r) \/ RunRefused(r)
    PROVE  RunsKnown' /\ Reserved'
<1>1. TypeOK /\ RunsKnown /\ Reserved /\ resumes' = resumes
  BY DEF Shape, CreateRun, LaunchRun, RunRefused
<1>2. creating \in [Runs -> {"none", "saving", "failing", "done"}] /\ att \in [Attempts -> Attempt]
  BY <1>1 DEF TypeOK
<1>3. Asking' = Asking
  BY <1>1 DEF Asking
<1>4. CASE UNCHANGED att
  <2>1. RunsKnown'
    BY <1>1, <1>4 DEF RunsKnown
  <2>2. FreeAttempts' = FreeAttempts
    BY <1>4 DEF FreeAttempts
  <2>3. CASE CreateRun(r)
    <3>1. Starting' = Starting \cup {r} /\ RoomForTask
      BY <1>2, <2>3 DEF CreateRun, Starting
    <3> QED
      BY <1>1, <1>3, <2>1, <2>2, <3>1, ReservedMore
  <2>4. CASE ~CreateRun(r)
    <3>1. Starting' \subseteq Starting
      BY <1>2, <2>4 DEF LaunchRun, RunRefused, RefuseRun, StartTask, Starting
    <3> QED
      BY <1>1, <1>3, <2>1, <2>2, <3>1, ReservedKept, RunsAssumption
  <2> QED
    BY <2>3, <2>4
<1>5. CASE creating[r] = "saving" /\ StartTask(r)
  <2> DEFINE t == NextAttempt
  <2>1. t \in Attempts /\ att[t].pc = "unused"
    BY <1>1, <1>5, AttemptLeft DEF Starting
  <2>2. /\ att'[t].pc = "start" /\ att'[t].run = r
        /\ \A u \in Attempts \ {t} : att'[u] = att[u]
    BY <1>2, <1>5, <2>1 DEF StartTask, NewAttempt, Unused
  <2> HIDE DEF t
  <2>3. RunsKnown'
    BY <1>1, <2>1, <2>2 DEF RunsKnown
  <2>4. t \in FreeAttempts /\ FreeAttempts' = FreeAttempts \ {t}
    BY <2>1, <2>2 DEF FreeAttempts
  <2>5. r \in Starting /\ Starting' = Starting \ {r}
    BY <1>2, <1>5 DEF StartTask, Starting
  <2> QED
    BY <1>1, <1>3, <2>3, <2>4, <2>5, ReservedTaken
<1> QED
  BY <1>4, <1>5 DEF CreateRun, LaunchRun, RunRefused, taskVars

\* The stream is open and the request waits for its save, or it has ended.
Prepared(q, rec, from) ==
    LET r == resumes[q].run
    IN  /\ CreateStream(r)
        /\ flags' = [flags EXCEPT ![r] = NextAttempt]
        /\ att' = [att EXCEPT ![NextAttempt] = [NewAttempt(r, rec, from) EXCEPT !.pc = "dead"]]
        /\ resumes' = [resumes EXCEPT ![q] = [@ EXCEPT !.pc = "saving", !.rec = rec,
                                                 !.t = NextAttempt, !.from = from]]
        /\ Save(<<"resume", q>>, r, rec)
        /\ UNCHANGED <<tasks, ckpts>>
        /\ rec.status = "running"

LEMMA PrepareEffect ==
    ASSUME TypeOK, NEW q \in Resumers, ResumePrepare(q)
    PROVE  /\ resumes[q].pc = "getwf"
           /\ \/ \E rec, from : Prepared(q, rec, from)
              \/ Lookup /\ ResumeDone(q) /\ UNCHANGED <<store, writes, tasks, flags, att, ckpts>>
<1> DEFINE from == ResumeFrom(resumes[q].explicit, resumes[q].rec)
           rec == [resumes[q].rec EXCEPT !.status = "running",
                                         !.sticky = IF from # 0 THEN from ELSE @]
<1>1. resumes[q].rec \in Record
  BY DEF TypeOK, ResumeCall
<1>2. rec.status = "running"
  BY <1>1 DEF Record
<1>3. \/ Prepared(q, rec, from)
      \/ Lookup /\ ResumeDone(q) /\ UNCHANGED <<store, writes, tasks, flags, att, ckpts>>
  <2>1. CASE CreateStream(resumes[q].run) /\ Save(<<"resume", q>>, resumes[q].run, rec)
    BY <1>2, <2>1 DEF ResumePrepare, Prepared, Overloaded, CreateStream, ReuseStream, AddStream
  <2>2. CASE ~(CreateStream(resumes[q].run) /\ Save(<<"resume", q>>, resumes[q].run, rec))
    BY <2>2 DEF ResumePrepare, taskVars
  <2> QED
    BY <2>1, <2>2
<1> QED
  BY <1>3 DEF ResumePrepare

LEMMA ResumeKnown ==
    ASSUME Shape, NEW q \in Resumers,
           \/ \E r \in Runs : ResumeRequest(q, r)
           \/ ResumeRejected(q) \/ ResumePrepare(q) \/ ResumeLaunch(q)
    PROVE  RunsKnown' /\ Reserved'
<1>1. TypeOK /\ RunsKnown /\ Reserved /\ creating' = creating
  BY DEF Shape, ResumeRequest, ResumeRejected, ResumePrepare, ResumeLaunch
<1>2. resumes \in [Resumers -> ResumeCall] /\ att \in [Attempts -> Attempt] /\ resumes[q] \in ResumeCall
  BY <1>1 DEF TypeOK
<1>3. Starting' = Starting
  BY <1>1 DEF Starting
<1>4. ASSUME NEW r \in Runs, ResumeRequest(q, r)
      PROVE  RunsKnown' /\ Reserved'
  <2>1. /\ resumes'[q].pc = "getwf" /\ resumes'[q].run = r
        /\ \A p \in Resumers \ {q} : resumes'[p] = resumes[p]
        /\ att' = att /\ RoomForTask
    BY <1>2, <1>4 DEF ResumeRequest, IdleResume, taskVars
  <2>2. RunsKnown'
    BY <1>1, <2>1 DEF RunsKnown
  <2>3. FreeAttempts' = FreeAttempts /\ Asking' = Asking \cup {q}
    BY <2>1 DEF FreeAttempts, Asking
  <2> QED
    BY <1>1, <1>3, <2>1, <2>2, <2>3, ReservedMore
<1>5. CASE ResumeDone(q) /\ att' = att
  <2>1. /\ resumes'[q].pc = "done"
        /\ \A p \in Resumers \ {q} : resumes'[p] = resumes[p]
    BY <1>2, <1>5 DEF ResumeDone, ResumeCall
  <2>2. RunsKnown'
    BY <1>1, <1>5, <2>1 DEF RunsKnown
  <2>3. FreeAttempts' = FreeAttempts /\ Asking' \subseteq Asking
    BY <1>5, <2>1 DEF FreeAttempts, Asking
  <2> QED
    BY <1>1, <1>3, <2>2, <2>3, ReservedKept, RunsAssumption
<1>6. ASSUME NEW rec, NEW from, resumes[q].pc = "getwf", Prepared(q, rec, from)
      PROVE  RunsKnown' /\ Reserved'
  <2> DEFINE r == resumes[q].run
             t == NextAttempt
  <2>1. resumes[q].pc = "getwf" /\ r \in Runs
    BY <1>1, <1>6 DEF RunsKnown
  <2>2. t \in Attempts /\ att[t].pc = "unused"
    BY <1>1, <2>1, AttemptLeft DEF Asking
  <2>3. /\ att'[t].pc = "dead" /\ att'[t].run = r
        /\ \A u \in Attempts \ {t} : att'[u] = att[u]
    BY <1>2, <1>6, <2>2 DEF Prepared, NewAttempt, Unused
  <2>4. /\ resumes'[q].pc = "saving" /\ resumes'[q].run = r /\ resumes'[q].t = t
        /\ \A p \in Resumers \ {q} : resumes'[p] = resumes[p]
    BY <1>2, <1>6 DEF Prepared, ResumeCall
  <2> HIDE DEF t, r
  <2>5. RunsKnown'
    BY <1>1, <2>1, <2>2, <2>3, <2>4 DEF RunsKnown
  <2>6. t \in FreeAttempts /\ FreeAttempts' = FreeAttempts \ {t}
    BY <2>2, <2>3 DEF FreeAttempts
  <2>7. q \in Asking /\ Asking' = Asking \ {q}
    BY <2>1, <2>4 DEF Asking
  <2> QED
    BY <1>1, <1>3, <2>5, <2>6, <2>7, ReservedTaken
<1>7. CASE ResumeLaunch(q)
  <2> DEFINE t == resumes[q].t
  <2>1. t \in Attempts /\ att[t].pc # "unused" /\ att[t].run \in Runs
    BY <1>1, <1>7 DEF ResumeLaunch, RunsKnown
  <2>2. /\ att'[t].pc = "start" /\ att'[t].run = att[t].run
        /\ \A u \in Attempts \ {t} : att'[u] = att[u]
    BY <1>2, <1>7, <2>1 DEF ResumeLaunch, Attempt
  <2>3. /\ resumes'[q].pc = "done"
        /\ \A p \in Resumers \ {q} : resumes'[p] = resumes[p]
    BY <1>2, <1>7 DEF ResumeLaunch, ResumeDone, ResumeCall
  <2> HIDE DEF t
  <2>4. RunsKnown'
    BY <1>1, <2>1, <2>2, <2>3 DEF RunsKnown
  <2>5. FreeAttempts' = FreeAttempts /\ Asking' \subseteq Asking
    BY <2>1, <2>2, <2>3 DEF FreeAttempts, Asking
  <2> QED
    BY <1>1, <1>3, <2>4, <2>5, ReservedKept, RunsAssumption
<1>8. CASE ResumeRejected(q)
  BY <1>5, <1>8 DEF ResumeRejected, taskVars
<1>9. CASE ResumePrepare(q)
  BY <1>1, <1>5, <1>6, <1>9, PrepareEffect
<1> QED
  BY <1>4, <1>7, <1>8, <1>9

LEMMA CancelKnown ==
    ASSUME Shape, NEW c \in Cancellers,
           CancelSaved(c) \/ \E r \in Runs : Cancel(c, r)
    PROVE  RunsKnown' /\ Reserved'
<1>1. TypeOK /\ RunsKnown /\ Reserved /\ UNCHANGED <<creating, resumes>>
  BY DEF Shape, CancelSaved, Cancel
<1>2. att \in [Attempts -> Attempt]
  BY <1>1 DEF TypeOK
<1>3. \A t \in Attempts : att'[t].pc = att[t].pc /\ att'[t].run = att[t].run
  <2>1. ASSUME NEW r \in Runs, SetFlag(r)
        PROVE  \A t \in Attempts : att'[t].pc = att[t].pc /\ att'[t].run = att[t].run
    BY <1>2, <2>1 DEF SetFlag, Attempt
  <2>2. CASE CancelSaved(c)
    BY <2>2 DEF CancelSaved, taskVars
  <2> QED
    BY <2>1, <2>2 DEF Cancel
<1>4. RunsKnown'
  BY <1>1, <1>3 DEF RunsKnown
<1>5. FreeAttempts' = FreeAttempts /\ Starting' = Starting /\ Asking' = Asking
  BY <1>1, <1>3 DEF FreeAttempts, Starting, Asking
<1> QED
  BY <1>1, <1>4, <1>5 DEF Reserved

LEMMA StopKnown ==
    ASSUME Shape, Shutdown \/ Restart
    PROVE  RunsKnown' /\ Reserved'
<1>1. TypeOK /\ RunsKnown /\ Reserved
  BY DEF Shape
<1>2. att \in [Attempts -> Attempt] /\ resumes \in [Resumers -> ResumeCall]
  BY <1>1 DEF TypeOK
<1>3. \A q \in Resumers : resumes'[q].pc \notin {"getwf", "saving"}
  BY DEF Shutdown, Restart, IdleResume
<1>4. \A t \in Attempts :
         /\ att'[t].pc \notin {"unused", "dead"}
               => att'[t].run = att[t].run /\ att[t].pc \notin {"unused", "dead"}
         /\ att[t].pc = "unused" => att'[t].pc = "unused"
  <2>1. CASE Shutdown
    <3>1. \A t \in Attempts : att'[t] = CancelledTask(att[t])
      BY <2>1 DEF Shutdown
    <3>2. \A a \in Attempt :
             /\ CancelledTask(a).run = a.run
             /\ a.pc = "unused" <=> CancelledTask(a).pc = "unused"
             /\ CancelledTask(a).pc # "dead" => a.pc # "dead"
      BY DEF CancelledTask, Attempt
    <3> QED
      BY <1>2, <3>1, <3>2
  <2>2. CASE Restart
    <3>1. \A t \in Attempts : att'[t] = IF att[t].pc = "unused" THEN att[t]
                                        ELSE [Unused EXCEPT !.pc = "dead"]
      BY <2>2 DEF Restart
    <3>2. [Unused EXCEPT !.pc = "dead"].pc = "dead"
      BY DEF Unused
    <3> QED
      BY <3>1, <3>2
  <2> QED
    BY <2>1, <2>2
<1>5. RunsKnown'
  BY <1>1, <1>3, <1>4 DEF RunsKnown
<1>6. Starting' \subseteq Starting /\ Asking' \subseteq Asking
  BY <1>3 DEF Shutdown, Restart, Starting, Asking
<1>7. FreeAttempts \subseteq FreeAttempts'
  BY <1>4 DEF FreeAttempts
<1> QED
  BY <1>1, <1>5, <1>6, <1>7, ReservedKept, RunsAssumption

LEMMA ShapeStep ==
    ASSUME Shape, [Next]_vars
    PROVE  Shape'
<1>1. TypeOK'
  BY TypeStep
<1>2. ASSUME UNCHANGED <<att, creating, resumes>>
      PROVE  Shape'
  <2>1. RunsKnown'
    BY <1>2 DEF Shape, RunsKnown
  <2>2. FreeAttempts' = FreeAttempts /\ Starting' = Starting /\ Asking' = Asking
    BY <1>2 DEF FreeAttempts, Starting, Asking
  <2> QED
    BY <1>1, <2>1, <2>2 DEF Shape, Reserved
<1>3. CASE Poll \/ PollSaved \/ UNCHANGED vars
           \/ (Tick /\ UNCHANGED <<store, writes, taskVars, requestVars, lifeVars>>)
  <2>1. CASE Poll \/ PollSaved
    BY <1>2, <2>1 DEF Poll, PollSaved, taskVars
  <2>2. CASE UNCHANGED vars
    BY <1>2, <2>2 DEF vars, taskVars, requestVars
  <2>3. CASE Tick /\ UNCHANGED <<store, writes, taskVars, requestVars, lifeVars>>
    BY <1>2, <2>3 DEF taskVars, requestVars
  <2> QED
    BY <1>3, <2>1, <2>2, <2>3
<1>4. CASE Crash \/ Shutdown \/ ShutdownOver
  BY <1>1, <1>4, StopKnown DEF Crash, ShutdownOver, Shape
<1>5. ASSUME RunsKnown', Reserved'
      PROVE  Shape'
  BY <1>1, <1>5 DEF Shape
<1> QED
  BY <1>3, <1>4, <1>5, TaskRunsKnown, CreateRunKnown, ResumeKnown, CancelKnown
     DEF Next, RequestStep

(***************************************************************************)
(* Records, requests, tasks and the stream runtime keep their types,       *)
(* whatever requests come and wherever the process stops: what            *)
(* AsyncRunService puts in its tables and files is what it reads back.     *)
(***************************************************************************)
THEOREM TypeCorrect == Spec => []TypeOK
<1>1. Init => Shape
  BY InitShape
<1>2. Shape /\ [Next]_vars => Shape'
  BY ShapeStep
<1>3. Shape => TypeOK
  BY DEF Shape
<1> QED
  BY <1>1, <1>2, <1>3, PTL DEF Spec

-----------------------------------------------------------------------------
(* What a step of a task does to its record, the disk and its stream *)

\* Where a task waits for a save of its record.
SavingStates == {"aborting", "marking", "starting", "recording", "finalizing", "ending"}

LEMMA GotoEffect ==
    ASSUME att \in [Attempts -> Attempt], NEW t \in Attempts, NEW pc
    PROVE  /\ Goto(t, pc) \/ Leave(t, pc) => att'[t].pc = pc /\ att'[t].rec = att[t].rec
           /\ \A rec : GotoWith(t, pc, rec) => att'[t].pc = pc /\ att'[t].rec = rec
<1>1. att[t] \in Attempt
  OBVIOUS
<1>2. Goto(t, pc) => att'[t].pc = pc /\ att'[t].rec = att[t].rec
  BY <1>1 DEF Goto, Attempt
<1>3. Leave(t, pc) => att'[t].pc = pc /\ att'[t].rec = att[t].rec
  BY <1>1 DEF Leave, Attempt
<1>4. \A rec : GotoWith(t, pc, rec) => att'[t].pc = pc /\ att'[t].rec = rec
  BY <1>1 DEF GotoWith, Attempt
<1> QED
  BY <1>2, <1>3, <1>4

LEMMA TaskSaves ==
    ASSUME att \in [Attempts -> Attempt], NEW t \in Attempts, TaskStep(t)
    PROVE  LET before == att[t].pc \in SavingStates
               after == att'[t].pc \in SavingStates
           IN  /\ ~before /\ ~after => UNCHANGED <<store, writes>>
               /\ ~before /\ after => Save(Me(t), att[t].run, att'[t].rec)
               /\ before /\ ~after => Saved(Me(t))
               /\ before /\ after => SavedThenSave(Me(t), att[t].run, att'[t].rec)
<1> USE DEF InState, SavingStates
<1>0. att[t] \in Attempt /\ <<att[t].pc, att'[t].pc>> \in Moves
  BY TaskMoves
<1>1. CASE TaskStart(t)
  <2>1. CASE /\ GotoWith(t, "aborting", Rec(t, "cancelled"))
             /\ Save(Me(t), att[t].run, Rec(t, "cancelled"))
    <3>1. att'[t].pc = "aborting" /\ att'[t].rec = Rec(t, "cancelled")
      BY <2>1, GotoEffect
    <3> QED
      BY <1>1, <2>1, <3>1 DEF TaskStart
  <2>2. CASE Goto(t, "getwf") /\ UNCHANGED <<store, writes>>
    <3>1. att'[t].pc = "getwf"
      BY <2>2, GotoEffect
    <3> QED
      BY <1>1, <2>2, <3>1 DEF TaskStart
  <2> QED
    BY <1>1, <2>1, <2>2 DEF TaskStart
<1>2. CASE TaskMark(t)
  <2>1. PICK pc \in {"aborting", "marking"}, status \in {"failed", "running"} :
           GotoWith(t, pc, Rec(t, status)) /\ Save(Me(t), att[t].run, Rec(t, status))
    BY <1>2 DEF TaskMark
  <2>2. att'[t].pc = pc /\ att'[t].rec = Rec(t, status)
    BY <2>1, GotoEffect
  <2> QED
    BY <1>2, <2>1, <2>2 DEF TaskMark
<1>3. CASE TaskAborted(t) \/ TaskEnds(t) \/ TaskAwaits(t)
  <2>1. att[t].pc \in SavingStates /\ att'[t].pc \notin SavingStates /\ Saved(Me(t))
    BY <1>0, <1>3 DEF TaskAborted, TaskEnds, TaskAwaits, Moves
  <2> QED
    BY <2>1
<1>4. CASE TaskStarted(t)
  BY <1>0, <1>4, GotoEffect DEF TaskStarted
<1>5. CASE TaskCancelled(t) \/ TaskWorkflowFinished(t) \/ TaskFailed(t)
  <2>1. att[t].pc = "consuming" /\ UNCHANGED <<store, writes>>
    BY <1>5 DEF TaskCancelled, TaskWorkflowFinished, TaskFailed
  <2>2. att'[t].pc = "closing"
    <3>1. CASE TaskCancelled(t)
      BY <1>0, <3>1 DEF TaskCancelled, GotoWith, Attempt
    <3>2. CASE TaskWorkflowFinished(t)
      BY <1>0, <3>2 DEF TaskWorkflowFinished, Attempt
    <3>3. CASE TaskFailed(t)
      <4>1. CASE att' = [att EXCEPT ![t] = [@ EXCEPT !.pc = "closing", !.term = TRUE,
                                                     !.rec.status = "failed"]]
        BY <1>0, <4>1 DEF Attempt
      <4> QED
        BY <3>3, <4>1, GotoEffect DEF TaskFailed
    <3> QED
      BY <1>5, <3>1, <3>2, <3>3
  <2> QED
    BY <2>1, <2>2
<1>6. CASE TaskProgress(t)
  <2>1. att[t].pc = "consuming" /\ att'[t].pc = "recording" /\ Save(Me(t), att[t].run, att'[t].rec)
    BY <1>0, <1>6 DEF TaskProgress, GotoWith, Attempt
  <2> QED
    BY <2>1
<1>7. CASE TaskFinalize(t)
  <2>1. att[t].pc = "closing" /\ att'[t].pc = "finalizing" /\ Save(Me(t), att[t].run, att'[t].rec)
    BY <1>0, <1>7 DEF TaskFinalize, Attempt
  <2> QED
    BY <2>1
<1>8. CASE TaskEnsureEnded(t)
  BY <1>0, <1>8, GotoEffect DEF TaskEnsureEnded
<1> QED
  BY <1>1, <1>2, <1>3, <1>4, <1>5, <1>6, <1>7, <1>8 DEF TaskStep

\* The record, the outcome and the flag, move by move.
LEMMA TaskRecords ==
    ASSUME att \in [Attempts -> Attempt], NEW t \in Attempts, TaskStep(t)
    PROVE  /\ att'[t].pc = "aborting" => att'[t].rec.status \in TerminalStatuses
           /\ att'[t].pc = "marking" => att'[t].rec.status = "running"
           /\ att'[t].pc = "recording" => att'[t].rec.status = att[t].rec.status
           /\ att[t].pc = "consuming" /\ att'[t].pc = "closing" =>
                 /\ att'[t].rec.status \in TerminalStatuses
                 /\ ~att'[t].term =>
                       att'[t].rec.status = "cancelled" \/ att[t].run \notin Surviving
           /\ att[t].pc = "closing" =>
                 /\ att'[t].rec.status = FinalStatus(att[t].rec.status, att[t].flag)
                 /\ att'[t].term = att[t].term
                 /\ att'[t].heeded = att[t].flag
           /\ att'[t].pc \in {"starting", "consuming", "ending", "finished", "dead"} =>
                 /\ att'[t].rec = att[t].rec
                 /\ att'[t].term = att[t].term
                 /\ att'[t].heeded = att[t].heeded
<1> USE DEF InState, Moves
<1>0. att[t] \in Attempt /\ att[t].rec \in Record /\ <<att[t].pc, att'[t].pc>> \in Moves
  BY TaskMoves DEF Attempt
<1>1. \A status : Rec(t, status).status = status
  BY <1>0 DEF Rec, Record
<1>2. CASE TaskStart(t)
  <2>1. \/ att'[t].pc = "aborting" /\ att'[t].rec = Rec(t, "cancelled")
        \/ att'[t].pc = "getwf"
    BY <1>2, GotoEffect DEF TaskStart
  <2>2. att[t].pc = "start"
    BY <1>2 DEF TaskStart
  <2> QED
    BY <1>1, <2>1, <2>2 DEF TerminalStatuses
<1>3. CASE TaskMark(t)
  BY <1>0, <1>1, <1>3 DEF TaskMark, GotoWith, Attempt, TerminalStatuses
<1>4. CASE TaskAborted(t) \/ TaskEnds(t) \/ TaskAwaits(t) \/ TaskStarted(t) \/ TaskEnsureEnded(t)
  <2>1. \E pc : att' = [att EXCEPT ![t].pc = pc]
    BY <1>4 DEF TaskAborted, TaskEnds, TaskAwaits, TaskStarted, TaskEnsureEnded, Leave, Goto
  <2>2. att'[t].rec = att[t].rec /\ att'[t].term = att[t].term /\ att'[t].heeded = att[t].heeded
    BY <1>0, <2>1 DEF Attempt
  <2>3. att[t].pc \in SavingStates
    BY <1>4 DEF TaskAborted, TaskEnds, TaskAwaits, TaskStarted, TaskEnsureEnded, SavingStates
  <2> QED
    BY <1>0, <2>2, <2>3 DEF SavingStates
<1>5. CASE TaskCancelled(t)
  <2>1. att'[t].rec.status = "cancelled" /\ att'[t].pc = "closing"
    BY <1>0, <1>1, <1>5 DEF TaskCancelled, GotoWith, Attempt
  <2> QED
    BY <1>0, <2>1 DEF TerminalStatuses
<1>6. CASE TaskWorkflowFinished(t)
  <2>1. att'[t].rec.status = "succeeded" /\ att'[t].pc = "closing" /\ att'[t].term
    BY <1>0, <1>6 DEF TaskWorkflowFinished, Attempt, Record
  <2> QED
    BY <1>0, <2>1 DEF TerminalStatuses
<1>7. CASE TaskFailed(t)
  <2>1. /\ att'[t].rec.status = "failed" /\ att'[t].pc = "closing"
        /\ ~att'[t].term => att[t].run \notin Surviving
    <3>1. CASE att' = [att EXCEPT ![t] = [@ EXCEPT !.pc = "closing", !.term = TRUE,
                                                   !.rec.status = "failed"]]
      BY <1>0, <3>1 DEF Attempt, Record
    <3>2. CASE GotoWith(t, "closing", Rec(t, "failed")) /\ att[t].run \notin Surviving
      BY <1>0, <1>1, <3>2 DEF GotoWith, Attempt
    <3> QED
      BY <1>7, <3>1, <3>2 DEF TaskFailed
  <2> QED
    BY <1>0, <2>1 DEF TerminalStatuses
<1>8. CASE TaskProgress(t)
  <2>1. att[t].pc = "consuming" /\ att'[t].pc = "recording"
        /\ att'[t].rec \in {att[t].rec, [att[t].rec EXCEPT !.ckpt = ckpts[att[t].run] + 1]}
    BY <1>0, <1>8 DEF TaskProgress, GotoWith, Attempt
  <2>2. att'[t].rec.status = att[t].rec.status
    BY <1>0, <2>1 DEF Record
  <2> QED
    BY <2>1, <2>2
<1>9. CASE TaskFinalize(t)
  <2> DEFINE rec == Rec(t, FinalStatus(att[t].rec.status, att[t].flag))
  <2>1. rec.status = FinalStatus(att[t].rec.status, att[t].flag)
    BY <1>1
  <2>2. att' = [att EXCEPT ![t] = [@ EXCEPT !.pc = "finalizing", !.rec = rec,
                                            !.heeded = att[t].flag]]
    BY <1>9 DEF TaskFinalize
  <2> HIDE DEF rec
  <2>3. /\ att'[t].pc = "finalizing" /\ att'[t].rec = rec /\ att'[t].term = att[t].term
        /\ att'[t].heeded = att[t].flag
    BY <1>0, <2>2 DEF Attempt
  <2> QED
    BY <1>0, <2>1, <2>3
<1> QED
  BY <1>2, <1>3, <1>4, <1>5, <1>6, <1>7, <1>8, <1>9 DEF TaskStep

\* The stream of the run, move by move.
LEMMA TaskStream ==
    ASSUME att \in [Attempts -> Attempt], NEW t \in Attempts, TaskStep(t)
    PROVE  LET r == att[t].run
           IN  /\ \/ \E kind \in Kinds : AppendEvent(r, kind)
                  \/ Lookup
                  \/ UNCHANGED runtimeVars
               /\ \/ \E kind \in Kinds \ TerminalKinds : AppendEvent(r, kind)
                  \/ Lookup
                  \/ UNCHANGED runtimeVars
                  \/ att'[t].pc = "closing" /\ att'[t].term
                  \/ att'[t].pc = "ending"
               /\ att[t].pc = "marking" /\ att'[t].pc = "dead" => r \notin Surviving
               /\ att'[t].pc = "ending" => AppendEvent(r, "ended")
               /\ att[t].pc = "finalizing" /\ att'[t].pc = "finished" => HasEnded(r) /\ Lookup
               /\ att[t].pc = "ending" => UNCHANGED runtimeVars
<1> USE DEF InState, Moves
<1>0. att[t] \in Attempt /\ <<att[t].pc, att'[t].pc>> \in Moves
  BY TaskMoves
<1>1. "ended" \in Kinds /\ "error" \in Kinds /\ "data" \in Kinds \ TerminalKinds
      /\ "started" \in Kinds \ TerminalKinds
  BY DEF Kinds, TerminalKinds
<1>2. CASE TaskStart(t) \/ TaskMark(t) \/ TaskAborted(t) \/ TaskAwaits(t) \/ TaskCancelled(t)
           \/ TaskFinalize(t) \/ TaskEnds(t)
  <2>1. UNCHANGED runtimeVars
    BY <1>2 DEF TaskStart, TaskMark, TaskAborted, TaskAwaits, TaskCancelled, TaskFinalize, TaskEnds
  <2>2. att[t].pc \notin {"marking", "finalizing"}
    BY <1>2 DEF TaskStart, TaskMark, TaskAborted, TaskAwaits, TaskCancelled, TaskFinalize, TaskEnds
  <2> QED
    BY <1>0, <2>1, <2>2
<1>3. CASE TaskStarted(t)
  BY <1>0, <1>1, <1>3 DEF TaskStarted, Goto, Attempt
<1>4. CASE TaskProgress(t) \/ TaskWorkflowFinished(t)
  <2>1. att[t].pc = "consuming" /\ AppendEvent(att[t].run, "data")
    BY <1>4 DEF TaskProgress, TaskWorkflowFinished
  <2> QED
    BY <1>0, <1>1, <2>1
<1>5. CASE TaskFailed(t)
  <2>1. att[t].pc = "consuming"
    BY <1>5 DEF TaskFailed
  <2>2. CASE AppendEvent(att[t].run, "error")
             /\ att' = [att EXCEPT ![t] = [@ EXCEPT !.pc = "closing", !.term = TRUE,
                                                    !.rec.status = "failed"]]
    <3>1. att'[t].pc = "closing" /\ att'[t].term
      BY <1>0, <2>2 DEF Attempt
    <3> QED
      BY <1>0, <1>1, <2>1, <2>2, <3>1
  <2>3. CASE Lookup
    BY <1>0, <2>1, <2>3
  <2> QED
    BY <1>5, <2>2, <2>3 DEF TaskFailed
<1>6. CASE TaskEnsureEnded(t)
  BY <1>0, <1>1, <1>6 DEF TaskEnsureEnded, Goto, Leave, Attempt
<1> QED
  BY <1>2, <1>3, <1>4, <1>5, <1>6 DEF TaskStep

-----------------------------------------------------------------------------
(* The queue of saves *)

\* Whose save it is, and what it says: no actor waits for two saves, and the
\* records of unsettled runs come from their task or from a resume.
Claimed(e) ==
    \/ \E t \in Attempts :
          /\ e.by = Me(t) /\ att[t].pc \in SavingStates
          /\ e.run = att[t].run /\ e.rec = att[t].rec
    \/ \E r \in Runs :
          /\ e.by = <<"create", r>> /\ e.run = r
          /\ \/ creating[r] = "saving"
             \/ creating[r] = "failing" /\ e.rec.status = "failed"
    \/ \E c \in Cancellers :
          /\ e.by = <<"cancel", c>> /\ cancels[c] = "saving"
          /\ e.rec.status = "cancelled" /\ creating[e.run] \notin {"none", "saving"}
    \/ \E q \in Resumers :
          /\ e.by = <<"resume", q>> /\ resumes[q].pc = "saving"
          /\ e.run = resumes[q].run /\ e.rec.status = "running"
    \/ /\ e.by = <<"poll", None>> /\ poll.busy
       /\ e.rec.status = "failed" /\ creating[e.run] \notin {"none", "saving"}

Queued ==
    /\ \A i \in 1..Len(writes) : Claimed(writes[i])
    /\ \A i, j \in 1..Len(writes) : writes[i].by = writes[j].by => i = j

\* A run whose first save is not made yet is known to nobody.
Unborn ==
    \A r \in Runs :
        creating[r] \in {"none", "saving"} =>
            /\ store[r] = None
            /\ \A t \in Attempts : att[t].run # r
            /\ \A q \in Resumers : resumes[q].run # r
            /\ poll.busy => poll.copy[r] = None

LEMMA QueuedKept ==
    ASSUME StoreType, Queued, writes' = writes,
           \A x \in Write : Claimed(x) => Claimed(x)'
    PROVE  Queued'
<1>1. \A i \in 1..Len(writes) : writes[i] \in Write
  BY ElementOfSeq DEF StoreType
<1> QED
  BY <1>1 DEF Queued

LEMMA QueuedSave ==
    ASSUME StoreType, Queued, NEW by, NEW e \in Write, e.by = by,
           writes' = Append(writes, e),
           \A x \in Write : x.by = by => ~Claimed(x),
           \A x \in Write : x.by # by /\ Claimed(x) => Claimed(x)',
           Claimed(e)'
    PROVE  Queued'
<1>1. \A i \in 1..Len(writes) : writes[i] \in Write /\ Claimed(writes[i]) /\ writes[i].by # by
  BY ElementOfSeq DEF StoreType, Queued
<1>2. /\ Len(writes) \in Nat /\ Len(writes') = Len(writes) + 1
      /\ writes'[Len(writes) + 1] = e
      /\ \A i \in 1..Len(writes) : writes'[i] = writes[i]
  BY AppendProperties, LenProperties DEF StoreType
<1>3. ASSUME NEW i \in 1..Len(writes')
      PROVE  Claimed(writes[i])'
  <2>1. CASE i \in 1..Len(writes)
    <3>1. PICK x \in Write : x = writes[i] /\ Claimed(x) /\ x.by # by
      BY <1>1, <2>1
    <3>2. writes'[i] = x /\ Claimed(x)'
      BY <1>2, <2>1, <3>1
    <3> QED
      BY <3>2 DEF Claimed
  <2>2. CASE i = Len(writes) + 1
    <3>1. writes'[i] = e
      BY <1>2, <2>2
    <3> QED
      BY <3>1 DEF Claimed
  <2> QED
    BY <1>2, <2>1, <2>2
<1>4. \A i, j \in 1..Len(writes') : writes'[i].by = writes'[j].by => i = j
  BY <1>1, <1>2 DEF Queued
<1> QED
  BY <1>3, <1>4 DEF Queued

LEMMA ClaimedEntry ==
    ASSUME NEW x, NEW i, writes'[i] = x, Claimed(x)'
    PROVE  Claimed(writes[i])'
BY DEF Claimed

LEMMA QueuedSaved ==
    ASSUME StoreType, Queued, NEW by, Saved(by),
           \A x \in Write : x.by # by /\ Claimed(x) => Claimed(x)'
    PROVE  Queued' /\ \A i \in 1..Len(writes') : writes'[i].by # by
<1>1. /\ writes # <<>> /\ writes' = Tail(writes)
      /\ writes[1].by = by /\ Head(writes) = writes[1]
  BY HeadTailProperties DEF StoreType, Saved, Turn
<1>2. /\ Len(writes) \in Nat /\ Len(writes') = Len(writes) - 1
      /\ \A i \in 1..Len(writes') : writes'[i] = writes[i + 1]
  BY <1>1, HeadTailProperties, LenProperties DEF StoreType
<1>3. \A i \in 1..Len(writes') : i + 1 \in 1..Len(writes) /\ i + 1 # 1 /\ 1 \in 1..Len(writes)
  BY <1>2
<1>4. \A i \in 1..Len(writes) : writes[i] \in Write /\ Claimed(writes[i])
  BY ElementOfSeq DEF StoreType, Queued
<1>5. \A i \in 1..Len(writes') : writes'[i].by # by
  BY <1>1, <1>2, <1>3 DEF Queued
<1>6. ASSUME NEW i \in 1..Len(writes')
      PROVE  Claimed(writes[i])'
  <2>1. PICK x \in Write : x = writes[i + 1] /\ Claimed(x)
    BY <1>3, <1>4
  <2>2. writes'[i] = x /\ x.by # by
    BY <1>2, <1>5, <2>1
  <2>3. Claimed(x)'
    BY <2>1, <2>2, Zenon
  <2> QED
    BY <2>2, <2>3 DEF Claimed
<1>7. ASSUME NEW i \in 1..Len(writes'), NEW j \in 1..Len(writes'),
             writes'[i].by = writes'[j].by
      PROVE  i = j
  <2>1. writes[i + 1].by = writes[j + 1].by /\ i + 1 \in 1..Len(writes) /\ j + 1 \in 1..Len(writes)
    BY <1>2, <1>3, <1>7
  <2>2. i + 1 = j + 1
    BY <2>1 DEF Queued
  <2> QED
    BY <1>2, <2>2
<1> QED
  BY <1>5, <1>6, <1>7 DEF Queued

LEMMA QueuedSavedThenSave ==
    ASSUME StoreType, Queued, NEW by, NEW e \in Write, e.by = by,
           Turn(by), writes' = Append(Tail(writes), e),
           \A x \in Write : x.by # by /\ Claimed(x) => Claimed(x)',
           Claimed(e)'
    PROVE  Queued'
<1> DEFINE rest == Tail(writes)
<1>1. /\ writes # <<>> /\ writes' = Append(rest, e)
      /\ writes[1].by = by /\ Head(writes) = writes[1]
  BY HeadTailProperties DEF StoreType, Turn
<1>2. /\ rest \in Seq(Write) /\ Len(writes) \in Nat /\ Len(rest) = Len(writes) - 1
      /\ \A i \in 1..Len(rest) : rest[i] = writes[i + 1]
  BY <1>1, HeadTailProperties, LenProperties DEF StoreType
<1>3. /\ Len(writes') = Len(rest) + 1
      /\ writes'[Len(rest) + 1] = e
      /\ \A i \in 1..Len(rest) : writes'[i] = rest[i]
  BY <1>1, <1>2, AppendProperties
<1> HIDE DEF rest
<1>4. \A i \in 1..Len(rest) : i + 1 \in 1..Len(writes) /\ i + 1 # 1 /\ 1 \in 1..Len(writes)
  BY <1>2
<1>5. \A i \in 1..Len(writes) : writes[i] \in Write /\ Claimed(writes[i])
  BY ElementOfSeq DEF StoreType, Queued
<1>6. \A i \in 1..Len(rest) : rest[i].by # by
  BY <1>1, <1>2, <1>4 DEF Queued
<1>7. ASSUME NEW i \in 1..Len(writes')
      PROVE  Claimed(writes[i])'
  <2>1. CASE i \in 1..Len(rest)
    <3>1. PICK x \in Write : x = writes[i + 1] /\ Claimed(x)
      BY <1>4, <1>5, <2>1
    <3>2. writes'[i] = x /\ x.by # by
      BY <1>2, <1>3, <1>6, <2>1, <3>1
    <3>3. Claimed(x)'
      BY <3>1, <3>2, Zenon
    <3> QED
      BY <3>2, <3>3, ClaimedEntry
  <2>2. CASE i = Len(rest) + 1
    <3>1. writes'[i] = e
      BY <1>3, <2>2
    <3>2. Claimed(e)'
      OBVIOUS
    <3> QED
      BY <3>1, <3>2, ClaimedEntry
  <2> QED
    BY <1>2, <1>3, <2>1, <2>2
<1>8. ASSUME NEW i \in 1..Len(rest), NEW j \in 1..Len(rest), rest[i].by = rest[j].by
      PROVE  i = j
  <2>1. writes[i + 1].by = writes[j + 1].by /\ i + 1 \in 1..Len(writes) /\ j + 1 \in 1..Len(writes)
    BY <1>2, <1>4, <1>8
  <2>2. i + 1 = j + 1
    BY <2>1 DEF Queued
  <2> QED
    BY <2>2
<1>9. \A i, j \in 1..Len(writes') : writes'[i].by = writes'[j].by => i = j
  BY <1>1, <1>2, <1>3, <1>6, <1>8
<1> QED
  BY <1>7, <1>9 DEF Queued

\* What the claim of each actor says.
LEMMA ClaimBy ==
    ASSUME NEW x, Claimed(x)
    PROVE  /\ \A t : x.by = Me(t) => /\ att[t].pc \in SavingStates
                                     /\ x.run = att[t].run /\ x.rec = att[t].rec
           /\ \A r : x.by = <<"create", r>> =>
                        /\ x.run = r
                        /\ \/ creating[r] = "saving"
                           \/ creating[r] = "failing" /\ x.rec.status = "failed"
           /\ \A c : x.by = <<"cancel", c>> =>
                        /\ cancels[c] = "saving" /\ x.rec.status = "cancelled"
                        /\ creating[x.run] \notin {"none", "saving"}
           /\ \A q : x.by = <<"resume", q>> =>
                        /\ resumes[q].pc = "saving" /\ x.run = resumes[q].run
                        /\ x.rec.status = "running"
           /\ x.by = <<"poll", None>> =>
                 poll.busy /\ x.rec.status = "failed" /\ creating[x.run] \notin {"none", "saving"}
BY DEF Claimed, Me

\* The claims of the actors that a step leaves alone.
LEMMA ClaimKept ==
    ASSUME NEW x, Claimed(x),
           \A t \in Attempts : x.by = Me(t) /\ att[t].pc \in SavingStates =>
               /\ att'[t].pc \in SavingStates /\ att'[t].run = att[t].run /\ att'[t].rec = att[t].rec,
           \A r \in Runs : x.by = <<"create", r>> => creating'[r] = creating[r],
           \A c \in Cancellers : x.by = <<"cancel", c>> => cancels'[c] = cancels[c],
           \A q \in Resumers : x.by = <<"resume", q>> => resumes'[q] = resumes[q],
           x.by = <<"poll", None>> => poll'.busy = poll.busy,
           creating[x.run] \notin {"none", "saving"} => creating'[x.run] \notin {"none", "saving"}
    PROVE  Claimed(x)'
BY DEF Claimed

LEMMA HeadClaimed ==
    ASSUME StoreType, Queued, NEW by, Turn(by)
    PROVE  /\ Head(writes) \in Write /\ Head(writes).by = by
           /\ Claimed(Head(writes))
<1>1. writes # <<>> /\ Head(writes) \in Write /\ Head(writes) = writes[1] /\ Head(writes).by = by
      /\ 1 \in 1..Len(writes)
  BY HeadTailProperties, LenProperties, EmptySeq DEF StoreType, Turn
<1> QED
  BY <1>1 DEF Queued

LEMMA TaskQueued ==
    ASSUME Shape, Queued, Unborn, NEW t \in Attempts, TaskStep(t)
    PROVE  Queued' /\ Unborn'
<1>1. StoreType /\ att \in [Attempts -> Attempt] /\ StoreType'
  BY TypeParts, TaskType DEF Shape, TypeOK
<1>2. /\ <<att[t].pc, att'[t].pc>> \in Moves
      /\ att'[t].run = att[t].run
      /\ \A u \in Attempts \ {t} : att'[u] = att[u]
      /\ UNCHANGED <<creating, cancels, resumes, poll>>
  BY <1>1, TaskMoves DEF requestVars
<1>3. Me(t) \in Actors /\ att[t].run \in Runs /\ att'[t].rec \in Record
  <2>1. att[t].pc \notin {"unused", "dead"}
    BY <1>2 DEF Moves
  <2>2. att'[t] \in Attempt
    BY TaskType, TypeParts DEF TaskVarsType
  <2> QED
    BY <2>1, <2>2 DEF Shape, RunsKnown, Me, Actors, Attempt
<1>4. ASSUME NEW x \in Write, x.by # Me(t), Claimed(x)
      PROVE  Claimed(x)'
  BY <1>2, <1>4, ClaimKept DEF Me
<1>5. PICK rec \in Record : rec = att'[t].rec
  BY <1>3
<1>6. PICK e \in Write : e = Entry(Me(t), att[t].run, rec)
  BY <1>3 DEF Entry, Write
<1>7. Queued'
  <2>1. CASE att[t].pc \notin SavingStates /\ att'[t].pc \notin SavingStates
    <3>1. writes' = writes
      BY <1>1, <2>1, TaskSaves
    <3>2. ASSUME NEW x \in Write, Claimed(x)
          PROVE  Claimed(x)'
      BY <1>4, <2>1, <3>2, ClaimBy
    <3> QED
      BY <1>1, <3>1, <3>2, QueuedKept
  <2>2. ASSUME att'[t].pc \in SavingStates
        PROVE  Claimed(e)'
    BY <1>2, <1>5, <1>6, <2>2 DEF Claimed, Entry
  <2>3. CASE att[t].pc \notin SavingStates /\ att'[t].pc \in SavingStates
    <3>1. writes' = Append(writes, e) /\ e.by = Me(t)
      BY <1>1, <1>5, <1>6, <2>3, TaskSaves DEF Save, Entry
    <3>2. \A x \in Write : x.by = Me(t) => ~Claimed(x)
      BY <2>3, ClaimBy
    <3> QED
      BY <1>1, <1>4, <2>2, <2>3, <3>1, <3>2, QueuedSave
  <2>4. CASE att[t].pc \in SavingStates /\ att'[t].pc \notin SavingStates
    BY <1>1, <1>4, <2>4, TaskSaves, QueuedSaved
  <2>5. CASE att[t].pc \in SavingStates /\ att'[t].pc \in SavingStates
    <3>1. Turn(Me(t)) /\ writes' = Append(Tail(writes), e) /\ e.by = Me(t)
      BY <1>1, <1>5, <1>6, <2>5, TaskSaves DEF SavedThenSave, Entry
    <3> QED
      BY <1>1, <1>4, <2>2, <2>5, <3>1, QueuedSavedThenSave
  <2> QED
    BY <2>1, <2>3, <2>4, <2>5
<1>8. Unborn'
  <2>1. \A r \in Runs : creating[r] \in {"none", "saving"} => store'[r] = store[r]
    <3>1. CASE att[t].pc \in SavingStates
      <4>1. Turn(Me(t)) /\ store' = Written
        BY <1>1, <3>1, TaskSaves DEF Saved, SavedThenSave
      <4>2. Head(writes).run = att[t].run
        BY <1>1, <4>1, HeadClaimed, ClaimBy
      <4> QED
        BY <1>1, <4>1, <4>2 DEF Written, Unborn, StoreType
    <3>2. CASE att[t].pc \notin SavingStates
      BY <1>1, <3>2, TaskSaves DEF Save
    <3> QED
      BY <3>1, <3>2
  <2> QED
    BY <1>2, <2>1 DEF Unborn
<1> QED
  BY <1>7, <1>8

LEMMA CreateQueued ==
    ASSUME Shape, Queued, Unborn, NEW r \in Runs, CreateRun(r) \/ LaunchRun(r) \/ RunRefused(r)
    PROVE  Queued' /\ Unborn'
<1>1. /\ StoreType /\ att \in [Attempts -> Attempt]
      /\ creating \in [Runs -> {"none", "saving", "failing", "done"}]
      /\ StoreType' /\ resumes \in [Resumers -> ResumeCall]
  BY TypeParts, CreateRunType DEF Shape, TypeOK
<1>2. /\ UNCHANGED <<cancels, resumes, poll>>
      /\ \A s \in Runs \ {r} : creating'[s] = creating[s]
      /\ creating'[r] # "none"
      /\ creating[r] \notin {"none", "saving"} => creating'[r] \notin {"none", "saving"}
  BY <1>1 DEF CreateRun, LaunchRun, RunRefused, RefuseRun, StartTask
<1>3. \/ UNCHANGED att
      \/ \E t \in Attempts :
            /\ creating[r] = "saving" /\ creating'[r] = "done"
            /\ att[t].pc = "unused" /\ att'[t].run = r
            /\ \A u \in Attempts \ {t} : att'[u] = att[u]
  <2>1. CASE creating[r] = "saving" /\ StartTask(r)
    <3>1. NextAttempt \in Attempts /\ att[NextAttempt].pc = "unused"
      BY <2>1, AttemptLeft DEF Shape, Starting
    <3>2. /\ att'[NextAttempt].run = r
          /\ \A u \in Attempts \ {NextAttempt} : att'[u] = att[u]
          /\ creating'[r] = "done"
      BY <1>1, <2>1, <3>1 DEF StartTask, NewAttempt, Unused
    <3> QED
      BY <2>1, <3>1, <3>2
  <2> QED
    BY <2>1 DEF CreateRun, LaunchRun, RunRefused, taskVars
<1>4. \A t \in Attempts : att[t].pc \in SavingStates =>
          /\ att'[t].pc \in SavingStates /\ att'[t].run = att[t].run /\ att'[t].rec = att[t].rec
  BY <1>3 DEF SavingStates
<1>5. ASSUME NEW x \in Write, x.by # <<"create", r>>, Claimed(x), r # x.run \/ creating[r] # "none"
      PROVE  Claimed(x)'
  BY <1>2, <1>4, <1>5, ClaimKept DEF Write
<1>6. ASSUME NEW x \in Write, Claimed(x), creating[r] = "none"
      PROVE  x.run # r
  BY <1>6, ClaimBy DEF Claimed, Unborn
<1>7. ASSUME NEW x \in Write, x.by # <<"create", r>>, Claimed(x)
      PROVE  Claimed(x)'
  BY <1>5, <1>6, <1>7
<1>8. \A rec \in Record : Entry(<<"create", r>>, r, rec) \in Write
  BY DEF Entry, Write, Actors
<1>9. NewRecord \in Record /\ [NewRecord EXCEPT !.status = "failed"] \in Record
      /\ [NewRecord EXCEPT !.status = "failed"].status = "failed"
  BY RecordTypes DEF TerminalStatuses, NewRecord
<1>10. CASE CreateRun(r)
  <2> DEFINE e == Entry(<<"create", r>>, r, NewRecord)
  <2>1. e \in Write /\ e.by = <<"create", r>> /\ e.run = r
    BY <1>8, <1>9 DEF Entry
  <2>2. writes' = Append(writes, e) /\ creating'[r] = "saving" /\ creating[r] = "none" /\ store' = store
        /\ att' = att
    BY <1>1, <1>10 DEF CreateRun, Save, taskVars
  <2> HIDE DEF e
  <2>3. Claimed(e)'
    BY <2>1, <2>2 DEF Claimed
  <2>4. \A x \in Write : x.by = <<"create", r>> => ~Claimed(x)
    BY <2>2, ClaimBy
  <2>5. Queued'
    BY <1>1, <1>7, <2>1, <2>2, <2>3, <2>4, QueuedSave
  <2>6. Unborn'
    BY <1>2, <2>2 DEF Unborn
  <2> QED
    BY <2>5, <2>6
<1>11. CASE LaunchRun(r) \/ RunRefused(r)
  <2>1. Turn(<<"create", r>>) /\ store' = Written /\ creating'[r] \notin {"none", "saving"}
    BY <1>1, <1>11 DEF LaunchRun, RunRefused, Saved, RefuseRun, SavedThenSave, StartTask
  <2>2. Head(writes).run = r
    BY <1>1, <2>1, HeadClaimed, ClaimBy
  <2>3. Unborn'
    <3>1. \A s \in Runs \ {r} : store'[s] = store[s]
      BY <1>1, <2>1, <2>2 DEF Written, StoreType
    <3>2. \A s \in Runs \ {r} : \A t \in Attempts : att'[t].run = att[t].run \/ att'[t].run # s
      BY <1>3
    <3> QED
      BY <1>2, <2>1, <3>1, <3>2 DEF Unborn
  <2>4. CASE Saved(<<"create", r>>)
    BY <1>1, <1>7, <2>3, <2>4, QueuedSaved
  <2>5. CASE LaunchRun(r) /\ RefuseRun(r)
    <3> DEFINE e == Entry(<<"create", r>>, r, [NewRecord EXCEPT !.status = "failed"])
    <3>1. e \in Write /\ e.by = <<"create", r>> /\ e.run = r /\ e.rec.status = "failed"
      BY <1>8, <1>9 DEF Entry
    <3>2. writes' = Append(Tail(writes), e) /\ creating'[r] = "failing"
      BY <1>1, <2>5 DEF RefuseRun, SavedThenSave
    <3> HIDE DEF e
    <3>3. Claimed(e)'
      BY <3>1, <3>2 DEF Claimed
    <3> QED
      BY <1>1, <1>7, <2>1, <2>3, <3>1, <3>2, <3>3, QueuedSavedThenSave
  <2> QED
    BY <1>11, <2>4, <2>5 DEF LaunchRun, RunRefused
<1> QED
  BY <1>10, <1>11

LEMMA CancelQueued ==
    ASSUME Shape, Queued, Unborn, NEW c \in Cancellers,
           CancelSaved(c) \/ \E r \in Runs : Cancel(c, r)
    PROVE  Queued' /\ Unborn'
<1>1. /\ StoreType /\ att \in [Attempts -> Attempt]
      /\ cancels \in [Cancellers -> {"idle", "saving", "done"}]
  BY TypeParts DEF Shape, TypeOK
<1>2. /\ UNCHANGED <<creating, resumes, poll>>
      /\ \A d \in Cancellers \ {c} : cancels'[d] = cancels[d]
  BY <1>1 DEF Cancel, CancelSaved
<1>3. \A t \in Attempts : att'[t].pc = att[t].pc /\ att'[t].run = att[t].run /\ att'[t].rec = att[t].rec
  <2>1. ASSUME NEW r \in Runs, SetFlag(r)
        PROVE  \A t \in Attempts : /\ att'[t].pc = att[t].pc /\ att'[t].run = att[t].run
                                   /\ att'[t].rec = att[t].rec
    BY <1>1, <2>1 DEF SetFlag, Attempt
  <2>2. CASE CancelSaved(c)
    BY <2>2 DEF CancelSaved, taskVars
  <2> QED
    BY <2>1, <2>2 DEF Cancel
<1>4. ASSUME NEW x \in Write, x.by # <<"cancel", c>>, Claimed(x)
      PROVE  Claimed(x)'
  BY <1>2, <1>3, <1>4, ClaimKept
<1>5. ASSUME NEW r \in Runs, Cancel(c, r)
      PROVE  Queued' /\ Unborn'
  <2>1. store[r] \in Record /\ creating[r] \notin {"none", "saving"}
    BY <1>1, <1>5 DEF Cancel, StoreType, Unborn
  <2>2. PICK rec \in Record : rec = [store[r] EXCEPT !.status = "cancelled"]
    BY <2>1, RecordTypes DEF TerminalStatuses
  <2>3. PICK e \in Write : e = Entry(<<"cancel", c>>, r, rec)
    BY DEF Entry, Write, Actors
  <2>4. e.by = <<"cancel", c>> /\ e.run = r /\ e.rec.status = "cancelled"
    BY <2>1, <2>2, <2>3 DEF Entry, Record
  <2>5. writes' = Append(writes, e) /\ cancels'[c] = "saving" /\ cancels[c] = "idle" /\ store' = store
    BY <1>1, <1>5, <2>2, <2>3 DEF Cancel, Save
  <2>6. Claimed(e)'
    BY <1>2, <2>1, <2>4, <2>5 DEF Claimed
  <2>7. \A x \in Write : x.by = <<"cancel", c>> => ~Claimed(x)
    BY <2>5, ClaimBy
  <2>8. Queued'
    BY <1>1, <1>4, <2>4, <2>5, <2>6, <2>7, QueuedSave
  <2> QED
    BY <1>2, <1>3, <2>5, <2>8 DEF Unborn
<1>6. CASE CancelSaved(c)
  <2>1. Saved(<<"cancel", c>>)
    BY <1>6 DEF CancelSaved
  <2>2. creating[Head(writes).run] \notin {"none", "saving"}
    BY <1>1, <2>1, HeadClaimed, ClaimBy DEF Saved
  <2>3. \A r \in Runs : creating[r] \in {"none", "saving"} => store'[r] = store[r]
    BY <1>1, <2>1, <2>2 DEF Saved, Written, StoreType
  <2>4. Queued'
    BY <1>1, <1>4, <2>1, QueuedSaved
  <2> QED
    BY <1>2, <1>3, <2>3, <2>4 DEF Unborn
<1> QED
  BY <1>5, <1>6

LEMMA PollQueued ==
    ASSUME Shape, Queued, Unborn, Poll \/ PollSaved
    PROVE  Queued' /\ Unborn'
<1>1. StoreType /\ RequestVarsType
  BY TypeParts DEF Shape
<1>2. UNCHANGED <<att, creating, cancels, resumes>>
  BY DEF Poll, PollSaved, taskVars
<1>3. ASSUME NEW x \in Write, x.by # <<"poll", None>>, Claimed(x)
      PROVE  Claimed(x)'
  BY <1>2, <1>3, ClaimKept
<1>4. ASSUME NEW copy \in [Runs -> Record \cup {None}], NEW todo, NEW rest, NEW r \in Runs,
             \A s \in Runs : creating[s] \in {"none", "saving"} => copy[s] = None,
             NextOrphan(copy, todo, rest, r)
      PROVE  \E e \in Write :
                /\ e = Entry(<<"poll", None>>, r, [copy[r] EXCEPT !.status = "failed"])
                /\ e.by = <<"poll", None>>
                /\ Claimed(e)'
  <2>1. copy[r] \in Record /\ creating[r] \notin {"none", "saving"}
    BY <1>4 DEF NextOrphan, Orphan
  <2>2. [copy[r] EXCEPT !.status = "failed"] \in Record
        /\ [copy[r] EXCEPT !.status = "failed"].status = "failed"
    BY <2>1, RecordTypes DEF TerminalStatuses, Record
  <2>3. PICK e \in Write : e = Entry(<<"poll", None>>, r, [copy[r] EXCEPT !.status = "failed"])
    BY <2>2 DEF Entry, Write, Actors
  <2>4. e.by = <<"poll", None>> /\ e.run = r /\ e.rec.status = "failed"
    BY <2>2, <2>3 DEF Entry
  <2>5. poll'.busy
    BY <1>4 DEF NextOrphan
  <2>6. Claimed(e)'
    BY <1>2, <2>1, <2>4, <2>5 DEF Claimed
  <2> QED
    BY <2>3, <2>4, <2>6
<1>5. CASE Poll
  <2>1. PICK r \in Runs, R \in SUBSET Runs, rest \in SUBSET Runs :
           /\ NextOrphan(store, R, rest, r)
           /\ Save(<<"poll", None>>, r, [store[r] EXCEPT !.status = "failed"])
    BY <1>5 DEF Poll
  <2>2. PICK e \in Write :
           /\ e = Entry(<<"poll", None>>, r, [store[r] EXCEPT !.status = "failed"])
           /\ e.by = <<"poll", None>> /\ Claimed(e)'
    BY <1>1, <1>4, <2>1 DEF StoreType, Unborn
  <2>3. writes' = Append(writes, e) /\ store' = store
    BY <2>1, <2>2 DEF Save
  <2>4. \A x \in Write : x.by = <<"poll", None>> => ~Claimed(x)
    BY <1>5, ClaimBy DEF Poll
  <2>5. Queued'
    BY <1>1, <1>3, <2>2, <2>3, <2>4, QueuedSave
  <2>6. poll'.copy = store
    BY <2>1 DEF NextOrphan
  <2> QED
    BY <1>2, <2>3, <2>5, <2>6 DEF Unborn
<1>6. CASE PollSaved
  <2>1. Turn(<<"poll", None>>) /\ store' = Written /\ poll.busy
    BY <1>6 DEF PollSaved, Saved, SavedThenSave
  <2>2. creating[Head(writes).run] \notin {"none", "saving"}
    BY <1>1, <2>1, HeadClaimed, ClaimBy
  <2>3. \A r \in Runs : creating[r] \in {"none", "saving"} => store'[r] = store[r]
    BY <1>1, <2>1, <2>2 DEF Written, StoreType
  <2>4. CASE Saved(<<"poll", None>>) /\ poll' = IdlePoll
    <3>1. Queued'
      BY <1>1, <1>3, <2>4, QueuedSaved
    <3> QED
      BY <1>2, <2>3, <2>4, <3>1 DEF Unborn, IdlePoll
  <2>5. ASSUME NEW r \in poll.todo, NEW rest,
               NextOrphan(poll.copy, poll.todo, rest, r),
               SavedThenSave(<<"poll", None>>, r, [poll.copy[r] EXCEPT !.status = "failed"])
        PROVE  Queued' /\ Unborn'
    <3>1. r \in Runs /\ poll.copy \in [Runs -> Record \cup {None}]
      BY <1>1 DEF RequestVarsType
    <3>2. \A s \in Runs : creating[s] \in {"none", "saving"} => poll.copy[s] = None
      BY <2>1 DEF Unborn
    <3>3. PICK e \in Write :
             /\ e = Entry(<<"poll", None>>, r, [poll.copy[r] EXCEPT !.status = "failed"])
             /\ e.by = <<"poll", None>> /\ Claimed(e)'
      BY <1>4, <2>5, <3>1, <3>2
    <3>4. writes' = Append(Tail(writes), e)
      BY <2>5, <3>3 DEF SavedThenSave
    <3>5. Queued'
      BY <1>1, <1>3, <2>1, <3>3, <3>4, QueuedSavedThenSave
    <3>6. poll'.copy = poll.copy
      BY <2>5 DEF NextOrphan
    <3> QED
      BY <1>2, <2>1, <2>3, <3>5, <3>6 DEF Unborn
  <2> QED
    BY <1>6, <2>4, <2>5 DEF PollSaved
<1> QED
  BY <1>5, <1>6

LEMMA StopQueued ==
    ASSUME Shape, Unborn, Shutdown \/ Restart
    PROVE  Queued' /\ Unborn'
<1>1. writes' = <<>> /\ store' = store
  BY DEF Shutdown, Restart
<1>2. Queued'
  BY <1>1 DEF Queued
<1>3. att \in [Attempts -> Attempt] /\ creating \in [Runs -> {"none", "saving", "failing", "done"}]
  BY DEF Shape, TypeOK
<1>4. \A r \in Runs : creating'[r] \in {"none", "saving"} => creating[r] \in {"none", "saving"}
  BY <1>3 DEF Shutdown, Restart
<1>5. \A t \in Attempts : att'[t].run = att[t].run \/ att'[t].run = None
  <2>1. CASE Shutdown
    <3>1. \A a \in Attempt : CancelledTask(a).run = a.run
      BY DEF CancelledTask, Attempt
    <3>2. \A t \in Attempts : att'[t] = CancelledTask(att[t])
      BY <2>1 DEF Shutdown
    <3> QED
      BY <1>3, <3>1, <3>2
  <2>2. CASE Restart
    <3>1. \A t \in Attempts : att'[t] = IF att[t].pc = "unused" THEN att[t]
                                        ELSE [Unused EXCEPT !.pc = "dead"]
      BY <2>2 DEF Restart
    <3>2. [Unused EXCEPT !.pc = "dead"].run = None
      BY DEF Unused
    <3> QED
      BY <3>1, <3>2
  <2> QED
    BY <2>1, <2>2
<1>6. \A q \in Resumers : resumes'[q].run = None
  BY DEF Shutdown, Restart, IdleResume
<1>7. ~poll'.busy
  BY DEF Shutdown, Restart, IdlePoll
<1>8. Unborn'
  BY <1>1, <1>4, <1>5, <1>6, <1>7, RunsAssumption DEF Unborn
<1> QED
  BY <1>2, <1>8

\* While a resume is under way no task of its run is at work.
Undisturbed ==
    \A q \in Resumers :
        resumes[q].pc \in {"getwf", "saving"} =>
            \A t \in Attempts : Live(t) => att[t].run # resumes[q].run

LEMMA ResumeQueued ==
    ASSUME Shape, Queued, Unborn, Undisturbed, NEW q \in Resumers,
           \/ \E r \in Runs : ResumeRequest(q, r)
           \/ ResumeRejected(q) \/ ResumePrepare(q) \/ ResumeLaunch(q)
    PROVE  Queued' /\ Unborn'
<1>1. /\ StoreType /\ att \in [Attempts -> Attempt] /\ resumes \in [Resumers -> ResumeCall]
      /\ TypeOK /\ RunsKnown /\ Reserved
  BY TypeParts DEF Shape, TypeOK
<1>2. UNCHANGED <<creating, cancels, poll>>
  BY DEF ResumeRequest, ResumeRejected, ResumePrepare, ResumeLaunch
<1>3. ASSUME NEW x \in Write, x.by # <<"resume", q>>, Claimed(x),
             \A p \in Resumers \ {q} : resumes'[p] = resumes[p],
             \A t \in Attempts : att[t].pc \in SavingStates => att'[t] = att[t]
      PROVE  Claimed(x)'
  BY <1>2, <1>3, ClaimKept DEF SavingStates
<1>0. resumes' \in [Resumers -> ResumeCall]
  BY ResumeType DEF TypeOK
<1>4. ASSUME NEW r \in Runs, ResumeRequest(q, r)
      PROVE  Queued' /\ Unborn'
  <2>1. /\ resumes[q].pc = "idle" /\ resumes'[q].run = r /\ store[r] # None
        /\ \A p \in Resumers \ {q} : resumes'[p] = resumes[p]
        /\ UNCHANGED <<store, writes, att>>
    BY <1>1, <1>4 DEF ResumeRequest, IdleResume, taskVars
  <2>2. ASSUME NEW x \in Write, Claimed(x)
        PROVE  Claimed(x)'
    BY <1>3, <2>1, <2>2, ClaimBy
  <2>3. Queued'
    BY <1>1, <2>1, <2>2, QueuedKept
  <2> QED
    BY <1>2, <2>1, <2>3 DEF Unborn
<1>5. CASE resumes[q].pc = "getwf" /\ ResumeDone(q) /\ UNCHANGED <<store, writes, att>>
  <2>1. /\ resumes'[q].run = resumes[q].run
        /\ \A p \in Resumers \ {q} : resumes'[p] = resumes[p]
    BY <1>1, <1>5 DEF ResumeDone, ResumeCall
  <2>2. ASSUME NEW x \in Write, Claimed(x)
        PROVE  Claimed(x)'
    BY <1>3, <1>5, <2>1, <2>2, ClaimBy
  <2>3. Queued'
    BY <1>1, <1>5, <2>2, QueuedKept
  <2> QED
    BY <1>2, <1>5, <2>1, <2>3 DEF Unborn
<1>6. ASSUME NEW rec, NEW from, resumes[q].pc = "getwf", Prepared(q, rec, from)
      PROVE  Queued' /\ Unborn'
  <2>1. resumes[q].run \in Runs
    BY <1>1, <1>6 DEF RunsKnown
  <2>2. NextAttempt \in Attempts /\ att[NextAttempt].pc = "unused"
    BY <1>1, <1>6, AttemptLeft DEF Asking
  <2>3. /\ att'[NextAttempt].run = resumes[q].run
        /\ \A u \in Attempts \ {NextAttempt} : att'[u] = att[u]
    BY <1>1, <1>6, <2>2 DEF Prepared, NewAttempt, Unused
  <2>4. /\ resumes'[q].pc = "saving" /\ resumes'[q].run = resumes[q].run
        /\ \A p \in Resumers \ {q} : resumes'[p] = resumes[p]
    BY <1>1, <1>6 DEF Prepared, ResumeCall
  <2>5. PICK e \in Write : e = Entry(<<"resume", q>>, resumes[q].run, rec)
    <3>1. rec \in Record
      BY <1>0, <1>1, <1>6 DEF Prepared, ResumeCall
    <3> QED
      BY <2>1, <3>1 DEF Entry, Write, Actors
  <2>6. e.by = <<"resume", q>> /\ e.run = resumes[q].run /\ e.rec.status = "running"
    BY <1>6, <2>5 DEF Entry, Prepared
  <2>7. writes' = Append(writes, e) /\ store' = store
    BY <1>6, <2>5 DEF Prepared, Save
  <2>8. Claimed(e)'
    BY <2>4, <2>6 DEF Claimed
  <2>9. \A x \in Write : x.by = <<"resume", q>> => ~Claimed(x)
    BY <1>6, ClaimBy
  <2>10. ASSUME NEW x \in Write, x.by # <<"resume", q>>, Claimed(x)
         PROVE  Claimed(x)'
    BY <1>3, <2>2, <2>3, <2>4, <2>10 DEF SavingStates
  <2>11. Queued'
    BY <1>1, <2>6, <2>7, <2>8, <2>9, <2>10, QueuedSave
  <2>12. \A t \in Attempts : att'[t].run = att[t].run \/ att'[t].run = resumes[q].run
    BY <2>3
  <2> QED
    BY <1>2, <2>4, <2>7, <2>11, <2>12 DEF Unborn
<1>7. CASE ResumeLaunch(q)
  <2>1. /\ resumes[q].pc = "saving" /\ Saved(<<"resume", q>>) /\ ResumeDone(q)
        /\ att' = [att EXCEPT ![resumes[q].t].pc = "start"]
    BY <1>7 DEF ResumeLaunch
  <2>2. /\ resumes[q].t \in Attempts /\ att[resumes[q].t].run = resumes[q].run
        /\ resumes[q].run \in Runs
    BY <1>1, <2>1 DEF RunsKnown
  <2>3. att[resumes[q].t].pc \notin SavingStates
    BY <2>1, <2>2 DEF Undisturbed, Live, SavingStates
  <2>4. /\ \A u \in Attempts \ {resumes[q].t} : att'[u] = att[u]
        /\ att'[resumes[q].t].run = resumes[q].run
    BY <1>1, <2>1, <2>2 DEF Attempt
  <2>5. /\ resumes'[q].run = resumes[q].run
        /\ \A p \in Resumers \ {q} : resumes'[p] = resumes[p]
    BY <1>1, <2>1 DEF ResumeDone, ResumeCall
  <2>6. ASSUME NEW x \in Write, x.by # <<"resume", q>>, Claimed(x)
        PROVE  Claimed(x)'
    BY <1>3, <2>3, <2>4, <2>5, <2>6
  <2>7. Queued'
    BY <1>1, <2>1, <2>6, QueuedSaved
  <2>8. Head(writes).run = resumes[q].run
    BY <1>1, <2>1, HeadClaimed, ClaimBy DEF Saved
  <2>9. \A r \in Runs : creating[r] \in {"none", "saving"} => store'[r] = store[r]
    BY <1>1, <2>1, <2>8 DEF Saved, Written, StoreType, Unborn
  <2>10. \A t \in Attempts : att'[t].run = att[t].run
    BY <2>2, <2>4
  <2> QED
    BY <1>2, <2>5, <2>7, <2>9, <2>10 DEF Unborn
<1>8. CASE ResumePrepare(q)
  <2>1. CASE \E rec, from : Prepared(q, rec, from)
    BY <1>1, <1>6, <1>8, <2>1, PrepareEffect
  <2>2. CASE ResumeDone(q) /\ UNCHANGED <<store, writes, tasks, flags, att, ckpts>>
    BY <1>1, <1>5, <1>8, <2>2, PrepareEffect
  <2> QED
    BY <1>1, <1>8, <2>1, <2>2, PrepareEffect
<1> QED
  BY <1>4, <1>5, <1>7, <1>8 DEF ResumeRejected, taskVars

LEMMA QueuedStep ==
    ASSUME Shape, Queued, Unborn, Undisturbed, [Next]_vars
    PROVE  Queued' /\ Unborn'
<1>1. CASE UNCHANGED <<store, writes, att, creating, cancels, resumes, poll>>
  <2>1. Queued'
    BY <1>1 DEF Queued, Claimed
  <2> QED
    BY <1>1, <2>1 DEF Unborn
<1>2. CASE UNCHANGED vars \/ (Tick /\ UNCHANGED <<store, writes, taskVars, requestVars, lifeVars>>)
  BY <1>1, <1>2 DEF vars, taskVars, requestVars
<1> QED
  BY <1>2, TaskQueued, CreateQueued, CancelQueued, PollQueued, StopQueued, ResumeQueued
     DEF Next, RequestStep, Crash, ShutdownOver

-----------------------------------------------------------------------------
(* What steps do to streams *)

\* A stream whose window shows its end counts as completed.
EndedTold == \A s \in StreamIds : HasEnded(s) => done[s]

LEMMA StreamCreated ==
    ASSUME RuntimeTypeOK, NEW r \in Runs, CreateStream(r)
    PROVE  /\ r \in open' /\ ~done'[r]
           /\ \A s \in Runs \ {r} : done'[s] = done[s] /\ (s \in open' => s \in open)
           /\ ActiveKept
           /\ EndedTold => EndedTold'
<1>1. RuntimeStep
  BY DEF RuntimeStep, StreamCall, Runs
<1>2. ActiveKept
  BY <1>1, ActiveKeptStep
<1>3. r \in open' /\ ~done'[r] /\ \A s \in Runs \ {r} : done'[s] = done[s] /\ events'[s] = events[s]
  BY DEF CreateStream, ReuseStream, AddStream, RuntimeTypeOK, Runs
<1>4. open' \subseteq open \cup {r}
  BY SurvivingSubset DEF CreateStream, ReuseStream, AddStream, MakeRoom
<1>5. events'[r] = <<>> \/ (~done[r] /\ events'[r] = events[r])
  <2>1. CASE ReuseStream(r)
    <3>1. events'[r] = IF done[r] THEN <<>> ELSE events[r]
      BY <2>1 DEF ReuseStream, RuntimeTypeOK, Runs
    <3> QED
      BY <3>1
  <2>2. CASE AddStream(r, {})
    <3>1. events'[r] = <<>>
      BY <2>2 DEF AddStream, RuntimeTypeOK, Runs
    <3> QED
      BY <3>1
  <2> QED
    BY <2>1, <2>2 DEF CreateStream
<1>6. ASSUME EndedTold
      PROVE  EndedTold'
  <2>1. \A s \in Runs \ {r} : HasEnded(s)' => HasEnded(s)
    BY <1>3 DEF HasEnded
  <2>2. ~HasEnded(r)'
    <3>1. CASE events'[r] = <<>>
      <4>1. Len(events'[r]) = 0
        BY <3>1, EmptySeq
      <4> QED
        BY <4>1 DEF HasEnded
    <3>2. CASE ~done[r] /\ events'[r] = events[r]
      BY <1>6, <3>2 DEF HasEnded, EndedTold, Runs
    <3> QED
      BY <1>5, <3>1, <3>2
  <2> QED
    BY <1>3, <1>6, <2>1, <2>2 DEF EndedTold, Runs
<1> QED
  BY <1>2, <1>3, <1>4, <1>6

LEMMA EventAppended ==
    ASSUME RuntimeTypeOK, NEW r \in Runs, NEW kind \in Kinds, AppendEvent(r, kind)
    PROVE  /\ done'[r] = (done[r] \/ kind \in TerminalKinds)
           /\ \A s \in Runs \ {r} : done'[s] = done[s]
           /\ open' \subseteq open
           /\ ActiveKept
           /\ EndedTold => EndedTold'
<1> DEFINE p == [n |-> produced[r] + 1, seq |-> seq[r] + 1, kind |-> kind]
           w == PushWindow(events[r], p)
<1>1. RuntimeStep
  BY DEF RuntimeStep, StreamCall, Runs
<1>2. ActiveKept
  BY <1>1, ActiveKeptStep
<1>3. p \in Payload /\ p.kind = kind /\ events[r] \in Seq(Payload)
  BY EventType DEF RuntimeTypeOK, Runs
<1>4. /\ done'[r] = (done[r] \/ kind \in TerminalKinds)
      /\ \A s \in Runs \ {r} : done'[s] = done[s] /\ events'[s] = events[s]
      /\ events'[r] = w
  BY DEF AppendEvent, RuntimeTypeOK, Runs, IsTerminal
<1>5. open' \subseteq open
  BY SurvivingSubset DEF AppendEvent
<1> HIDE DEF p, w
<1>6. \A i \in 1..Len(w) : w[i] = p \/ \E j \in 1..Len(events[r]) : w[i] = events[r][j]
  <2> DEFINE gone == Len(events[r]) + 1 - Len(w)
  <2>1. /\ gone \in {0, 1} /\ w[Len(w)] = p /\ Len(w) \in Nat /\ Len(events[r]) \in Nat
        /\ \A i \in 1..(Len(w) - 1) : w[i] = events[r][i + gone]
    BY <1>3, PushProperties, LenProperties DEF w
  <2> HIDE DEF gone
  <2>2. \A i \in 1..(Len(w) - 1) : i + gone \in 1..Len(events[r])
    BY <2>1 DEF gone
  <2> QED
    BY <2>1, <2>2
<1>7. ASSUME EndedTold
      PROVE  EndedTold'
  <2>1. \A s \in Runs \ {r} : HasEnded(s)' => HasEnded(s)
    BY <1>4 DEF HasEnded
  <2>2. HasEnded(r)' => HasEnded(r) \/ kind = "ended"
    BY <1>3, <1>4, <1>6 DEF HasEnded
  <2>3. HasEnded(r)' => done'[r]
    BY <1>4, <1>7, <2>2 DEF EndedTold, TerminalKinds, Runs
  <2> QED
    BY <1>4, <1>7, <2>1, <2>3 DEF EndedTold, Runs
<1> QED
  BY <1>2, <1>4, <1>5, <1>7

\* The calls of the runtime that neither add a stream nor append to one.
StreamsLeft == /\ open' \in {open, Surviving}
               /\ UNCHANGED <<done, events>>

LEMMA StreamsStay ==
    ASSUME StreamsLeft
    PROVE  open' \subseteq open /\ ActiveKept /\ (EndedTold => EndedTold')
<1>1. EndedTold => EndedTold'
  BY DEF StreamsLeft, EndedTold, HasEnded
<1> QED
  BY <1>1, SurvivingSubset DEF StreamsLeft, ActiveKept

-----------------------------------------------------------------------------
(* The steps of the module, by what they do to tasks and records *)

SameTask(t) ==
    /\ att'[t].pc = att[t].pc /\ att'[t].run = att[t].run /\ att'[t].rec = att[t].rec
    /\ att'[t].term = att[t].term /\ att'[t].heeded = att[t].heeded

\* The record of r is as it was, or it is settled, or r is being refused.
RecordKept(r) ==
    \/ store'[r] = store[r]
    \/ store'[r].status \in TerminalStatuses
    \/ creating[r] = "saving" /\ creating'[r] = "failing"

\* Steps of the requests that leave the tasks alone.
Quiet ==
    /\ \A t \in Attempts : SameTask(t)
    /\ UNCHANGED <<tasks, stops, stopping>>
    /\ StreamsLeft
    /\ \A q \in Resumers :
          resumes'[q].pc \in {"getwf", "saving"} =>
              \/ resumes[q].pc = resumes'[q].pc /\ resumes'[q].run = resumes[q].run
              \/ resumes'[q].pc = "getwf" /\ ~TaskActive(resumes'[q].run)
    /\ \A r \in Runs :
          /\ RecordKept(r)
          /\ creating[r] = "failing" =>
                creating'[r] = "failing" \/ store'[r].status \in TerminalStatuses

\* create_workflow_run and resume_workflow_run where they start a task.
Launched(r, t) ==
    /\ creating[r] = "saving" /\ creating' = [creating EXCEPT ![r] = "done"]
    /\ att[t].pc = "unused" /\ att'[t].pc = "start" /\ att'[t].run = r
    /\ \A u \in Attempts \ {t} : att'[u] = att[u]
    /\ tasks' = [tasks EXCEPT ![r] = t]
    /\ CreateStream(r)
    /\ \A s \in Runs \ {r} : store'[s] = store[s]
    /\ UNCHANGED <<resumes, stops, stopping>>

Readied(q, t) ==
    /\ resumes[q].pc = "getwf" /\ resumes'[q].pc = "saving" /\ resumes'[q].run = resumes[q].run
    /\ \A p \in Resumers \ {q} : resumes'[p] = resumes[p]
    /\ att[t].pc = "unused" /\ att'[t].pc = "dead"
    /\ \A u \in Attempts \ {t} : att'[u] = att[u]
    /\ CreateStream(resumes[q].run)
    /\ UNCHANGED <<store, tasks, creating, stops, stopping>>

Resumed(q) ==
    LET t == resumes[q].t
    IN  /\ resumes[q].pc = "saving" /\ resumes'[q].pc = "done"
        /\ \A p \in Resumers \ {q} : resumes'[p] = resumes[p]
        /\ att'[t].pc = "start" /\ att'[t].run = resumes[q].run
        /\ \A u \in Attempts \ {t} : att'[u] = att[u]
        /\ tasks' = [tasks EXCEPT ![resumes[q].run] = t]
        /\ \A s \in Runs \ {resumes[q].run} : store'[s] = store[s]
        /\ UNCHANGED <<creating, open, done, events, stops, stopping>>

LEMMA CreateKind ==
    ASSUME Shape, Queued, NEW r \in Runs, CreateRun(r) \/ LaunchRun(r) \/ RunRefused(r)
    PROVE  Quiet \/ \E t \in Attempts : Launched(r, t)
<1>1. /\ StoreType /\ att \in [Attempts -> Attempt]
      /\ creating \in [Runs -> {"none", "saving", "failing", "done"}]
  BY TypeParts DEF Shape, TypeOK
<1>2. CASE CreateRun(r)
  <2>1. /\ UNCHANGED <<att, tasks, stops, stopping, open, done, events, resumes, store>>
        /\ creating[r] = "none" /\ \A s \in Runs \ {r} : creating'[s] = creating[s]
    BY <1>1, <1>2 DEF CreateRun, Save, taskVars, lifeVars, runtimeVars
  <2> QED
    BY <2>1 DEF Quiet, SameTask, StreamsLeft, RecordKept
<1>3. ASSUME Turn(<<"create", r>>), store' = Written
      PROVE  /\ \A s \in Runs \ {r} : store'[s] = store[s]
             /\ creating[r] = "failing" => store'[r].status = "failed"
  <2>1. Head(writes).run = r /\ (creating[r] = "failing" => Head(writes).rec.status = "failed")
    BY <1>1, <1>3, HeadClaimed, ClaimBy
  <2> QED
    BY <1>1, <1>3, <2>1 DEF Written, StoreType
<1>4. CASE LaunchRun(r) /\ StartTask(r)
  <2>1. NextAttempt \in Attempts /\ att[NextAttempt].pc = "unused"
    BY <1>4, AttemptLeft DEF Shape, Starting, LaunchRun
  <2>2. /\ att'[NextAttempt].pc = "start" /\ att'[NextAttempt].run = r
        /\ \A u \in Attempts \ {NextAttempt} : att'[u] = att[u]
    BY <1>1, <1>4, <2>1 DEF StartTask, NewAttempt, Unused
  <2>3. CreateStream(r) /\ Saved(<<"create", r>>)
    BY <1>1, <1>4, <2>2 DEF LaunchRun, taskVars, StartTask, RefuseRun
  <2>4. \A s \in Runs \ {r} : store'[s] = store[s]
    BY <1>3, <2>3 DEF Saved
  <2>5. creating[r] = "saving" /\ UNCHANGED <<resumes, stops, stopping>>
    BY <1>4 DEF LaunchRun, lifeVars
  <2>6. tasks' = [tasks EXCEPT ![r] = NextAttempt] /\ creating' = [creating EXCEPT ![r] = "done"]
    BY <1>4 DEF StartTask
  <2>7. Launched(r, NextAttempt)
    BY <2>1, <2>2, <2>3, <2>4, <2>5, <2>6 DEF Launched
  <2> QED
    BY <2>1, <2>7
<1>5. CASE LaunchRun(r) /\ Lookup /\ RefuseRun(r) /\ UNCHANGED taskVars
  <2>1. /\ Turn(<<"create", r>>) /\ store' = Written
        /\ creating[r] = "saving" /\ creating'[r] = "failing"
        /\ \A s \in Runs \ {r} : creating'[s] = creating[s]
    BY <1>1, <1>5 DEF LaunchRun, RefuseRun, SavedThenSave
  <2>2. UNCHANGED <<att, tasks, stops, stopping, resumes, done, events>> /\ open' = Surviving
    BY <1>5 DEF LaunchRun, Lookup, taskVars, lifeVars
  <2> QED
    BY <1>3, <2>1, <2>2 DEF Quiet, SameTask, StreamsLeft, RecordKept
<1>6. CASE RunRefused(r)
  <2>1. /\ Turn(<<"create", r>>) /\ store' = Written
        /\ creating[r] = "failing" /\ \A s \in Runs \ {r} : creating'[s] = creating[s]
    BY <1>1, <1>6 DEF RunRefused, Saved
  <2>2. UNCHANGED <<att, tasks, stops, stopping, resumes, open, done, events>>
    BY <1>6 DEF RunRefused, taskVars, lifeVars, runtimeVars
  <2> QED
    BY <1>3, <2>1, <2>2 DEF Quiet, SameTask, StreamsLeft, RecordKept, TerminalStatuses
<1> QED
  BY <1>2, <1>4, <1>5, <1>6 DEF LaunchRun

LEMMA CancelPollKind ==
    ASSUME Shape, Queued,
           \/ \E c \in Cancellers : CancelSaved(c) \/ \E r \in Runs : Cancel(c, r)
           \/ Poll \/ PollSaved
    PROVE  Quiet
<1>1. StoreType /\ att \in [Attempts -> Attempt]
  BY TypeParts DEF Shape, TypeOK
<1>2. /\ UNCHANGED <<creating, resumes, tasks, stops, stopping, open, done, events>>
  BY DEF Cancel, CancelSaved, Poll, PollSaved, taskVars, lifeVars, runtimeVars, KeepRegistered
<1>3. \A t \in Attempts : SameTask(t)
  <2>1. ASSUME NEW r \in Runs, SetFlag(r)
        PROVE  \A t \in Attempts : SameTask(t)
    BY <1>1, <2>1 DEF SetFlag, Attempt, SameTask
  <2> QED
    BY <2>1 DEF Cancel, CancelSaved, Poll, PollSaved, taskVars, SameTask
<1>4. ASSUME NEW by, Turn(by), store' = Written,
             by = <<"poll", None>> \/ \E c : by = <<"cancel", c>>
      PROVE  \A r \in Runs : store'[r] = store[r] \/ store'[r].status \in TerminalStatuses
  <2>1. Head(writes).run \in Runs /\ Head(writes).rec.status \in TerminalStatuses
    BY <1>1, <1>4, HeadClaimed, ClaimBy DEF TerminalStatuses, Write
  <2> QED
    BY <1>1, <1>4, <2>1 DEF Written, StoreType
<1>5. \/ store' = store
      \/ \E c : Turn(<<"cancel", c>>) /\ store' = Written
      \/ Turn(<<"poll", None>>) /\ store' = Written
  BY DEF Cancel, CancelSaved, Poll, PollSaved, Save, Saved, SavedThenSave
<1>6. \A r \in Runs : store'[r] = store[r] \/ store'[r].status \in TerminalStatuses
  BY <1>4, <1>5
<1> QED
  BY <1>2, <1>3, <1>6 DEF Quiet, StreamsLeft, RecordKept

LEMMA ResumeKind ==
    ASSUME Shape, Queued, NEW q \in Resumers,
           \/ \E r \in Runs : ResumeRequest(q, r)
           \/ ResumeRejected(q) \/ ResumePrepare(q) \/ ResumeLaunch(q)
    PROVE  Quiet \/ Resumed(q) \/ \E t \in Attempts : Readied(q, t)
<1>1. /\ StoreType /\ att \in [Attempts -> Attempt] /\ resumes \in [Resumers -> ResumeCall]
      /\ TypeOK /\ RunsKnown /\ Reserved
  BY TypeParts DEF Shape, TypeOK
<1>2. UNCHANGED <<creating, stops, stopping>>
  BY DEF ResumeRequest, ResumeRejected, ResumePrepare, ResumeLaunch, lifeVars
<1>3. ASSUME NEW r \in Runs, ResumeRequest(q, r)
      PROVE  Quiet
  <2>1. /\ resumes'[q].pc = "getwf" /\ ~TaskActive(resumes'[q].run)
        /\ \A p \in Resumers \ {q} : resumes'[p] = resumes[p]
    BY <1>1, <1>3 DEF ResumeRequest, IdleResume, Resumable
  <2>2. UNCHANGED <<att, tasks, open, done, events, store>>
    BY <1>3 DEF ResumeRequest, taskVars, runtimeVars
  <2> QED
    BY <1>2, <2>1, <2>2 DEF Quiet, SameTask, StreamsLeft, RecordKept
<1>4. CASE ResumeDone(q) /\ UNCHANGED <<store, tasks, att>> /\ (Lookup \/ UNCHANGED runtimeVars)
  <2>1. resumes'[q].pc = "done" /\ \A p \in Resumers \ {q} : resumes'[p] = resumes[p]
    BY <1>1, <1>4 DEF ResumeDone, ResumeCall
  <2>2. StreamsLeft
    BY <1>4 DEF StreamsLeft, Lookup, runtimeVars
  <2> QED
    BY <1>2, <1>4, <2>1, <2>2 DEF Quiet, SameTask, RecordKept
<1>5. ASSUME NEW rec, NEW from, resumes[q].pc = "getwf", Prepared(q, rec, from)
      PROVE  \E t \in Attempts : Readied(q, t)
  <2>1. NextAttempt \in Attempts /\ att[NextAttempt].pc = "unused"
    BY <1>1, <1>5, AttemptLeft DEF Asking
  <2>2. att'[NextAttempt].pc = "dead" /\ \A u \in Attempts \ {NextAttempt} : att'[u] = att[u]
    BY <1>1, <1>5, <2>1 DEF Prepared, NewAttempt, Unused
  <2>3. /\ resumes'[q].pc = "saving" /\ resumes'[q].run = resumes[q].run
        /\ \A p \in Resumers \ {q} : resumes'[p] = resumes[p]
    BY <1>1, <1>5 DEF Prepared, ResumeCall
  <2>4. CreateStream(resumes[q].run) /\ UNCHANGED <<store, tasks>>
    BY <1>5 DEF Prepared, Save
  <2>5. Readied(q, NextAttempt)
    BY <1>2, <1>5, <2>1, <2>2, <2>3, <2>4 DEF Readied
  <2> QED
    BY <2>1, <2>5
<1>6. CASE ResumeLaunch(q)
  <2>1. /\ resumes[q].pc = "saving" /\ Saved(<<"resume", q>>) /\ ResumeDone(q)
        /\ att' = [att EXCEPT ![resumes[q].t].pc = "start"]
        /\ tasks' = [tasks EXCEPT ![resumes[q].run] = resumes[q].t]
        /\ UNCHANGED <<open, done, events>>
    BY <1>6 DEF ResumeLaunch, runtimeVars
  <2>2. /\ resumes[q].t \in Attempts /\ att[resumes[q].t].run = resumes[q].run
        /\ resumes[q].run \in Runs
    BY <1>1, <2>1 DEF RunsKnown
  <2>3. /\ att'[resumes[q].t].pc = "start" /\ att'[resumes[q].t].run = resumes[q].run
        /\ \A u \in Attempts \ {resumes[q].t} : att'[u] = att[u]
    BY <1>1, <2>1, <2>2 DEF Attempt
  <2>4. resumes'[q].pc = "done" /\ \A p \in Resumers \ {q} : resumes'[p] = resumes[p]
    BY <1>1, <2>1 DEF ResumeDone, ResumeCall
  <2>5. Head(writes).run = resumes[q].run
    BY <1>1, <2>1, HeadClaimed, ClaimBy DEF Saved
  <2>6. \A s \in Runs \ {resumes[q].run} : store'[s] = store[s]
    BY <1>1, <2>1, <2>5 DEF Saved, Written, StoreType
  <2>7. Resumed(q)
    BY <1>2, <2>1, <2>3, <2>4, <2>6 DEF Resumed
  <2> QED
    BY <2>7
<1>7. CASE ResumePrepare(q)
  <2>1. CASE \E rec, from : Prepared(q, rec, from)
    BY <1>1, <1>5, <1>7, <2>1, PrepareEffect
  <2> QED
    BY <1>1, <1>4, <1>7, <2>1, PrepareEffect
<1> QED
  BY <1>3, <1>4, <1>6, <1>7 DEF ResumeRejected, taskVars

LEMMA StepKinds ==
    ASSUME Shape, Queued, [Next]_vars
    PROVE  \/ \E t \in Attempts : TaskStep(t)
           \/ Quiet
           \/ \E r \in Runs, t \in Attempts : Launched(r, t)
           \/ \E q \in Resumers : Resumed(q) \/ \E t \in Attempts : Readied(q, t)
           \/ Crash \/ Shutdown \/ ShutdownOver
<1>1. CASE UNCHANGED vars \/ (Tick /\ UNCHANGED <<store, writes, taskVars, requestVars, lifeVars>>)
  <2>1. UNCHANGED <<store, att, tasks, creating, resumes, stops, stopping>>
    BY <1>1 DEF vars, taskVars, requestVars, lifeVars
  <2>2. StreamsLeft
    BY <1>1 DEF StreamsLeft, Tick, vars, runtimeVars
  <2>3. Quiet
    BY <2>1, <2>2 DEF Quiet, SameTask, RecordKept
  <2> QED
    BY <2>3
<1> QED
  BY <1>1, CreateKind, CancelPollKind, ResumeKind DEF Next, RequestStep

LEMMA ShutdownEffect ==
    ASSUME Shape, Shutdown
    PROVE  /\ \A t \in Attempts :
                 /\ att'[t].run = att[t].run /\ att'[t].rec = att[t].rec
                 /\ att'[t].term = att[t].term
                 /\ att'[t].pc = IF att[t].pc \in {"consuming", "recording"} THEN "closing"
                                 ELSE IF Live(t) THEN "dead" ELSE att[t].pc
           /\ \A q \in Resumers : resumes'[q].pc \notin {"getwf", "saving"}
           /\ UNCHANGED <<store, tasks, open, done, events>>
           /\ stops' # 0
<1>1. att \in [Attempts -> Attempt] /\ stops \in Nat
  BY RunsAssumption DEF Shape, TypeOK
<1>2. ASSUME NEW a \in Attempt
      PROVE  LET b == CancelledTask(a)
             IN  /\ b.run = a.run /\ b.rec = a.rec /\ b.term = a.term
                 /\ b.pc = IF a.pc \in {"consuming", "recording"} THEN "closing"
                           ELSE IF a.pc \notin {"unused", "finished", "dead"} THEN "dead" ELSE a.pc
  BY DEF CancelledTask, Attempt
<1>3. \A t \in Attempts : att'[t] = CancelledTask(att[t]) /\ att[t] \in Attempt
  BY <1>1 DEF Shutdown
<1>4. \A t \in Attempts :
         /\ att'[t].run = att[t].run /\ att'[t].rec = att[t].rec
         /\ att'[t].term = att[t].term
         /\ att'[t].pc = IF att[t].pc \in {"consuming", "recording"} THEN "closing"
                         ELSE IF Live(t) THEN "dead" ELSE att[t].pc
  BY <1>2, <1>3 DEF Live
<1>5. stops' # 0
  BY <1>1 DEF Shutdown
<1>6. \A q \in Resumers : resumes'[q].pc \notin {"getwf", "saving"}
  BY DEF Shutdown, IdleResume
<1> QED
  BY <1>4, <1>5, <1>6 DEF Shutdown, runtimeVars

LEMMA RestartEffect ==
    ASSUME Shape, Crash \/ ShutdownOver
    PROVE  /\ \A t \in Attempts : att'[t].pc \in {"unused", "dead"} /\ ~Live(t)'
           /\ \A q \in Resumers : resumes'[q].pc \notin {"getwf", "saving"}
           /\ UNCHANGED <<store, done, events>> /\ open' = {} /\ ~stopping'
           /\ \A r \in Runs : tasks'[r] = 0
           /\ stops' # 0 \/ (stopping /\ stops' = stops)
<1>1. stops \in Nat /\ Restart
  BY RunsAssumption DEF Shape, TypeOK, Crash, ShutdownOver
<1>2. \A t \in Attempts : att'[t].pc \in {"unused", "dead"}
  BY <1>1 DEF Restart, Unused
<1>3. \A q \in Resumers : resumes'[q].pc \notin {"getwf", "saving"}
  BY <1>1 DEF Restart, IdleResume
<1>4. stops' # 0 \/ (stopping /\ stops' = stops)
  BY <1>1 DEF Crash, ShutdownOver
<1> QED
  BY <1>1, <1>2, <1>3, <1>4 DEF Restart, Live

-----------------------------------------------------------------------------
(* The task table and the streams of tasks at work *)

\* A task at work is the registered one, hence the only one of its run.
Registered ==
    /\ \A t \in Attempts : Live(t) => tasks[att[t].run] = t
    /\ \A r \in Runs :
          tasks[r] # 0 => att[tasks[r]].pc # "unused" /\ att[tasks[r]].run = r
    /\ stopping => stops # 0

LEMMA OneTask ==
    ASSUME Registered, NEW t \in Attempts, NEW u \in Attempts,
           Live(t), Live(u), att[t].run = att[u].run
    PROVE  t = u
BY DEF Registered

LEMMA RegisteredStep ==
    ASSUME Shape, Queued, Unborn, Undisturbed, Registered, [Next]_vars
    PROVE  Registered'
<1>1. /\ att \in [Attempts -> Attempt] /\ tasks \in [Runs -> 0..MaxAttempts]
      /\ \A t \in Attempts : Live(t) => att[t].run \in Runs
      /\ \A n \in 0..MaxAttempts : n # 0 => n \in Attempts
  BY RunsAssumption DEF Shape, TypeOK, RunsKnown, Live, Attempts
<1>2. ASSUME NEW t \in Attempts, TaskStep(t)
      PROVE  Registered'
  <2>1. /\ <<att[t].pc, att'[t].pc>> \in Moves /\ att'[t].run = att[t].run
        /\ \A u \in Attempts \ {t} : att'[u] = att[u]
        /\ Registration(t) /\ UNCHANGED <<stops, stopping>>
    BY <1>1, <1>2, TaskMoves DEF lifeVars
  <2>2. Live(t)
    BY <2>1 DEF Moves, Live
  <2>3. ASSUME NEW u \in Attempts, Live(u)'
        PROVE  tasks'[att'[u].run] = u
    <3>1. CASE u = t
      <4>1. UNCHANGED tasks
        BY <2>1, <2>3, <3>1 DEF Live, Leaving, Registration
      <4> QED
        BY <2>1, <2>2, <3>1, <4>1 DEF Registered
    <3>2. CASE u # t
      <4>1. Live(u) /\ att'[u].run = att[u].run /\ att[u].run # att[t].run
        BY <2>1, <2>2, <2>3, <3>2, OneTask DEF Live
      <4>2. tasks'[att[u].run] = tasks[att[u].run]
        BY <1>1, <2>1, <2>2, <4>1 DEF Registration
      <4> QED
        BY <4>1, <4>2 DEF Registered
    <3> QED
      BY <3>1, <3>2
  <2>4. ASSUME NEW r \in Runs, tasks'[r] # 0
        PROVE  att'[tasks'[r]].pc # "unused" /\ att'[tasks'[r]].run = r
    <3>1. tasks'[r] = tasks[r]
      BY <1>1, <2>1, <2>4 DEF Registration
    <3>2. tasks[r] \in Attempts /\ att[tasks[r]].pc # "unused" /\ att[tasks[r]].run = r
      BY <1>1, <2>4, <3>1 DEF Registered
    <3>3. att'[t].pc # "unused"
      BY <2>1 DEF Moves
    <3> QED
      BY <2>1, <3>1, <3>2, <3>3
  <2> QED
    BY <2>1, <2>3, <2>4 DEF Registered
<1>3. CASE Quiet
  <2>1. \A r \in Runs : tasks[r] # 0 => tasks[r] \in Attempts
    BY <1>1
  <2> QED
    BY <1>3, <2>1 DEF Quiet, SameTask, Registered, Live
<1>4. ASSUME NEW r \in Runs, NEW t \in Attempts,
             \A u \in Attempts : att[u].run = r => ~Live(u),
             att[t].pc = "unused" \/ att[t].run = r,
             att'[t].run = r, att'[t].pc # "unused",
             \A u \in Attempts \ {t} : att'[u] = att[u],
             tasks' = [tasks EXCEPT ![r] = t], UNCHANGED <<stops, stopping>>
      PROVE  Registered'
  <2>1. ASSUME NEW u \in Attempts \ {t}, Live(u)'
        PROVE  tasks'[att'[u].run] = u
    <3>1. Live(u) /\ att'[u] = att[u] /\ att[u].run # r
      BY <1>4, <2>1 DEF Live
    <3> QED
      BY <1>1, <1>4, <3>1 DEF Registered
  <2>2. tasks'[att'[t].run] = t
    BY <1>1, <1>4
  <2>3. ASSUME NEW s \in Runs \ {r}, tasks'[s] # 0
        PROVE  att'[tasks'[s]].pc # "unused" /\ att'[tasks'[s]].run = s
    <3>1. tasks'[s] = tasks[s] /\ tasks[s] \in Attempts
      BY <1>1, <1>4, <2>3
    <3>2. att[tasks[s]].pc # "unused" /\ att[tasks[s]].run = s
      BY <2>3, <3>1 DEF Registered
    <3> QED
      BY <1>4, <3>1, <3>2
  <2>4. tasks'[r] = t
    BY <1>1, <1>4
  <2> QED
    BY <1>4, <2>1, <2>2, <2>3, <2>4 DEF Registered
<1>5. ASSUME NEW r \in Runs, NEW t \in Attempts, Launched(r, t)
      PROVE  Registered'
  BY <1>4, <1>5 DEF Launched, Unborn
<1>6. ASSUME NEW q \in Resumers, Resumed(q)
      PROVE  Registered'
  <2>1. /\ resumes[q].run \in Runs /\ resumes[q].t \in Attempts
        /\ att[resumes[q].t].run = resumes[q].run
    BY <1>6 DEF Resumed, Shape, RunsKnown
  <2>2. \A u \in Attempts : att[u].run = resumes[q].run => ~Live(u)
    BY <1>6 DEF Resumed, Undisturbed
  <2> QED
    BY <1>4, <1>6, <2>1, <2>2 DEF Resumed
<1>7. ASSUME NEW q \in Resumers, NEW t \in Attempts, Readied(q, t)
      PROVE  Registered'
  <2>1. \A r \in Runs : tasks[r] # 0 => tasks[r] \in Attempts \ {t}
    BY <1>1, <1>7 DEF Readied, Registered
  <2> QED
    BY <1>7, <2>1 DEF Readied, Registered, Live
<1>8. CASE Shutdown
  <2>1. \A r \in Runs : tasks[r] # 0 => tasks[r] \in Attempts
    BY <1>1
  <2>2. \A t \in Attempts : att[t].pc # "unused" => att'[t].pc # "unused"
    BY <1>8, ShutdownEffect
  <2> QED
    BY <1>8, <2>1, <2>2, ShutdownEffect DEF Registered, Live
<1>9. CASE Crash \/ ShutdownOver
  BY <1>9, RestartEffect DEF Registered
<1> QED
  BY <1>2, <1>3, <1>5, <1>6, <1>7, <1>8, <1>9, StepKinds

\* What a task at work may say of its record, by where it stands.
Outcomes ==
    \A t \in Attempts :
        /\ att[t].pc \in {"aborting", "finalizing", "ending"} => att[t].rec.status \in TerminalStatuses
        /\ att[t].pc \in {"marking", "starting", "consuming", "recording"} =>
              att[t].rec.status = "running"
        /\ att[t].pc = "closing" => att[t].rec.status # "queued"

LEMMA OutcomesStep ==
    ASSUME Shape, Queued, Outcomes, [Next]_vars
    PROVE  Outcomes'
<1>1. att \in [Attempts -> Attempt]
  BY DEF Shape, TypeOK
<1>2. ASSUME NEW t \in Attempts, TaskStep(t)
      PROVE  Outcomes'
  <2>1. /\ <<att[t].pc, att'[t].pc>> \in Moves
        /\ \A u \in Attempts \ {t} : att'[u] = att[u]
    BY <1>1, <1>2, TaskMoves
  <2>2. att[t].rec \in Record
    BY <1>1 DEF Attempt
  <2>3. CASE att[t].pc = "closing"
    <3>1. att'[t].pc = "finalizing" /\ att'[t].rec.status = FinalStatus(att[t].rec.status, att[t].flag)
      BY <1>1, <1>2, <2>1, <2>3, TaskRecords DEF Moves
    <3>2. att[t].rec.status \in TerminalStatuses \cup {"running"}
      BY <2>2, <2>3 DEF Record, Outcomes, ActiveStatuses
    <3>3. att'[t].rec.status \in TerminalStatuses
      BY <3>1, <3>2 DEF FinalStatus, TerminalStatuses
    <3> QED
      BY <2>1, <3>1, <3>3 DEF Outcomes
  <2>4. CASE att[t].pc # "closing"
    <3>1. /\ att'[t].pc = "aborting" => att'[t].rec.status \in TerminalStatuses
          /\ att'[t].pc = "marking" => att'[t].rec.status = "running"
          /\ att'[t].pc = "recording" => att'[t].rec.status = att[t].rec.status
          /\ att[t].pc = "consuming" /\ att'[t].pc = "closing" =>
                att'[t].rec.status \in TerminalStatuses
          /\ att'[t].pc \in {"starting", "consuming", "ending"} => att'[t].rec = att[t].rec
      BY <1>1, <1>2, TaskRecords
    <3>2. /\ att'[t].pc \in {"aborting", "finalizing", "ending"} =>
                att'[t].rec.status \in TerminalStatuses
          /\ att'[t].pc \in {"marking", "starting", "consuming", "recording"} =>
                att'[t].rec.status = "running"
          /\ att'[t].pc = "closing" => att'[t].rec.status # "queued"
      BY <2>1, <2>4, <3>1 DEF Outcomes, Moves, TerminalStatuses
    <3> QED
      BY <2>1, <3>2 DEF Outcomes
  <2> QED
    BY <2>3, <2>4
<1>3. ASSUME NEW t \in Attempts, att'[t].pc \in {"start", "dead"},
             \A u \in Attempts \ {t} : att'[u] = att[u]
      PROVE  Outcomes'
  BY <1>3 DEF Outcomes
<1>4. ASSUME NEW q \in Resumers, Resumed(q)
      PROVE  Outcomes'
  BY <1>3, <1>4 DEF Resumed, Shape, RunsKnown
<1>5. CASE Quiet
  BY <1>5 DEF Quiet, SameTask, Outcomes
<1>6. CASE Shutdown
  BY <1>6, ShutdownEffect DEF Outcomes
<1>7. CASE Crash \/ ShutdownOver
  BY <1>7, RestartEffect DEF Outcomes
<1> QED
  BY <1>2, <1>3, <1>4, <1>5, <1>6, <1>7, StepKinds DEF Launched, Readied

\* A task that has not spoken its last event, and a resume that is about to
\* start one, have an open stream that nobody completed.
Hearing(t) ==
    \/ att[t].pc \in {"start", "getwf", "aborting", "marking", "starting", "consuming", "recording"}
    \/ att[t].pc \in {"closing", "finalizing"} /\ ~att[t].term

Active(s) == s \in open /\ ~done[s]

Listening ==
    /\ \A t \in Attempts : Hearing(t) => Active(att[t].run)
    /\ \A q \in Resumers : resumes[q].pc = "saving" => Active(resumes[q].run)

LEMMA ListeningStep ==
    ASSUME Shape, Queued, Undisturbed, Registered, Listening, [Next]_vars
    PROVE  Listening'
<1>1. /\ att \in [Attempts -> Attempt] /\ RuntimeTypeOK
      /\ \A t \in Attempts : Hearing(t) => att[t].run \in Runs /\ Live(t)
      /\ \A q \in Resumers : resumes[q].pc \in {"getwf", "saving"} => resumes[q].run \in Runs
  BY DEF Shape, TypeOK, RunsKnown, Hearing, Live
<1>2. ASSUME NEW t \in Attempts, TaskStep(t)
      PROVE  Listening'
  <2>1. /\ <<att[t].pc, att'[t].pc>> \in Moves /\ att'[t].run = att[t].run
        /\ \A u \in Attempts \ {t} : att'[u] = att[u]
        /\ UNCHANGED resumes
    BY <1>1, <1>2, TaskMoves DEF requestVars
  <2>2. Live(t) /\ att[t].run \in Runs
    BY <2>1 DEF Moves, Live, Shape, RunsKnown
  <2>3. ActiveKept /\ \A s \in Runs \ {att[t].run} : done'[s] = done[s]
    <3>1. CASE Lookup \/ UNCHANGED runtimeVars
      <4>1. StreamsLeft
        BY <3>1 DEF StreamsLeft, Lookup, runtimeVars
      <4> QED
        BY <4>1, StreamsStay DEF StreamsLeft
    <3>2. ASSUME NEW kind \in Kinds, AppendEvent(att[t].run, kind)
          PROVE  ActiveKept /\ \A s \in Runs \ {att[t].run} : done'[s] = done[s]
      BY <1>1, <2>2, <3>2, EventAppended
    <3> QED
      BY <1>1, <1>2, <3>1, <3>2, TaskStream
  <2>4. \A s \in Runs \ {att[t].run} : Active(s) => Active(s)'
    BY <2>3 DEF Active, ActiveKept
  <2>5. ASSUME Hearing(t)'
        PROVE  Active(att[t].run)'
    <3>1. Hearing(t)
      <4>1. CASE att[t].pc = "closing"
        BY <1>1, <1>2, <2>1, <2>5, <4>1, TaskRecords DEF Moves, Hearing
      <4>2. CASE att[t].pc # "closing"
        BY <2>1, <2>5, <4>2 DEF Moves, Hearing
      <4> QED
        BY <4>1, <4>2
    <3>2. Active(att[t].run)
      BY <3>1 DEF Listening
    <3>3. ~done'[att[t].run]
      <4>1. ~(att'[t].pc = "closing" /\ att'[t].term) /\ att'[t].pc # "ending"
        BY <2>5 DEF Hearing
      <4>2. ASSUME NEW kind \in Kinds \ TerminalKinds, AppendEvent(att[t].run, kind)
            PROVE  ~done'[att[t].run]
        BY <1>1, <2>2, <3>2, <4>2, EventAppended DEF Active
      <4>3. CASE Lookup \/ UNCHANGED runtimeVars
        BY <3>2, <4>3 DEF Lookup, runtimeVars, Active
      <4> QED
        BY <1>1, <1>2, <4>1, <4>2, <4>3, TaskStream
    <3> QED
      BY <2>1, <2>3, <3>2, <3>3 DEF Active, ActiveKept
  <2>6. ASSUME NEW u \in Attempts \ {t}, Hearing(u)'
        PROVE  Active(att[u].run)'
    <3>1. Hearing(u)
      BY <2>1, <2>6 DEF Hearing
    <3>2. att[u].run \in Runs \ {att[t].run} /\ Active(att[u].run)
      BY <1>1, <2>2, <3>1, OneTask DEF Listening
    <3> QED
      BY <2>1, <2>4, <3>2 DEF Active
  <2>7. ASSUME NEW q \in Resumers, resumes'[q].pc = "saving"
        PROVE  Active(resumes[q].run)'
    <3>1. resumes[q].run \in Runs \ {att[t].run} /\ Active(resumes[q].run)
      BY <1>1, <2>1, <2>2, <2>7 DEF Undisturbed, Listening
    <3> QED
      BY <2>1, <2>4, <3>1 DEF Active
  <2> QED
    BY <2>1, <2>5, <2>6, <2>7 DEF Listening
<1>3. ASSUME \A s \in Runs : Active(s) => Active(s)',
             \A t \in Attempts : Hearing(t)' =>
                 (Hearing(t) /\ att'[t].run = att[t].run) \/ Active(att[t].run)',
             \A q \in Resumers : resumes'[q].pc = "saving" =>
                 \/ resumes[q].pc = "saving" /\ resumes'[q].run = resumes[q].run
                 \/ Active(resumes[q].run)'
      PROVE  Listening'
  <2>1. ASSUME NEW t \in Attempts, Hearing(t)'
        PROVE  Active(att[t].run)'
    <3>1. CASE Hearing(t) /\ att'[t].run = att[t].run
      <4>1. att[t].run \in Runs /\ Active(att[t].run)
        BY <1>1, <3>1 DEF Listening
      <4> QED
        BY <1>3, <3>1, <4>1 DEF Active
    <3> QED
      BY <1>3, <2>1, <3>1
  <2>2. ASSUME NEW q \in Resumers, resumes'[q].pc = "saving"
        PROVE  Active(resumes[q].run)'
    <3>1. CASE resumes[q].pc = "saving" /\ resumes'[q].run = resumes[q].run
      <4>1. resumes[q].run \in Runs /\ Active(resumes[q].run)
        BY <1>1, <3>1 DEF Listening
      <4> QED
        BY <1>3, <3>1, <4>1 DEF Active
    <3> QED
      BY <1>3, <2>2, <3>1
  <2> QED
    BY <2>1, <2>2 DEF Listening
<1>4. ASSUME NEW r \in Runs, CreateStream(r)
      PROVE  Active(r)' /\ \A s \in Runs : Active(s) => Active(s)'
  BY <1>1, <1>4, StreamCreated DEF Active, ActiveKept
<1>5. CASE Quiet
  <2>1. \A s \in Runs : Active(s) => Active(s)'
    BY <1>5, StreamsStay DEF Quiet, Active, ActiveKept, StreamsLeft
  <2>2. \A t \in Attempts : Hearing(t)' => Hearing(t) /\ att'[t].run = att[t].run
    BY <1>5 DEF Quiet, SameTask, Hearing
  <2> QED
    BY <1>3, <1>5, <2>1, <2>2 DEF Quiet
<1>6. ASSUME NEW r \in Runs, NEW t \in Attempts, Launched(r, t)
      PROVE  Listening'
  <2>1. Active(r)' /\ \A s \in Runs : Active(s) => Active(s)'
    BY <1>4, <1>6 DEF Launched
  <2>2. /\ att'[t].run = r /\ \A u \in Attempts \ {t} : att'[u] = att[u]
        /\ UNCHANGED resumes
    BY <1>6 DEF Launched
  <2>3. Active(att[t].run)'
    BY <2>1, <2>2 DEF Active
  <2>4. \A u \in Attempts \ {t} : Hearing(u)' => Hearing(u)
    BY <2>2 DEF Hearing
  <2> QED
    BY <1>3, <2>1, <2>2, <2>3, <2>4
<1>7. ASSUME NEW q \in Resumers, NEW t \in Attempts, Readied(q, t)
      PROVE  Listening'
  <2>1. resumes[q].run \in Runs /\ CreateStream(resumes[q].run)
    BY <1>1, <1>7 DEF Readied
  <2>2. PICK r \in Runs : r = resumes[q].run /\ CreateStream(r)
    BY <2>1
  <2>3. Active(r)' /\ \A s \in Runs : Active(s) => Active(s)'
    BY <1>4, <2>2
  <2>4. /\ resumes'[q].run = r
        /\ \A p \in Resumers \ {q} : resumes'[p] = resumes[p]
        /\ att'[t].pc = "dead" /\ \A u \in Attempts \ {t} : att'[u] = att[u]
    BY <1>7, <2>2 DEF Readied
  <2>5. Active(resumes[q].run)'
    BY <2>3, <2>4 DEF Active
  <2>6. \A u \in Attempts : Hearing(u)' => Hearing(u) /\ att'[u].run = att[u].run
    BY <2>4 DEF Hearing
  <2> QED
    BY <1>3, <2>3, <2>4, <2>5, <2>6
<1>8. ASSUME NEW q \in Resumers, Resumed(q)
      PROVE  Listening'
  <2>1. /\ UNCHANGED <<open, done>> /\ resumes[q].pc = "saving" /\ resumes'[q].pc = "done"
        /\ \A p \in Resumers \ {q} : resumes'[p] = resumes[p]
        /\ att'[resumes[q].t].run = resumes[q].run
        /\ \A u \in Attempts \ {resumes[q].t} : att'[u] = att[u]
    BY <1>8 DEF Resumed
  <2>2. PICK t \in Attempts : t = resumes[q].t
    BY <2>1 DEF Shape, RunsKnown
  <2>3. Active(att[t].run)'
    BY <2>1, <2>2 DEF Active, Listening
  <2>4. \A u \in Attempts \ {t} : Hearing(u)' => Hearing(u) /\ att'[u].run = att[u].run
    BY <2>1, <2>2 DEF Hearing
  <2>5. \A s \in Runs : Active(s) => Active(s)'
    BY <2>1 DEF Active
  <2> QED
    BY <1>3, <2>1, <2>3, <2>4, <2>5
<1>9. CASE Shutdown
  <2>1. \A t \in Attempts : Hearing(t)' => Hearing(t) /\ att'[t].run = att[t].run
    BY <1>9, ShutdownEffect DEF Hearing, Live
  <2>2. \A s \in Runs : Active(s) => Active(s)'
    BY <1>9, ShutdownEffect DEF Active
  <2> QED
    BY <1>3, <1>9, <2>1, <2>2, ShutdownEffect
<1>10. CASE Crash \/ ShutdownOver
  <2>1. \A t \in Attempts : ~Hearing(t)'
    BY <1>10, RestartEffect DEF Hearing
  <2> QED
    BY <1>10, <2>1, RestartEffect DEF Listening
<1> QED
  BY <1>2, <1>5, <1>6, <1>7, <1>8, <1>9, <1>10, StepKinds

(***************************************************************************)
(* resume_workflow_run checks that no task is active and then awaits the   *)
(* workflow and its save.  Two resumes of one run that overlap there both  *)
(* start a task (run double_resume); what follows is for the executions in *)
(* which the resumes of a run come one after the other.                    *)
(***************************************************************************)
ResumesInTurn ==
    \A p, q \in Resumers :
        /\ p # q
        /\ resumes[p].pc \in {"getwf", "saving"}
        /\ resumes[q].pc \in {"getwf", "saving"}
        => resumes[p].run # resumes[q].run

LEMMA UndisturbedStep ==
    ASSUME Shape, Queued, Unborn, Registered, Undisturbed, ResumesInTurn, [Next]_vars
    PROVE  Undisturbed'
<1>1. att \in [Attempts -> Attempt] /\ tasks \in [Runs -> 0..MaxAttempts] /\ 0 \notin Attempts
  BY DEF Shape, TypeOK, Attempts
<1>2. ASSUME NEW t \in Attempts, TaskStep(t)
      PROVE  Undisturbed'
  <2>1. /\ <<att[t].pc, att'[t].pc>> \in Moves /\ att'[t].run = att[t].run
        /\ \A u \in Attempts \ {t} : att'[u] = att[u]
        /\ UNCHANGED resumes
    BY <1>1, <1>2, TaskMoves DEF requestVars
  <2>2. Live(t)
    BY <2>1 DEF Moves, Live
  <2> QED
    BY <2>1, <2>2 DEF Undisturbed, Live
<1>3. CASE Quiet
  <2>1. ASSUME NEW q \in Resumers, resumes'[q].pc \in {"getwf", "saving"},
               NEW t \in Attempts, Live(t)'
        PROVE  att'[t].run # resumes'[q].run
    <3>1. Live(t) /\ att'[t].run = att[t].run /\ tasks[att[t].run] = t
      BY <1>3, <2>1 DEF Quiet, SameTask, Live, Registered
    <3>2. ASSUME att[t].run = resumes'[q].run
          PROVE  TaskActive(resumes'[q].run)
      BY <1>1, <3>1, <3>2 DEF TaskActive
    <3>3. CASE resumes[q].pc = resumes'[q].pc /\ resumes'[q].run = resumes[q].run
      BY <2>1, <3>1, <3>3 DEF Undisturbed
    <3>4. CASE ~TaskActive(resumes'[q].run)
      BY <3>1, <3>2, <3>4
    <3> QED
      BY <1>3, <2>1, <3>3, <3>4 DEF Quiet
  <2> QED
    BY <2>1 DEF Undisturbed
<1>4. ASSUME NEW r \in Runs, NEW t \in Attempts, Launched(r, t)
      PROVE  Undisturbed'
  <2>1. /\ att'[t].run = r /\ \A u \in Attempts \ {t} : att'[u] = att[u]
        /\ UNCHANGED resumes /\ creating[r] = "saving"
    BY <1>4 DEF Launched
  <2> QED
    BY <2>1 DEF Undisturbed, Live, Unborn
<1>5. ASSUME NEW q \in Resumers, NEW t \in Attempts, Readied(q, t)
      PROVE  Undisturbed'
  BY <1>5 DEF Readied, Undisturbed, Live
<1>6. ASSUME NEW q \in Resumers, Resumed(q)
      PROVE  Undisturbed'
  <2>1. /\ resumes[q].pc = "saving" /\ resumes'[q].pc = "done"
        /\ \A p \in Resumers \ {q} : resumes'[p] = resumes[p]
        /\ att'[resumes[q].t].run = resumes[q].run
        /\ \A u \in Attempts \ {resumes[q].t} : att'[u] = att[u]
    BY <1>6 DEF Resumed
  <2>2. ASSUME NEW p \in Resumers, resumes'[p].pc \in {"getwf", "saving"},
               NEW t \in Attempts, Live(t)'
        PROVE  att'[t].run # resumes'[p].run
    <3>1. p # q /\ resumes'[p] = resumes[p] /\ resumes[p].run # resumes[q].run
      BY <2>1, <2>2 DEF ResumesInTurn
    <3>2. CASE t = resumes[q].t
      BY <2>1, <3>1, <3>2
    <3>3. CASE t # resumes[q].t
      BY <2>1, <2>2, <3>1, <3>3 DEF Undisturbed, Live
    <3> QED
      BY <3>2, <3>3
  <2> QED
    BY <2>2 DEF Undisturbed
<1>7. CASE Shutdown
  BY <1>7, ShutdownEffect DEF Undisturbed
<1>8. CASE Crash \/ ShutdownOver
  BY <1>8, RestartEffect DEF Undisturbed
<1> QED
  BY <1>2, <1>3, <1>4, <1>5, <1>6, <1>7, <1>8, StepKinds

\* A stream whose end was spoken is completed.
Spoken ==
    /\ EndedTold
    /\ \A t \in Attempts :
          att[t].pc = "ending" /\ att[t].run \in open => done[att[t].run]

LEMMA SpokenStep ==
    ASSUME Shape, Queued, Unborn, Undisturbed, Spoken, [Next]_vars
    PROVE  Spoken'
<1>1. /\ att \in [Attempts -> Attempt] /\ RuntimeTypeOK
      /\ \A t \in Attempts : att[t].pc = "ending" => att[t].run \in Runs
      /\ \A q \in Resumers : resumes[q].pc = "getwf" => resumes[q].run \in Runs
  BY DEF Shape, TypeOK, RunsKnown
<1>2. ASSUME EndedTold', open' \subseteq open, \A s \in Runs : done[s] => done'[s],
             \A t \in Attempts : att'[t].pc = "ending" =>
                 \/ att[t].pc = "ending" /\ att'[t].run = att[t].run
                 \/ done'[att'[t].run]
      PROVE  Spoken'
  BY <1>1, <1>2 DEF Spoken
<1>3. CASE Quiet
  <2>1. EndedTold' /\ open' \subseteq open /\ UNCHANGED done
    BY <1>3, StreamsStay DEF Quiet, StreamsLeft, Spoken
  <2> QED
    BY <1>2, <1>3, <2>1 DEF Quiet, SameTask
<1>4. ASSUME NEW t \in Attempts, TaskStep(t)
      PROVE  Spoken'
  <2>1. /\ <<att[t].pc, att'[t].pc>> \in Moves /\ att'[t].run = att[t].run
        /\ \A u \in Attempts \ {t} : att'[u] = att[u]
    BY <1>1, <1>4, TaskMoves
  <2>2. att[t].run \in Runs
    BY <2>1 DEF Moves, Shape, RunsKnown
  <2>3. ASSUME NEW kind \in Kinds, AppendEvent(att[t].run, kind)
        PROVE  /\ EndedTold' /\ open' \subseteq open /\ \A s \in Runs : done[s] => done'[s]
               /\ kind = "ended" => done'[att[t].run]
    BY <1>1, <2>2, <2>3, EventAppended DEF Spoken, TerminalKinds
  <2>4. EndedTold' /\ open' \subseteq open /\ \A s \in Runs : done[s] => done'[s]
    <3>1. ASSUME StreamsLeft
          PROVE  EndedTold' /\ open' \subseteq open /\ \A s \in Runs : done[s] => done'[s]
      BY <3>1, StreamsStay DEF StreamsLeft, Spoken
    <3>2. Lookup \/ UNCHANGED runtimeVars => StreamsLeft
      BY DEF StreamsLeft, Lookup, runtimeVars
    <3> QED
      BY <1>1, <1>4, <2>3, <3>1, <3>2, TaskStream
  <2>5. att'[t].pc = "ending" => done'[att'[t].run]
    BY <1>1, <1>4, <2>1, <2>3, TaskStream DEF Kinds
  <2> QED
    BY <1>2, <2>1, <2>4, <2>5
<1>5. ASSUME NEW r \in Runs, CreateStream(r),
             \A t \in Attempts : att'[t].pc = "ending" =>
                 att[t].pc = "ending" /\ att'[t].run = att[t].run /\ att[t].run # r
      PROVE  Spoken'
  <2>1. EndedTold' /\ \A s \in Runs \ {r} : done'[s] = done[s] /\ (s \in open' => s \in open)
    BY <1>1, <1>5, StreamCreated DEF Spoken
  <2> QED
    BY <1>1, <1>5, <2>1 DEF Spoken
<1>6. ASSUME NEW r \in Runs, NEW t \in Attempts, Launched(r, t)
      PROVE  Spoken'
  <2>1. \A u \in Attempts : att'[u].pc = "ending" =>
           att[u].pc = "ending" /\ att'[u].run = att[u].run /\ att[u].run # r
    BY <1>6 DEF Launched, Unborn
  <2> QED
    BY <1>5, <1>6, <2>1 DEF Launched
<1>7. ASSUME NEW q \in Resumers, NEW t \in Attempts, Readied(q, t)
      PROVE  Spoken'
  <2>1. PICK r \in Runs : r = resumes[q].run /\ CreateStream(r)
    BY <1>1, <1>7 DEF Readied
  <2>2. \A u \in Attempts : att'[u].pc = "ending" =>
           att[u].pc = "ending" /\ att'[u].run = att[u].run /\ att[u].run # r
    BY <1>7, <2>1 DEF Readied, Undisturbed, Live
  <2> QED
    BY <1>5, <2>1, <2>2
<1>8. CASE Shutdown
  <2>1. EndedTold' /\ UNCHANGED <<open, done>>
    BY <1>8, ShutdownEffect DEF Spoken, EndedTold, HasEnded
  <2> QED
    BY <1>2, <1>8, <2>1, ShutdownEffect DEF Live
<1>9. CASE Crash \/ ShutdownOver
  <2>1. EndedTold' /\ UNCHANGED done /\ open' \subseteq open
    BY <1>9, RestartEffect DEF Spoken, EndedTold, HasEnded
  <2> QED
    BY <1>2, <1>9, <2>1, RestartEffect
<1>10. ASSUME NEW q \in Resumers, Resumed(q)
       PROVE  Spoken'
  <2>1. UNCHANGED <<open, done, events>>
    BY <1>10 DEF Resumed
  <2>2. EndedTold'
    BY <2>1 DEF Spoken, EndedTold, HasEnded
  <2>3. PICK t \in Attempts : t = resumes[q].t
    BY <1>10 DEF Resumed, Shape, RunsKnown
  <2>4. \A u \in Attempts : att'[u].pc = "ending" => att[u].pc = "ending" /\ att'[u].run = att[u].run
    BY <1>10, <2>3 DEF Resumed
  <2> QED
    BY <1>2, <2>1, <2>2, <2>4
<1> QED
  BY <1>3, <1>4, <1>6, <1>7, <1>8, <1>9, <1>10, StepKinds

-----------------------------------------------------------------------------
(* What the disk says of a run *)

LEMMA TaskStores ==
    ASSUME Shape, Queued, NEW t \in Attempts, TaskStep(t)
    PROVE  /\ \A r \in Runs \ {att[t].run} : store'[r] = store[r]
           /\ att[t].pc \in SavingStates => store'[att[t].run] = att[t].rec
<1>1. StoreType /\ att \in [Attempts -> Attempt]
  BY TypeParts DEF Shape, TypeOK
<1>2. CASE att[t].pc \in SavingStates
  <2>1. Turn(Me(t)) /\ store' = Written
    BY <1>1, <1>2, TaskSaves DEF Saved, SavedThenSave
  <2>2. Head(writes).run = att[t].run /\ Head(writes).rec = att[t].rec /\ Head(writes) \in Write
    BY <1>1, <2>1, HeadClaimed, ClaimBy
  <2> QED
    BY <1>1, <2>1, <2>2 DEF Written, StoreType, Write
<1>3. CASE att[t].pc \notin SavingStates
  BY <1>1, <1>3, TaskSaves DEF Save
<1> QED
  BY <1>2, <1>3

LEMMA OrphansStep ==
    ASSUME Shape, Queued, Unborn, Registered, Undisturbed, Outcomes, Listening,
           OrphansOnlyAfterStop, [Next]_vars
    PROVE  OrphansOnlyAfterStop'
<1>1. /\ att \in [Attempts -> Attempt] /\ tasks \in [Runs -> 0..MaxAttempts]
      /\ creating \in [Runs -> {"none", "saving", "failing", "done"}]
      /\ \A n \in 0..MaxAttempts : n # 0 => n \in Attempts
      /\ 0 \notin Attempts
  BY RunsAssumption DEF Shape, TypeOK, Attempts
\* Any task a run has is one of its own; another one at work stays.
<1>2. ASSUME NEW r \in Runs, TaskActive(r), tasks'[r] = tasks[r],
             att'[tasks[r]] = att[tasks[r]]
      PROVE  TaskActive(r)'
  BY <1>2 DEF TaskActive, Live
<1>3. ASSUME NEW t \in Attempts, TaskStep(t), stops' = 0,
             NEW r \in Runs, HasStatus(r, ActiveStatuses)'
      PROVE  TaskActive(r)' \/ creating'[r] = "failing"
  <2>1. /\ <<att[t].pc, att'[t].pc>> \in Moves /\ att'[t].run = att[t].run
        /\ \A u \in Attempts \ {t} : att'[u] = att[u]
        /\ Registration(t) /\ UNCHANGED <<stops, creating>>
    BY <1>1, <1>3, TaskMoves DEF lifeVars, requestVars
  <2>2. Live(t) /\ att[t].run \in Runs /\ tasks[att[t].run] = t
    BY <2>1 DEF Moves, Live, Shape, RunsKnown, Registered
  <2>3. CASE r # att[t].run
    <3>1. store'[r] = store[r] /\ tasks'[r] = tasks[r]
      BY <1>1, <1>3, <2>1, <2>2, <2>3, TaskStores DEF Registration
    <3>2. TaskActive(r) \/ creating[r] = "failing"
      BY <1>3, <2>1, <3>1 DEF OrphansOnlyAfterStop, HasStatus
    <3>3. ASSUME TaskActive(r)
          PROVE  TaskActive(r)'
      <4>1. tasks[r] \in Attempts /\ att[tasks[r]].run = r
        BY <1>1, <3>3 DEF TaskActive, Registered
      <4> QED
        BY <1>2, <2>1, <2>3, <3>1, <3>3, <4>1
    <3> QED
      BY <2>1, <3>2, <3>3
  <2>4. CASE r = att[t].run
    <3>1. CASE att'[t].pc \notin Leaving
      <4>1. Live(t)' /\ tasks'[r] = t
        BY <2>1, <2>2, <2>4, <3>1 DEF Moves, Live, Leaving, Registration
      <4> QED
        BY <1>1, <4>1 DEF TaskActive, Live
    <3>2. CASE att'[t].pc \in Leaving
      <4>1. \/ att[t].pc \in {"aborting", "finalizing", "ending"}
            \/ att[t].pc = "marking" /\ att'[t].pc = "dead"
        BY <2>1, <3>2 DEF Moves, Leaving
      <4>2. CASE att[t].pc \in {"aborting", "finalizing", "ending"}
        <5>1. store'[r] = att[t].rec /\ att[t].rec.status \in TerminalStatuses
          BY <1>3, <2>4, <4>2, TaskStores DEF SavingStates, Outcomes
        <5> QED
          BY <1>3, <5>1 DEF HasStatus, TerminalStatuses, ActiveStatuses
      <4>3. CASE att[t].pc = "marking" /\ att'[t].pc = "dead"
        <5>1. att[t].run \notin Surviving
          BY <1>1, <1>3, <4>3, TaskStream
        <5>2. Active(att[t].run)
          BY <4>3 DEF Listening, Hearing
        <5> QED
          BY <5>1, <5>2 DEF Active, Surviving
      <4> QED
        BY <4>1, <4>2, <4>3
    <3> QED
      BY <3>1, <3>2
  <2> QED
    BY <2>3, <2>4
<1>4. ASSUME Quiet, stops' = 0, NEW r \in Runs, HasStatus(r, ActiveStatuses)'
      PROVE  TaskActive(r)' \/ creating'[r] = "failing"
  <2>1. store'[r].status \notin TerminalStatuses
    BY <1>4 DEF HasStatus, ActiveStatuses, TerminalStatuses
  <2>2. CASE store'[r] = store[r]
    <3>1. TaskActive(r) \/ creating[r] = "failing"
      BY <1>4, <2>2 DEF Quiet, OrphansOnlyAfterStop, HasStatus
    <3>2. TaskActive(r) => TaskActive(r)'
      BY <1>1, <1>4 DEF Quiet, SameTask, TaskActive, Live
    <3> QED
      BY <1>4, <2>1, <3>1, <3>2 DEF Quiet
  <2> QED
    BY <1>4, <2>1, <2>2 DEF Quiet, RecordKept
<1>5. ASSUME NEW r \in Runs, NEW t \in Attempts,
             att[t].pc = "unused" \/ att[t].run = r, Live(t)', tasks' = [tasks EXCEPT ![r] = t],
             \A u \in Attempts \ {t} : att'[u] = att[u],
             \A s \in Runs \ {r} : store'[s] = store[s] /\ creating'[s] = creating[s],
             UNCHANGED stops
      PROVE  OrphansOnlyAfterStop'
  <2>1. TaskActive(r)'
    <3>1. tasks'[r] = t /\ t # 0
      BY <1>1, <1>5
    <3> QED
      BY <1>5, <3>1 DEF TaskActive, Live
  <2>2. ASSUME NEW s \in Runs \ {r}, TaskActive(s)
        PROVE  TaskActive(s)'
    <3>1. /\ tasks[s] \in Attempts /\ att[tasks[s]].pc # "unused" /\ att[tasks[s]].run = s
          /\ tasks'[s] = tasks[s]
      BY <1>1, <1>5, <2>2 DEF TaskActive, Registered
    <3> QED
      BY <1>2, <1>5, <2>2, <3>1
  <2> QED
    BY <1>5, <2>1, <2>2 DEF OrphansOnlyAfterStop, HasStatus
<1>6. ASSUME NEW r \in Runs, NEW t \in Attempts, Launched(r, t)
      PROVE  OrphansOnlyAfterStop'
  BY <1>1, <1>5, <1>6 DEF Launched, Live
<1>7. ASSUME NEW q \in Resumers, Resumed(q)
      PROVE  OrphansOnlyAfterStop'
  <2>1. /\ resumes[q].run \in Runs /\ resumes[q].t \in Attempts
        /\ att[resumes[q].t].run = resumes[q].run
    BY <1>7 DEF Resumed, Shape, RunsKnown
  <2> QED
    BY <1>5, <1>7, <2>1 DEF Resumed, Live
<1>8. ASSUME NEW q \in Resumers, NEW t \in Attempts, Readied(q, t)
      PROVE  OrphansOnlyAfterStop'
  <2>1. ASSUME NEW r \in Runs, TaskActive(r)
        PROVE  TaskActive(r)'
    <3>1. tasks[r] \in Attempts \ {t} /\ tasks'[r] = tasks[r]
      BY <1>1, <1>8, <2>1 DEF Readied, TaskActive, Live
    <3> QED
      BY <1>2, <1>8, <2>1, <3>1 DEF Readied
  <2> QED
    BY <1>8, <2>1 DEF Readied, OrphansOnlyAfterStop, HasStatus
<1>9. CASE Crash \/ Shutdown \/ ShutdownOver
  BY <1>9, RestartEffect, ShutdownEffect DEF OrphansOnlyAfterStop, Registered
<1> QED
  BY <1>3, <1>4, <1>6, <1>7, <1>8, <1>9, StepKinds DEF OrphansOnlyAfterStop

LEMMA CheckpointsStep ==
    ASSUME Shape, Queued, Unborn, Registered, Undisturbed, CheckpointsPersisted, [Next]_vars
    PROVE  CheckpointsPersisted'
<1>1. /\ att \in [Attempts -> Attempt]
      /\ \A t \in Attempts : att[t].pc = "consuming" => att[t].run \in Runs /\ Live(t)
  BY DEF Shape, TypeOK, RunsKnown, Live
<1>2. ASSUME NEW u \in Attempts, TaskStep(u), NEW t \in Attempts,
             InState(t, "consuming")', HasStatus(att[t].run, {"running"})'
      PROVE  store'[att'[t].run].ckpt = att'[t].rec.ckpt
  <2>1. /\ <<att[u].pc, att'[u].pc>> \in Moves /\ att'[u].run = att[u].run
        /\ \A v \in Attempts \ {u} : att'[v] = att[v]
    BY <1>1, <1>2, TaskMoves
  <2>2. CASE t = u
    <3>1. att[t].pc \in {"starting", "recording"} /\ att'[t].pc = "consuming"
      BY <1>2, <2>1, <2>2 DEF Moves, InState
    <3>2. store'[att[t].run] = att[t].rec /\ att'[t].rec = att[t].rec
      BY <1>1, <1>2, <2>2, <3>1, TaskStores, TaskRecords DEF SavingStates
    <3> QED
      BY <2>1, <2>2, <3>2
  <2>3. CASE t # u
    <3>1. att'[t] = att[t] /\ att[t].pc = "consuming" /\ Live(u)
      BY <1>2, <2>1, <2>3 DEF InState, Moves, Live
    <3>2. att[t].run \in Runs \ {att[u].run}
      BY <1>1, <2>3, <3>1, OneTask
    <3>3. store'[att[t].run] = store[att[t].run]
      BY <1>2, <3>2, TaskStores
    <3> QED
      BY <1>2, <3>1, <3>3 DEF CheckpointsPersisted, InState, HasStatus
  <2> QED
    BY <2>2, <2>3
<1>3. ASSUME \A t \in Attempts : att'[t].pc = "consuming" =>
                 /\ att[t].pc = "consuming" /\ att'[t].run = att[t].run /\ att'[t].rec = att[t].rec
                 /\ \/ store'[att[t].run] = store[att[t].run]
                    \/ store'[att[t].run].status \in TerminalStatuses
      PROVE  CheckpointsPersisted'
  BY <1>3 DEF CheckpointsPersisted, InState, HasStatus, TerminalStatuses
<1>4. CASE Quiet
  BY <1>1, <1>3, <1>4 DEF Quiet, SameTask, RecordKept, Unborn
<1>5. ASSUME NEW r \in Runs, NEW t \in Attempts, Launched(r, t)
      PROVE  CheckpointsPersisted'
  BY <1>1, <1>3, <1>5 DEF Launched, Unborn
<1>6. ASSUME NEW q \in Resumers, Resumed(q)
      PROVE  CheckpointsPersisted'
  <2>1. resumes[q].t \in Attempts /\ \A t \in Attempts : Live(t) => att[t].run # resumes[q].run
    BY <1>6 DEF Resumed, Shape, RunsKnown, Undisturbed
  <2> QED
    BY <1>1, <1>3, <1>6, <2>1 DEF Resumed
<1>7. ASSUME NEW q \in Resumers, NEW t \in Attempts, Readied(q, t)
      PROVE  CheckpointsPersisted'
  BY <1>3, <1>7 DEF Readied
<1>8. CASE Shutdown
  BY <1>3, <1>8, ShutdownEffect DEF Live
<1>9. CASE Crash \/ ShutdownOver
  BY <1>3, <1>9, RestartEffect
<1> QED
  BY <1>2, <1>4, <1>5, <1>6, <1>7, <1>8, <1>9, StepKinds DEF CheckpointsPersisted

RunsInv ==
    /\ Shape /\ Queued /\ Unborn /\ Registered /\ Undisturbed
    /\ Outcomes /\ Listening /\ Spoken
    /\ OrphansOnlyAfterStop /\ CheckpointsPersisted

LEMMA InitRuns == Init => RunsInv
<1> SUFFICES ASSUME Init PROVE RunsInv
  OBVIOUS
<1>1. Shape
  BY InitShape
<1>2. /\ \A r \in Runs : store[r] = None /\ tasks[r] = 0
      /\ \A t \in Attempts : att[t].pc = "unused" /\ att[t].run = None
      /\ \A q \in Resumers : resumes[q].pc = "idle" /\ resumes[q].run = None
      /\ ~poll.busy /\ ~stopping
  BY DEF Init, Unused, IdleResume, IdlePoll
<1>3. Queued
  BY DEF Init, Queued
<1>4. Unborn
  BY <1>2, RunsAssumption DEF Unborn
<1>5. EndedTold
  BY DEF Init, RuntimeInit, EndedTold, HasEnded
<1> QED
  BY <1>1, <1>2, <1>3, <1>4, <1>5
     DEF RunsInv, Registered, Undisturbed, Outcomes, Listening, Hearing, Spoken, Live,
         OrphansOnlyAfterStop, CheckpointsPersisted, HasStatus, InState

LEMMA RunsStep == RunsInv /\ ResumesInTurn /\ [Next]_vars => RunsInv'
BY ShapeStep, QueuedStep, RegisteredStep, UndisturbedStep, OutcomesStep, ListeningStep,
   SpokenStep, OrphansStep, CheckpointsStep DEF RunsInv

(***************************************************************************)
(* Until the process stops, every record that says queued or running has a *)
(* task, or is about to be failed: list requests find nothing to reconcile *)
(* (AsyncRunService against reconcile_orphaned_runs).                      *)
(***************************************************************************)
THEOREM OrphansCorrect == Spec /\ []ResumesInTurn => []OrphansOnlyAfterStop
<1>1. RunsInv => OrphansOnlyAfterStop
  BY DEF RunsInv
<1> QED
  BY <1>1, InitRuns, RunsStep, PTL DEF Spec

(***************************************************************************)
(* A task that waits for its next event has the newest checkpoint it knows *)
(* of on disk, whatever cancel and list requests wrote in between          *)
(* (_consume_workflow_stream).                                             *)
(***************************************************************************)
THEOREM CheckpointsCorrect == Spec /\ []ResumesInTurn => []CheckpointsPersisted
<1>1. RunsInv => CheckpointsPersisted
  BY DEF RunsInv
<1> QED
  BY <1>1, InitRuns, RunsStep, PTL DEF Spec

LEMMA StreamCompleted ==
    ASSUME RunsInv, [Next]_vars, NEW t \in Attempts,
           att[t].pc \in {"finalizing", "ending"}, att'[t].pc = "finished"
    PROVE  att[t].run \in open' => done'[att[t].run]
<1>1. /\ att \in [Attempts -> Attempt] /\ att[t].run \in Runs /\ RuntimeTypeOK
  BY DEF RunsInv, Shape, TypeOK, RunsKnown
<1>2. ASSUME TaskStep(t)
      PROVE  att[t].run \in open' => done'[att[t].run]
  <2>1. CASE att[t].pc = "finalizing"
    <3>1. HasEnded(att[t].run) /\ Lookup
      BY <1>1, <1>2, <2>1, TaskStream
    <3> QED
      BY <1>1, <3>1 DEF RunsInv, Spoken, EndedTold, Lookup, Runs
  <2>2. CASE att[t].pc = "ending"
    <3>1. UNCHANGED runtimeVars
      BY <1>1, <1>2, <2>2, TaskStream
    <3> QED
      BY <2>2, <3>1 DEF RunsInv, Spoken, runtimeVars
  <2> QED
    BY <2>1, <2>2
<1>3. ASSUME NEW u \in Attempts \ {t}, TaskStep(u)
      PROVE  FALSE
  BY <1>1, <1>3, TaskMoves
<1>4. ~Quiet
  BY DEF Quiet, SameTask
<1>5. \A r \in Runs, u \in Attempts : ~Launched(r, u)
  BY DEF Launched
<1>6. \A q \in Resumers : ~Resumed(q) /\ \A u \in Attempts : ~Readied(q, u)
  BY DEF Resumed, Readied
<1>7. ~(Crash \/ Shutdown \/ ShutdownOver)
  BY RestartEffect, ShutdownEffect DEF RunsInv, Live
<1> QED
  BY <1>2, <1>3, <1>4, <1>5, <1>6, <1>7, StepKinds DEF RunsInv

(***************************************************************************)
(* A task that ran the workflow and returns leaves a completed stream, or  *)
(* none: nobody waits for more events (_ensure_terminal_payload).          *)
(***************************************************************************)
THEOREM StreamsCompleted == Spec /\ []ResumesInTurn => TaskCompletesStream
<1> DEFINE Completes ==
        \A t \in Attempts :
            (att[t].pc \in {"finalizing", "ending"} /\ att'[t].pc = "finished")
                => (att[t].run \in open' => done'[att[t].run])
<1>1. RunsInv /\ [Next]_vars => [Completes]_vars
  BY StreamCompleted
<1>2. TaskCompletesStream <=> [][Completes]_vars
  BY DEF TaskCompletesStream
<1> HIDE DEF Completes
<1> QED
  BY <1>1, <1>2, InitRuns, RunsStep, PTL DEF Spec
=============================================================================
