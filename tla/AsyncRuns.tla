----------------------------- MODULE AsyncRuns -----------------------------
(***************************************************************************)
(* Background workflow runs: AsyncRunService of                            *)
(* src/application/flow/async_run_service.py over the file store of        *)
(* src/infrastructure/storage/async_run_store_service.py, the stream       *)
(* runtime, and the reconciliation done by GET /api/runs.                  *)
(*                                                                         *)
(* Everything runs on one event loop.  The store serialises its calls on a *)
(* FIFO lock: save_run copies the record when it is called, waits for the  *)
(* lock, writes, and its caller continues in the same step; a read and     *)
(* what its caller does next are one step.  So an action below is what one *)
(* coroutine does between two awaits, and `writes' is the lock queue.      *)
(***************************************************************************)
EXTENDS FlowStreamRuntime

CONSTANTS Cancellers,    \* POST /runs/{id}/cancel requests, one call each
          Resumers,      \* POST /runs/{id}/resume requests, one call each
          MaxAttempts,   \* bound: tasks ever created
          MaxCheckpoints,\* bound: checkpoints ever saved for a run
          MaxProduced,   \* bound: progress events without a checkpoint stop
          MaxStops,      \* bound: crashes and shutdowns of the process
          None           \* absent record or run

Runs == StreamIds        \* stream_id = run_id
Attempts == 1..MaxAttempts
Checkpoints == 1..MaxCheckpoints

ASSUME RunsAssumption ==
    /\ MaxAttempts \in Nat
    /\ MaxCheckpoints \in Nat
    /\ MaxProduced \in Nat
    /\ MaxStops \in Nat
    /\ None \notin Runs
    /\ IsFiniteSet(Resumers)

VARIABLES store,         \* persisted records
          writes,        \* save_run calls waiting for the store's lock
          tasks,         \* _tasks: the registered attempt of a run, or 0
          flags,         \* _cancel_flags: the attempt whose flag is registered
          att,           \* attempts: one background task each
          creating,      \* create_workflow_run, per run
          cancels,       \* cancel_run calls
          resumes,       \* resume_workflow_run calls
          poll,          \* the reconciling list request
          ckpts,         \* newest orchestration checkpoint of a run (durable)
          stops, stopping \* crashes and shutdowns so far; shutting down now

requestVars == <<creating, cancels, resumes, poll>>
taskVars == <<tasks, flags, att, ckpts>>
lifeVars == <<stops, stopping>>
vars == <<runtimeVars, store, writes, taskVars, requestVars, lifeVars>>

ActiveStatuses == {"queued", "running"}
TerminalStatuses == {"succeeded", "failed", "cancelled"}

\* ckpt is result_summary.last_checkpoint_id, sticky is
\* request_payload.checkpoint_id; 0 stands for an absent key.
Record == [status : ActiveStatuses \cup TerminalStatuses,
           ckpt : 0..MaxCheckpoints, sticky : 0..MaxCheckpoints]
NewRecord == [status |-> "queued", ckpt |-> 0, sticky |-> 0]

(***************************************************************************)
(* Where a task stands: "start" before its first step, "getwf" in          *)
(* get_workflow, "marking"/"starting"/"recording" saving on the way,       *)
(* "consuming" waiting for a workflow event, "closing" in aclose,          *)
(* "finalizing"/"ending" saving the outcome, "aborting" saving an early    *)
(* one.  "finished" has returned, "dead" raised or was killed.             *)
(***************************************************************************)
TaskStates == {"unused", "start", "getwf", "marking", "starting", "consuming",
               "recording", "closing", "finalizing", "ending", "aborting",
               "finished", "dead"}
Live(t) == att[t].pc \notin {"unused", "finished", "dead"}

\* flag: the cancel flag; term: terminal_emitted; from: the checkpoint it
\* resumes from; heeded: the flag as Finalize found it (history).
Attempt == [pc : TaskStates, run : Runs \cup {None}, rec : Record, flag : BOOLEAN,
            term : BOOLEAN, from : 0..MaxCheckpoints, heeded : BOOLEAN]
Unused == [pc |-> "unused", run |-> None, rec |-> NewRecord, flag |-> FALSE,
           term |-> FALSE, from |-> 0, heeded |-> FALSE]
NewAttempt(r, rec, from) ==
    [Unused EXCEPT !.pc = "start", !.run = r, !.rec = rec, !.from = from]

Actors == ({"task"} \X Attempts) \cup ({"create"} \X Runs) \cup
          ({"cancel"} \X Cancellers) \cup ({"resume"} \X Resumers) \cup {<<"poll", None>>}
Write == [by : Actors, run : Runs, rec : Record]

ResumeCall == [pc : {"idle", "getwf", "saving", "done"}, run : Runs \cup {None},
               explicit : 0..MaxCheckpoints, rec : Record, t : 0..MaxAttempts,
               from : 0..MaxCheckpoints]
IdleResume == [pc |-> "idle", run |-> None, explicit |-> 0, rec |-> NewRecord,
               t |-> 0, from |-> 0]
IdlePoll == [copy |-> [r \in Runs |-> NewRecord], todo |-> {}, busy |-> FALSE]

TypeOK ==
    /\ RuntimeTypeOK
    /\ store \in [Runs -> Record \cup {None}]
    /\ writes \in Seq(Write)
    /\ tasks \in [Runs -> 0..MaxAttempts]
    /\ flags \in [Runs -> 0..MaxAttempts]
    /\ att \in [Attempts -> Attempt]
    /\ creating \in [Runs -> {"none", "saving", "failing", "done"}]
    /\ cancels \in [Cancellers -> {"idle", "saving", "done"}]
    /\ resumes \in [Resumers -> ResumeCall]
    /\ poll \in [copy : [Runs -> Record \cup {None}], todo : SUBSET Runs, busy : BOOLEAN]
    /\ ckpts \in [Runs -> 0..MaxCheckpoints]
    /\ stops \in 0..MaxStops
    /\ stopping \in BOOLEAN

Init ==
    /\ RuntimeInit
    /\ store = [r \in Runs |-> None]
    /\ writes = <<>>
    /\ tasks = [r \in Runs |-> 0]
    /\ flags = [r \in Runs |-> 0]
    /\ att = [t \in Attempts |-> Unused]
    /\ creating = [r \in Runs |-> "none"]
    /\ cancels = [c \in Cancellers |-> "idle"]
    /\ resumes = [q \in Resumers |-> IdleResume]
    /\ poll = IdlePoll
    /\ ckpts = [r \in Runs |-> 0]
    /\ stops = 0
    /\ stopping = FALSE

-----------------------------------------------------------------------------
(* The store *)

Entry(by, r, rec) == [by |-> by, run |-> r, rec |-> rec]

\* save_run is called: the record is copied now and written in turn.
Save(by, r, rec) == writes' = Append(writes, Entry(by, r, rec)) /\ UNCHANGED store

\* The oldest waiting save, by's, is written ...
Turn(by) == writes # <<>> /\ Head(writes).by = by
Written == [store EXCEPT ![Head(writes).run] = Head(writes).rec]

\* ... and its caller goes on without saving, or to its next save.
Saved(by) == Turn(by) /\ store' = Written /\ writes' = Tail(writes)
SavedThenSave(by, r, rec) ==
    /\ Turn(by)
    /\ store' = Written
    /\ writes' = Append(Tail(writes), Entry(by, r, rec))

-----------------------------------------------------------------------------
(* Creating a run *)

FreeAttempts == {t \in Attempts : att[t].pc = "unused"}
NextAttempt == CHOOSE t \in FreeAttempts : TRUE

\* Bound: a request that may start a task begins while one is left for it.
RoomForTask ==
    Cardinality({r \in Runs : creating[r] = "saving"})
    + Cardinality({q \in Resumers : resumes[q].pc = "getwf"}) < Cardinality(FreeAttempts)

TaskActive(r) == tasks[r] # 0 /\ Live(tasks[r])

\* create_workflow_run up to its first save; the workflow exists and is
\* enabled, or nothing happens.
CreateRun(r) ==
    /\ ~stopping
    /\ creating[r] = "none"
    /\ RoomForTask
    /\ creating' = [creating EXCEPT ![r] = "saving"]
    /\ Save(<<"create", r>>, r, NewRecord)
    /\ UNCHANGED <<runtimeVars, taskVars, cancels, resumes, poll, lifeVars>>

\* The stream is open: register a flag, start the task and register it.
StartTask(r) ==
    LET t == NextAttempt
    IN  /\ att' = [att EXCEPT ![t] = NewAttempt(r, NewRecord, 0)]
        /\ tasks' = [tasks EXCEPT ![r] = t]
        /\ flags' = [flags EXCEPT ![r] = t]
        /\ creating' = [creating EXCEPT ![r] = "done"]
        /\ UNCHANGED ckpts

\* A faulty RefuseRun: an overload leaves the record queued.
ForgetRun(r) ==
    /\ Saved(<<"create", r>>)
    /\ creating' = [creating EXCEPT ![r] = "done"]

RefuseRun(r) ==
    /\ SavedThenSave(<<"create", r>>, r, [NewRecord EXCEPT !.status = "failed"])
    /\ creating' = [creating EXCEPT ![r] = "failing"]

\* The queued record is on disk: open the stream and start the task, or save
\* the run as failed when the stream runtime is full.
LaunchRun(r) ==
    /\ creating[r] = "saving"
    /\ \/ /\ Saved(<<"create", r>>)
          /\ CreateStream(r)
          /\ StartTask(r)
       \/ /\ Overloaded(r)
          /\ Lookup
          /\ RefuseRun(r)
          /\ UNCHANGED taskVars
    /\ UNCHANGED <<cancels, resumes, poll, lifeVars>>

RunRefused(r) ==
    /\ creating[r] = "failing"
    /\ Saved(<<"create", r>>)
    /\ creating' = [creating EXCEPT ![r] = "done"]
    /\ UNCHANGED <<runtimeVars, taskVars, cancels, resumes, poll, lifeVars>>

-----------------------------------------------------------------------------
(* The background task, _run_workflow_task *)

Me(t) == <<"task", t>>
InState(t, pc) == att[t].pc = pc
Rec(t, status) == [att[t].rec EXCEPT !.status = status]

Goto(t, pc) == att' = [att EXCEPT ![t].pc = pc]
GotoWith(t, pc, rec) == att' = [att EXCEPT ![t] = [@ EXCEPT !.pc = pc, !.rec = rec]]

(***************************************************************************)
(* The coroutine returns or raises; its done callback, _cleanup_task, runs *)
(* next on the loop and drops whatever task and flag the run id maps to.   *)
(***************************************************************************)
Leave(t, pc) ==
    /\ att' = [att EXCEPT ![t].pc = pc]
    /\ tasks' = [tasks EXCEPT ![att[t].run] = 0]
    /\ flags' = [flags EXCEPT ![att[t].run] = 0]
    /\ UNCHANGED ckpts

KeepRegistered == UNCHANGED <<tasks, flags, ckpts>>

\* _abort_before_run_if_needed, first half: cancelled before it began.
TaskStart(t) ==
    /\ InState(t, "start")
    /\ IF att[t].flag
       THEN /\ GotoWith(t, "aborting", Rec(t, "cancelled"))
            /\ Save(Me(t), att[t].run, Rec(t, "cancelled"))
       ELSE /\ Goto(t, "getwf")
            /\ UNCHANGED <<store, writes>>
    /\ KeepRegistered
    /\ UNCHANGED <<runtimeVars, requestVars, lifeVars>>

\* ... second half: the workflow may be gone by now; then _mark_record_running.
TaskMark(t) ==
    /\ InState(t, "getwf")
    /\ \E next \in {<<"aborting", "failed">>, <<"marking", "running">>} :
          /\ GotoWith(t, next[1], Rec(t, next[2]))
          /\ Save(Me(t), att[t].run, Rec(t, next[2]))
    /\ KeepRegistered
    /\ UNCHANGED <<runtimeVars, requestVars, lifeVars>>

TaskAborted(t) ==
    /\ InState(t, "aborting")
    /\ Saved(Me(t))
    /\ Leave(t, "finished")
    /\ UNCHANGED <<runtimeVars, requestVars, lifeVars>>

\* _save_started_payload; outside the try block, so a lost stream kills the
\* task with the record still running.
TaskStarted(t) ==
    LET r == att[t].run
    IN  /\ InState(t, "marking")
        /\ \/ /\ AppendEvent(r, "started")
              /\ SavedThenSave(Me(t), r, att[t].rec)
              /\ Goto(t, "starting")
              /\ KeepRegistered
           \/ /\ r \notin Surviving
              /\ Lookup
              /\ Saved(Me(t))
              /\ Leave(t, "dead")
        /\ UNCHANGED <<requestVars, lifeVars>>

\* The save before the loop, or at the end of one of its rounds, is done.
TaskAwaits(t) ==
    /\ InState(t, "starting") \/ InState(t, "recording")
    /\ Saved(Me(t))
    /\ Goto(t, "consuming")
    /\ KeepRegistered
    /\ UNCHANGED <<runtimeVars, requestVars, lifeVars>>

\* The engine saves a checkpoint before it yields the event that names it.
Checkpointed(r) ==
    /\ ckpts[r] < MaxCheckpoints
    /\ ckpts' = [ckpts EXCEPT ![r] = @ + 1]

(***************************************************************************)
(* An event of _consume_workflow_stream.  The flag is looked at first;     *)
(* else the event is appended and its outcome applied.  The engine ends    *)
(* every run with an event, so the loop never just runs out.               *)
(***************************************************************************)
TaskCancelled(t) ==
    /\ InState(t, "consuming")
    /\ att[t].flag
    /\ GotoWith(t, "closing", Rec(t, "cancelled"))
    /\ Checkpointed(att[t].run) \/ UNCHANGED ckpts
    /\ UNCHANGED <<runtimeVars, store, writes, tasks, flags, requestVars, lifeVars>>

\* A faulty TaskProgress: saves the record before it notes the checkpoint.
TaskProgressSavedEarly(t) ==
    LET r == att[t].run
    IN  /\ InState(t, "consuming")
        /\ ~att[t].flag
        /\ AppendEvent(r, "data")
        /\ Checkpointed(r)
        /\ GotoWith(t, "recording", [att[t].rec EXCEPT !.ckpt = ckpts[r] + 1])
        /\ Save(Me(t), r, att[t].rec)
        /\ UNCHANGED <<tasks, flags, requestVars, lifeVars>>

\* An event that names a new checkpoint, or one that names none.
TaskProgress(t) ==
    LET r == att[t].run
    IN  /\ InState(t, "consuming")
        /\ ~att[t].flag
        /\ AppendEvent(r, "data")
        /\ \E rec \in {att[t].rec, [att[t].rec EXCEPT !.ckpt = ckpts[r] + 1]} :
              /\ IF rec = att[t].rec THEN produced[r] < MaxProduced /\ UNCHANGED ckpts
                                     ELSE Checkpointed(r)
              /\ GotoWith(t, "recording", rec)
              /\ Save(Me(t), r, rec)
        /\ UNCHANGED <<tasks, flags, requestVars, lifeVars>>

\* workflow_run_finished, which only a completed run yields and which names
\* the last checkpoint: not a terminal event of the stream.
TaskWorkflowFinished(t) ==
    LET r == att[t].run
    IN  /\ InState(t, "consuming")
        /\ ~att[t].flag
        /\ Checkpointed(r)
        /\ AppendEvent(r, "data")
        /\ att' = [att EXCEPT ![t] = [@ EXCEPT !.pc = "closing", !.term = TRUE,
                                         !.rec.status = "succeeded", !.rec.ckpt = ckpts'[r]]]
        /\ UNCHANGED <<store, writes, tasks, flags, requestVars, lifeVars>>

\* A stream_error event unless cancelled, or an exception out of the
\* generator, which the flag does not guard.  The engine's own failures save a
\* checkpoint that the event does not name.  The except branch itself raises
\* when the stream is gone.
TaskFailed(t) ==
    LET r == att[t].run
    IN  /\ InState(t, "consuming")
        /\ \/ /\ AppendEvent(r, "error")
              /\ att' = [att EXCEPT ![t] = [@ EXCEPT !.pc = "closing", !.term = TRUE,
                                               !.rec.status = "failed"]]
           \/ /\ r \notin Surviving
              /\ Lookup
              /\ GotoWith(t, "closing", Rec(t, "failed"))
        /\ Checkpointed(r) \/ UNCHANGED ckpts
        /\ UNCHANGED <<store, writes, tasks, flags, requestVars, lifeVars>>

\* A faulty FinalStatus: speaks the workflow's language, not the record's.
FinalWorkflowStatus(status, flagged) ==
    IF status # "running" THEN status
    ELSE IF flagged THEN "cancelled" ELSE "success"

(***************************************************************************)
(* aclose has returned: _finalize_task_record.  final_error is only ever   *)
(* set together with failed or cancelled, so its downgrade of succeeded    *)
(* has no case; a record still running is one whose task was cancelled     *)
(* with the process (CancelledTask).                                       *)
(***************************************************************************)
FinalStatus(status, flagged) ==
    IF status # "running" THEN status
    ELSE IF flagged THEN "cancelled" ELSE "succeeded"

TaskFinalize(t) ==
    LET rec == Rec(t, FinalStatus(att[t].rec.status, att[t].flag))
    IN  /\ InState(t, "closing")
        /\ att' = [att EXCEPT ![t] = [@ EXCEPT !.pc = "finalizing", !.rec = rec,
                                         !.heeded = att[t].flag]]
        /\ Save(Me(t), att[t].run, rec)
        /\ KeepRegistered
        /\ UNCHANGED <<runtimeVars, requestVars, lifeVars>>

\* _ensure_terminal_payload: looks for stream_ended in the window.
HasEnded(r) == \E i \in 1..Len(events[r]) : events[r][i].kind = "ended"

\* A faulty TaskEnsureEnded: trusts terminal_emitted alone.
TaskTrustsTerminal(t) ==
    LET r == att[t].run
    IN  /\ InState(t, "finalizing")
        /\ \/ /\ att[t].term
              /\ Lookup
              /\ Saved(Me(t))
              /\ Leave(t, "finished")
           \/ /\ ~att[t].term
              /\ AppendEvent(r, "ended")
              /\ SavedThenSave(Me(t), r, att[t].rec)
              /\ Goto(t, "ending")
              /\ KeepRegistered
        /\ UNCHANGED <<requestVars, lifeVars>>

TaskEnsureEnded(t) ==
    LET r == att[t].run
    IN  /\ InState(t, "finalizing")
        /\ \/ /\ r \notin Surviving
              /\ Lookup
              /\ Saved(Me(t))
              /\ Leave(t, "dead")
           \/ /\ r \in Surviving /\ att[t].term /\ HasEnded(r)
              /\ Lookup
              /\ Saved(Me(t))
              /\ Leave(t, "finished")
           \/ /\ ~(att[t].term /\ HasEnded(r))
              /\ AppendEvent(r, "ended")
              /\ SavedThenSave(Me(t), r, att[t].rec)
              /\ Goto(t, "ending")
              /\ KeepRegistered
        /\ UNCHANGED <<requestVars, lifeVars>>

TaskEnds(t) ==
    /\ InState(t, "ending")
    /\ Saved(Me(t))
    /\ Leave(t, "finished")
    /\ UNCHANGED <<runtimeVars, requestVars, lifeVars>>

-----------------------------------------------------------------------------
(* Cancelling *)

SetFlag(r) == att' = IF flags[r] # 0 THEN [att EXCEPT ![flags[r]].flag = TRUE] ELSE att

\* cancel_run: read, set the flag, save the copy it read as cancelled.
Cancel(c, r) ==
    /\ ~stopping
    /\ cancels[c] = "idle"
    /\ store[r] # None
    /\ store[r].status \notin TerminalStatuses
    /\ SetFlag(r)
    /\ Save(<<"cancel", c>>, r, [store[r] EXCEPT !.status = "cancelled"])
    /\ cancels' = [cancels EXCEPT ![c] = "saving"]
    /\ KeepRegistered
    /\ UNCHANGED <<runtimeVars, creating, resumes, poll, lifeVars>>

CancelSaved(c) ==
    /\ cancels[c] = "saving"
    /\ Saved(<<"cancel", c>>)
    /\ cancels' = [cancels EXCEPT ![c] = "done"]
    /\ UNCHANGED <<runtimeVars, taskVars, creating, resumes, poll, lifeVars>>

-----------------------------------------------------------------------------
(* Resuming *)

\* Faulty versions of Resumable: a cancelled run, or one at work, may resume.
ResumableCancelled(r) == store[r].status # "succeeded" /\ ~TaskActive(r)
ResumableActive(r) == store[r].status \notin {"succeeded", "cancelled"}

Resumable(r) == store[r].status \notin {"succeeded", "cancelled"} /\ ~TaskActive(r)

\* resume_workflow_run up to get_workflow: read, check the status, check that
\* no task is active.
ResumeRequest(q, r) ==
    /\ ~stopping
    /\ resumes[q].pc = "idle"
    /\ store[r] # None
    /\ Resumable(r)
    /\ RoomForTask
    /\ \E explicit \in 0..ckpts[r] :
          resumes' = [resumes EXCEPT ![q] = [IdleResume EXCEPT
              !.pc = "getwf", !.run = r, !.explicit = explicit, !.rec = store[r]]]
    /\ UNCHANGED <<runtimeVars, store, writes, taskVars, creating, cancels, poll, lifeVars>>

ResumeDone(q) == resumes' = [resumes EXCEPT ![q].pc = "done"]

\* The workflow is gone or disabled.
ResumeRejected(q) ==
    /\ resumes[q].pc = "getwf"
    /\ ResumeDone(q)
    /\ UNCHANGED <<runtimeVars, store, writes, taskVars, creating, cancels, poll, lifeVars>>

FirstGiven(a, b, c) == IF a # 0 THEN a ELSE IF b # 0 THEN b ELSE c

\* The checkpoint to resume from: the request's, else the one remembered in
\* request_payload, else the newest the record knows.
ResumeFrom(explicit, rec) == FirstGiven(explicit, rec.sticky, rec.ckpt)

\* Open the stream (a full runtime raises out of the request), register a
\* new cancel flag, save the record as running.
ResumePrepare(q) ==
    LET r == resumes[q].run
        from == ResumeFrom(resumes[q].explicit, resumes[q].rec)
        rec == [resumes[q].rec EXCEPT !.status = "running",
                                      !.sticky = IF from # 0 THEN from ELSE @]
        t == NextAttempt
    IN  /\ resumes[q].pc = "getwf"
        /\ \/ /\ CreateStream(r)
              /\ flags' = [flags EXCEPT ![r] = t]
              /\ att' = [att EXCEPT ![t] = [NewAttempt(r, rec, from) EXCEPT !.pc = "dead"]]
              /\ resumes' = [resumes EXCEPT ![q] = [@ EXCEPT !.pc = "saving", !.rec = rec,
                                                       !.t = t, !.from = from]]
              /\ Save(<<"resume", q>>, r, rec)
              /\ UNCHANGED <<tasks, ckpts>>
           \/ /\ Overloaded(r)
              /\ Lookup
              /\ ResumeDone(q)
              /\ UNCHANGED <<store, writes, taskVars>>
        /\ UNCHANGED <<creating, cancels, poll, lifeVars>>

\* The record is saved: the task is created and registered.
ResumeLaunch(q) ==
    LET r == resumes[q].run
        t == resumes[q].t
    IN  /\ resumes[q].pc = "saving"
        /\ Saved(<<"resume", q>>)
        /\ ResumeDone(q)
        /\ att' = [att EXCEPT ![t].pc = "start"]
        /\ tasks' = [tasks EXCEPT ![r] = t]
        /\ UNCHANGED <<flags, ckpts, runtimeVars, creating, cancels, poll, lifeVars>>

-----------------------------------------------------------------------------
(* Reconciling: GET /runs and GET /runs/{id} *)

\* A faulty Orphan: overlooks queued records.
RunningOrphan(r, copy) ==
    copy[r] # None /\ copy[r].status = "running" /\ ~TaskActive(r)

Orphan(r, copy) ==
    copy[r] # None /\ copy[r].status \in ActiveStatuses /\ ~TaskActive(r)

(***************************************************************************)
(* The loop of reconcile_orphaned_runs from one save to the next: it meets *)
(* the records of todo in some order, passes those that are no orphans,    *)
(* and saves the first orphan, r, as failed.                               *)
(***************************************************************************)
NextOrphan(copy, todo, rest, r) ==
    /\ rest \subseteq todo \ {r}
    /\ Orphan(r, copy)
    /\ \A x \in todo \ (rest \cup {r}) : ~Orphan(x, copy)
    /\ poll' = [copy |-> copy, todo |-> rest, busy |-> TRUE]

\* One pass that meets no orphan changes nothing and is left out.
Poll ==
    /\ ~stopping
    /\ ~poll.busy
    /\ \E R \in SUBSET Runs : \E r \in R : \E rest \in SUBSET R :
          /\ NextOrphan(store, R, rest, r)
          /\ Save(<<"poll", None>>, r, [store[r] EXCEPT !.status = "failed"])
    /\ UNCHANGED <<runtimeVars, taskVars, creating, cancels, resumes, lifeVars>>

PollSaved ==
    /\ poll.busy
    /\ \/ /\ \A x \in poll.todo : ~Orphan(x, poll.copy)
          /\ Saved(<<"poll", None>>)
          /\ poll' = IdlePoll
       \/ \E r \in poll.todo : \E rest \in SUBSET poll.todo :
             /\ NextOrphan(poll.copy, poll.todo, rest, r)
             /\ SavedThenSave(<<"poll", None>>, r, [poll.copy[r] EXCEPT !.status = "failed"])
    /\ UNCHANGED <<runtimeVars, taskVars, creating, cancels, resumes, lifeVars>>

-----------------------------------------------------------------------------
(* The process stops *)

\* Everything but the record files and the checkpoint database is lost.
Restart ==
    /\ open' = {}
    /\ UNCHANGED <<done, seq, events, subscribers, idle, queue, produced>>
    /\ writes' = <<>>
    /\ tasks' = [r \in Runs |-> 0]
    /\ flags' = [r \in Runs |-> 0]
    /\ att' = [t \in Attempts |-> IF att[t].pc = "unused" THEN att[t]
                                  ELSE [Unused EXCEPT !.pc = "dead"]]
    /\ creating' = [r \in Runs |-> IF creating[r] = "none" THEN "none" ELSE "done"]
    /\ cancels' = [c \in Cancellers |-> IF cancels[c] = "idle" THEN "idle" ELSE "done"]
    /\ resumes' = [q \in Resumers |-> IF resumes[q].pc = "idle" THEN IdleResume
                                      ELSE [IdleResume EXCEPT !.pc = "done"]]
    /\ poll' = IdlePoll
    /\ stopping' = FALSE
    /\ UNCHANGED <<store, ckpts>>

Crash ==
    /\ stops < MaxStops
    /\ ~stopping
    /\ stops' = stops + 1
    /\ Restart

(***************************************************************************)
(* A clean shutdown cancels every coroutine where it waits.  The requests  *)
(* end; a task outside its try block dies; one inside runs the finally     *)
(* clause; one already in that clause is thrown out of it.  Saves that     *)
(* were waiting are not made.                                              *)
(***************************************************************************)
CancelledTask(a) ==
    CASE a.pc \in {"consuming", "recording"} -> [a EXCEPT !.pc = "closing"]
      [] a.pc \in {"unused", "finished", "dead"} -> a
      [] OTHER -> [a EXCEPT !.pc = "dead"]

Shutdown ==
    /\ stops < MaxStops
    /\ ~stopping
    /\ stopping' = TRUE
    /\ stops' = stops + 1
    /\ writes' = <<>>
    /\ att' = [t \in Attempts |-> CancelledTask(att[t])]
    /\ creating' = [r \in Runs |-> IF creating[r] = "none" THEN "none" ELSE "done"]
    /\ cancels' = [c \in Cancellers |-> IF cancels[c] = "idle" THEN "idle" ELSE "done"]
    /\ resumes' = [q \in Resumers |-> IF resumes[q].pc = "idle" THEN IdleResume
                                      ELSE [IdleResume EXCEPT !.pc = "done"]]
    /\ poll' = IdlePoll
    /\ UNCHANGED <<runtimeVars, store, tasks, flags, ckpts>>

ShutdownOver ==
    /\ stopping
    /\ \A t \in Attempts : ~Live(t)
    /\ Restart
    /\ UNCHANGED stops

-----------------------------------------------------------------------------
TaskStep(t) ==
    \/ TaskStart(t)
    \/ TaskMark(t)
    \/ TaskAborted(t)
    \/ TaskStarted(t)
    \/ TaskAwaits(t)
    \/ TaskCancelled(t)
    \/ TaskProgress(t)
    \/ TaskWorkflowFinished(t)
    \/ TaskFailed(t)
    \/ TaskFinalize(t)
    \/ TaskEnsureEnded(t)
    \/ TaskEnds(t)

RequestStep ==
    \/ \E r \in Runs : LaunchRun(r) \/ RunRefused(r)
    \/ \E c \in Cancellers : CancelSaved(c)
    \/ \E q \in Resumers : ResumeRejected(q) \/ ResumePrepare(q) \/ ResumeLaunch(q)
    \/ PollSaved

Next ==
    \/ \E t \in Attempts : TaskStep(t)
    \/ RequestStep
    \/ \E r \in Runs : CreateRun(r)
    \/ \E c \in Cancellers, r \in Runs : Cancel(c, r)
    \/ \E q \in Resumers, r \in Runs : ResumeRequest(q, r)
    \/ Poll
    \/ Crash \/ Shutdown \/ ShutdownOver
    \/ Tick /\ UNCHANGED <<store, writes, taskVars, requestVars, lifeVars>>

Spec == Init /\ [][Next]_vars

(***************************************************************************)
(* The event loop runs what can run, a workflow yields or ends, a process  *)
(* told to stop stops, and clients keep listing runs (the pages poll).     *)
(***************************************************************************)
Fairness ==
    /\ \A t \in Attempts : WF_vars(TaskStep(t))
    /\ WF_vars(RequestStep)
    /\ WF_vars(ShutdownOver)
    /\ WF_vars(Poll)

FairSpec == Spec /\ Fairness

-----------------------------------------------------------------------------
(* Properties *)

HasStatus(r, statuses) == store[r] # None /\ store[r].status \in statuses

(***************************************************************************)
(* A run whose task found its cancel flag set when it finalized, and that  *)
(* had no outcome of its own by then, ends up cancelled on disk: the saves *)
(* of the request, the task and the list requests never leave another      *)
(* status behind (cancel_run, _consume_workflow_stream, _finalize_...).    *)
(***************************************************************************)
CancelHonoured ==
    \A t \in Attempts :
        (att[t].pc = "finished" /\ att[t].heeded /\ ~att[t].term)
            => store[att[t].run].status = "cancelled"

(***************************************************************************)
(* What a crash would lose: while a task waits for its next event, the     *)
(* persisted record of a running run names the newest checkpoint the task  *)
(* has seen, so a resume repeats only the step in progress.                *)
(***************************************************************************)
CheckpointsPersisted ==
    \A t \in Attempts :
        (InState(t, "consuming") /\ HasStatus(att[t].run, {"running"}))
            => store[att[t].run].ckpt = att[t].rec.ckpt

(***************************************************************************)
(* Until the process stops for the first time, a record that says queued   *)
(* or running has a task, or its creation is about to record a failure:    *)
(* reconciliation finds nothing to do.                                     *)
(***************************************************************************)
OrphansOnlyAfterStop ==
    stops = 0 =>
        \A r \in Runs :
            HasStatus(r, ActiveStatuses) => TaskActive(r) \/ creating[r] = "failing"

(***************************************************************************)
(* A task that got as far as running the workflow leaves a completed       *)
(* stream behind, whatever happened: readers of the stream are released    *)
(* (_ensure_terminal_payload in the finally clause).                       *)
(***************************************************************************)
TaskCompletesStream ==
    [][\A t \in Attempts :
          (att[t].pc \in {"finalizing", "ending"} /\ att'[t].pc = "finished")
              => (att[t].run \in open' => done'[att[t].run])]_vars

(***************************************************************************)
(* A run that is queued or running on disk ends up in a terminal status:   *)
(* by its task, a cancel request, or, after the process lost it, by the    *)
(* next list request (reconcile_orphaned_runs).                            *)
(***************************************************************************)
Settled ==
    \A r \in Runs : HasStatus(r, ActiveStatuses) ~> HasStatus(r, TerminalStatuses)

(***************************************************************************)
(* A resume without an explicit checkpoint never goes back behind the      *)
(* newest one the record knows: "Resume without `checkpoint_id` uses the   *)
(* latest known checkpoint for that run" (docs/api_endpoints.md:127).      *)
(***************************************************************************)
ResumesFromLatest ==
    \A q \in Resumers :
        (resumes[q].pc = "saving" /\ resumes[q].explicit = 0)
            => resumes[q].from >= resumes[q].rec.ckpt

(***************************************************************************)
(* Only a workflow that completed makes its run a success.  A run that was *)
(* cut short is a failure: "Run interrupted before completion. Please      *)
(* rerun." (async_run_service.py:243, expected by                          *)
(* tests/unit/application/flow/test_async_run_service.py:85).              *)
(***************************************************************************)
SuccessIsEarned ==
    \A t \in Attempts :
        (/\ att[t].pc = "finished" /\ att[t].rec.status = "succeeded"
         /\ HasStatus(att[t].run, {"succeeded"}))
            => att[t].term

(***************************************************************************)
(* Reconciliation fails a run only when no task of this process works on   *)
(* it: "Mark queued/running runs as failed when this process has no active *)
(* task" (async_run_service.py:237).                                       *)
(***************************************************************************)
ReconcilesOrphans ==
    \A i \in 1..Len(writes) :
        writes[i].by = <<"poll", None>>
            => \A t \in Attempts : att[t].run = writes[i].run => ~Live(t)

=============================================================================
