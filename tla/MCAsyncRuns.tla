---------------------------- MODULE MCAsyncRuns ----------------------------
(* AsyncRuns for TLC: one run that is cancelled, resumed and listed, with two checkpoints, *)
(* or two runs that compete for one place of the stream registry, with one checkpoint each *)
(* and nobody cancelling. `part' says which.                                               *)
EXTENDS AsyncRuns

CONSTANTS r1, r2, cancel, resume1, resume2

OneRun == {r1}
TwoRuns == {r1, r2}
OneCancel == {cancel}
OneResume == {resume1}
TwoResumes == {resume1, resume2}
Nobody == {}

VARIABLE part

Pair == INSTANCE AsyncRuns WITH MaxCheckpoints <- 1, MaxProduced <- 0

BothInit == Init /\ part \in {"one", "pair"}

BothNext ==
    /\ UNCHANGED part
    /\ \/ part = "one" /\ Next /\ creating'[r2] = "none"
       \/ part = "pair" /\ Pair!Next /\ UNCHANGED cancels

\* The fairness of AsyncRuns for either part.
BothSpec ==
    /\ BothInit /\ [][BothNext]_<<vars, part>>
    /\ \A t \in Attempts :
          WF_vars(part = "one" /\ TaskStep(t)) /\ WF_vars(part = "pair" /\ Pair!TaskStep(t))
    /\ WF_vars(part = "one" /\ RequestStep) /\ WF_vars(part = "pair" /\ Pair!RequestStep)
    /\ WF_vars(part = "one" /\ ShutdownOver) /\ WF_vars(part = "pair" /\ Pair!ShutdownOver)
    /\ WF_vars(part = "one" /\ Poll) /\ WF_vars(part = "pair" /\ Pair!Poll)

\* AsyncRuns as it stands, with the runs the configuration names.
OneSpec == Init /\ part = "one" /\ [][Next /\ UNCHANGED part]_<<vars, part>>
=============================================================================
