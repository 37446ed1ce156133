\* Executions of one run: crashes, closed streams, resumes from any checkpoint, one edit.
SPECIFICATION FairSpec
CONSTANTS
  None = None
  MaxSteps = 5
  MaxRetries = 1
  Workflows <- MCWorkflows
  Requests <- MCRequests
  MaxExecutions = 2
  MaxEdits = 1
  HistoryLimit = 1
INVARIANTS
  TypeOK
  AttemptsAccounted
  SuccessIsDurable
PROPERTIES
  ImplementsDurableRun
  ExecutionEnds
CHECK_DEADLOCK FALSE
