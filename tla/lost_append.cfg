\* Two coroutines in operations on one session file.
SPECIFICATION StorageSpec
CONSTANTS
  Absent = None
  Tasks = {t1, t2}
  MaxOps = 2
  MaxMessages = 2
INVARIANTS
  AppendsSurvive
CHECK_DEADLOCK FALSE
