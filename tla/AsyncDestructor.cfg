\* The reader is dropped while its worker is busy.
SPECIFICATION FairSpec
CONSTANTS
  t1 = t1  t2 = t2  t3 = t3
  None = None
  Tasks <- MCTwoTasks
  RecordCount = 2
  BadRecords <- MCBadRecords
PROPERTIES DestructorReturns
\* Everything is done once the reader is freed, or the process is gone.
CHECK_DEADLOCK FALSE
