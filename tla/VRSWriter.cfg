\* One thread, two streams; creating the file may fail.
SPECIFICATION FairSpec
CONSTANTS
  t1 = t1
  s1 = s1
  s2 = s2
  Threads <- MCOneThread
  Streams <- MCTwoStreams
  MaxTimestamp = 2
  MaxRecords = 3
  MaxQueue = 1
INVARIANTS TypeOK FileInTimestampOrder ConfigIsInFront
PROPERTIES FlushReturns
\* The program may stop using the writer at any point.
CHECK_DEADLOCK FALSE
