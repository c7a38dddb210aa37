\* Three awaits, one record whose read may fail.
SPECIFICATION FairSpec
CONSTANTS
  t1 = t1  t2 = t2  t3 = t3
  None = None
  Tasks <- MCTasks
  RecordCount = 2
  BadRecords <- MCBadRecords
INVARIANTS TypeOK NeverSideBySide ReaderOutlivesWorker PendingIsCarried NoGilBlockAfterStop
PROPERTIES SettledOnce DeliveredInOrder AwaitSettlesOrDies
\* Everything is done once the reader is freed; see also AsyncDestructor.cfg.
CHECK_DEADLOCK FALSE
