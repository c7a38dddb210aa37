\* The reader of one file or of two, synchronous or not; filtered readers and slices of it; two tasks.
SPECIFICATION Spec
CONSTANTS
  None = None  a = a  b = b  camera = camera  t1 = t1  t2 = t2
  Streams <- MCStreams
  FileId <- MCFileId
  TypeIdOf <- MCTypeIdOf
  N = 6
  Stream <- MCStream
  Type <- MCType
  Timestamp <- MCTimestamp
  Readers <- MCReaders
  Items <- MCItems
  Tasks <- MCTasks
  FilterCalls <- MCFilterCalls
  SliceCalls <- MCSliceCalls
  MaxObjects = 2
  Times <- MCTimes
  Epsilons <- MCEpsilons
  PieceLists <- MCPieceLists
INVARIANTS TypeOK IterationComplete FilterIsExact NavigationIsExact IndexByTimeIsRecord AnswersAgree EveryPieceIsFound
\* The program may stop at any time.
CHECK_DEADLOCK FALSE
