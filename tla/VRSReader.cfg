\* The program enables a stream before it reads from it and reads data records, in any order; two
\* records, a data and a configuration record, may fail to be read.
SPECIFICATION Spec
CONSTANTS
  None = None  s1 = s1  s2 = s2  camera = camera
  Streams <- MCStreams
  FileId <- MCFileId
  TypeIdOf <- MCTypeIdOf
  N = 6
  Stream <- MCStream
  Type <- MCType
  Timestamp <- MCTimestamp
  Blocks <- MCBlocks
  Broken <- MCBroken
  AutoRead = TRUE
  EnableLate = FALSE
  ReadTypes <- MCData
  MaxTrailing = 2
  MaxLeftovers = 1
INVARIANTS TypeOK
PROPERTIES ExactBlocks DecodedUnderItsConfig NextRecordIsNext InfosForetellReads ImplementsRecordSource
\* The program may close the file and stop.
CHECK_DEADLOCK FALSE
