\* Two files that share a stream id; the program enables all streams or only the first file's.
SPECIFICATION Spec
CONSTANTS
  None = None  a = a  b = b  c = c  camera = camera  imu = imu
  Streams <- MCStreams
  FileId <- MCFileId
  TypeIdOf <- MCTypeIdOf
  N = 8
  Stream <- MCStream
  Type <- MCType
  Timestamp <- MCTimestamp
  Blocks <- MCBlocks
  Broken <- MCBroken
  AutoRead = TRUE
  EnableSets <- MCEnableSets
  EnableLate = FALSE
  ReadTypes <- MCReadTypes
  Skips <- MCSkips
  Conversions <- MCConversions
  MaxLeftovers = 1
INVARIANTS OptionsAreCurrent
PROPERTIES ExactBlocks NextRecordIsNext ImplementsRecordSource
\* The program may close the files and stop.
CHECK_DEADLOCK FALSE
