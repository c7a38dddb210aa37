\* A time range.
SPECIFICATION Spec
CONSTANTS
  FileLength = 8
  Kind <- MCKind
  Timestamp <- MCTimestamp
  Selected <- MCSelected
  PreRoll <- MCPreRoll
  Unreadable <- MCNone
  MaxCreates = 1
INVARIANTS MetadataOfRecord
\* The program may stop using the filter at any point.
CHECK_DEADLOCK FALSE
