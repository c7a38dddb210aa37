\* A time range that skips two configuration records, and an unreadable record.
SPECIFICATION Spec
CONSTANTS
  FileLength = 8
  Kind <- MCKind
  Timestamp <- MCTimestamp
  Selected <- MCSelected
  PreRoll <- MCPreRoll
  Unreadable <- MCUnreadable
  MaxCreates = 1
INVARIANTS TypeOK FileInOrder NothingLost BacklogWaitsForImages
PROPERTIES ClosedIsComplete
\* The program may stop using the filter at any point.
CHECK_DEADLOCK FALSE
