\* Blocks of every content, read under every conversion, accessed three times.
SPECIFICATION Spec
CONSTANTS
  None = None
  Images <- MCImages
  Audios <- MCAudiosThatFit
  PixelInfo <- MCPixelInfo
  Conversions <- MCConversions
  MaxArrays = 3
INVARIANTS ArraysAreValid SamplesAreRecorded
PROPERTIES ArraysKeepTheirBytes WrittenBackIsShown
\* An audio block whose samples cannot be presented has no further step.
CHECK_DEADLOCK FALSE
