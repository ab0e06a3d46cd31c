SPECIFICATION FairSpec
CONSTANTS
  v1 = v1
  v2 = v2
  Views <- MCViews
  Streams <- MCStreams
  Whole <- MCWhole
  Bitmap <- MCBitmap
  RowGroups = 1
  MaxFrames = 2
  None = None
  Gray = Gray
  Garbage = Garbage
  Unset = Unset
CHECK_DEADLOCK FALSE
INVARIANTS
  KeepsPlace
  PictureIsWhole
PROPERTIES
  CallsReturn
