\* Two bits per byte, sectors of one or two bytes, compatibility switched.
SPECIFICATION Spec
CONSTANTS
  b1 = b1
  b2 = b2
  f1 = f1
  f2 = f2
  NoFile = NoFile
  ARRAY = ARRAY
  Size = 3
  Bits = {b1, b2}
  Payloads <- MCTwoBits
  BufferCounts = {2}
  SectorSizes = {1, 2}
  Intervals = {0}
  MaxDeferred = 0
  Files = {f1}
  ImageFile = f1
  StartPaths = {NoFile}
  Images <- MCImages
  FileSize <- MCCovers
  DmiRanges <- MCNoRange
  OpenMayFail = FALSE
  DeferValues = {TRUE}
  CompatValues = {TRUE, FALSE}
  Env <- MCSectorEnv
INVARIANTS SectorMapSound
PROPERTIES ImplementsNorArray
