\* Three bytes over one file that covers them; opening it never fails.
SPECIFICATION Spec
CONSTANTS
  b1 = b1
  b2 = b2
  f1 = f1
  f2 = f2
  NoFile = NoFile
  ARRAY = ARRAY
  Size = 3
  Bits = {b1}
  Payloads <- MCOneBit
  BufferCounts = {2, 3}
  SectorSizes = {2}
  Intervals = {0, 2}
  MaxDeferred = 2
  Files = {f1}
  ImageFile = f1
  StartPaths = {NoFile, f1}
  Images <- MCImages
  FileSize <- MCCovers
  DmiRanges <- MCWhole
  OpenMayFail = FALSE
  DeferValues = {TRUE, FALSE}
  CompatValues = {FALSE}
  Env <- MCDurableEnv
INVARIANTS DmiTransparent BackingCoherent
PROPERTIES CrashLosesOnlyDirty DestroyLosesNothing
