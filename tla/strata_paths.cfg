\* Two files shorter than the flash, opened or not, and selected at any time.
SPECIFICATION Spec
CONSTANTS
  b1 = b1
  b2 = b2
  f1 = f1
  f2 = f2
  NoFile = NoFile
  ARRAY = ARRAY
  Size = 2
  Bits = {b1}
  Payloads <- MCOneBit
  BufferCounts = {}
  SectorSizes = {2}
  Intervals = {2}
  MaxDeferred = 2
  Files = {f1, f2}
  ImageFile = f1
  StartPaths = {NoFile, f1}
  Images <- MCBlank
  FileSize <- MCShort
  DmiRanges <- MCFirst
  OpenMayFail = TRUE
  DeferValues = {TRUE, FALSE}
  CompatValues = {FALSE}
  Env <- MCPathEnv
PROPERTIES DirtyKept
