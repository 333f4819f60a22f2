\* An OTP of three one-bit words, of which a key takes two; the last two end a
\* lifecycle state each.
SPECIFICATION Spec
CONSTANTS
  b = b
  Size = 3
  Bits = {b}
  CmConfig2 = 1
  DmConfig = 2
  StartLcs = {"CM"}
  Writeback = TRUE
  LockAfter = TRUE
  OtpWrites <- MCOtpWrites
  Images <- MCImages
  Slots = {1}
  KeyWords = 2
  OtpOffset <- MCOtpOffset
  KeyBits = {b}
  Ports = {1}
  DefaultPort = 1
  KeyWrites <- MCOneKeyWord
INVARIANTS BurntIsKept
