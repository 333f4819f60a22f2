\* Registers of up to three one-bit words; hash blocks of four bytes, cipher
\* blocks of two and chunks of two; two adjacent DMI windows, each
\* backed by one of two buffers.
SPECIFICATION Spec
CONSTANTS
  WordBits = 1
  ImmBits = 1
  SramWords = 7
  Regs = {0, 1, 2}
  Sizes = {0}
  LenBits = {0, 3}
  Bases = {0, 3, 4}
  Maps <- MCMaps
  Layouts <- MCLayouts
  Cursors = {0, 1, 2, 3, 4, 5, 6, 7}
  Opcodes <- MCOpcodes
  BlockLen = 4
  LenBytes = 1
  AesLen = 2
  ChunkLen = 2
  CtrValues = 3
  Engines = {"HASH", "AES"}
  Controls <- MCControls
  Counters = {2}
  Memory = {0, 1, 2, 3, 4, 5, 6, 7, 8}
  Mappings <- MCMappings
  Sources <- MCSources
  Targets <- MCTargets
  Keys = {1}
  MaxMessage = 7
  MaxStream = 4
  win1 = win1
  win2 = win2
  Windows = {win1, win2}
  First <- MCFirst
  Last <- MCLast
  Backings = {1, 2}
  Rights <- MCRights
  AsAddrs = {3}
  Accesses <- MCAccesses
INVARIANTS OpcodeComputes DigestIsOfMessage CipherIsOfStream AccessIsCurrent
