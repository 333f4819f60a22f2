\* A queue of two entries, set up, drained, reset and full at any time.
SPECIFICATION FairSpec
CONSTANTS
  Sizes = {2}
  Starts = {0, 3}
  Events = {e1, e2}
  NoEvent = NoEvent
  MemoryMayFail = TRUE
INVARIANTS IrqNotMissed
PROPERTIES UnreadIsKept ImplementsEventFifo EventIsRead
