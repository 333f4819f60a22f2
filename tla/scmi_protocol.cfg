\* Discovery and responses, polled and by interrupt, over two channels, under
\* the fairness of the SystemC kernel and of the mailbox's handler.
SPECIFICATION SleeperSpec
CONSTANTS
  Channels = {c1, c2}
  Requests <- MCProtocolRequests
  TableDomains = {0}
  Lines = {}
  Transport = "mailbox"
  AssertOnOff = TRUE
  PulseOnOn = TRUE
  ResetDelay = 1
  SysDelay = 1
  BootReset = TRUE
INVARIANTS FreeMeansComplete CompletionIsSignalled AdvertisedIsServed
PROPERTIES SleeperIsWoken
