\* One channel of two bits under each protocol; under "doorbell" it is the
\* strict pair as the platform configures it, with acknowledgement and name
\* service.  The fairness is that of the SystemC kernel.
SPECIFICATION FairSpec
CONSTANTS
  b1 = b1
  b2 = b2
  Channels = 1
  Bits = {b1, b2}
  Values <- MCWords
  Protocols = {"doorbell-bridge", "doorbell", "rse-ps-proxy"}
  DirectBoot = FALSE
  MbxPresent = TRUE
  StrictAck = TRUE
  TriggerChannel = 0
  TriggerValue <- MCTrigger
  AckChannel = 0
  AckValue <- MCAck
  NotifyValue <- MCNotify
  Replies <- MCReplies
  NsEnable = TRUE
  NsChannel = 0
  NsValue <- MCNs
  NsSignalDelayed = TRUE
  MaxPolls = 2
  MaxPosted = 2
INVARIANTS IrqLinesExact BridgeAgrees TransferIsOwned KickIsKept NsPublishedFirst NsOnce
PROPERTIES TxDoneIsReal TransferEnds KickIsAnswered
