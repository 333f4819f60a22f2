\* States set and read over one channel while resets are pending, under the
\* fairness of the SystemC kernel.
SPECIFICATION FairSpec
CONSTANTS
  Channels = {c1}
  Requests <- MCPowerRequests
  TableDomains = {0, 1, 2}
  Lines = {1, 2}
  Transport = "mailbox"
  AssertOnOff = TRUE
  PulseOnOn = TRUE
  ResetDelay = 1
  SysDelay = 1
  BootReset = TRUE
INVARIANTS PendingIsArmed LinesFollowTable
PROPERTIES SetIsDriven SystemResetPulses
