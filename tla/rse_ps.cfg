\* Five payload channels, one measurement slot, eighteen requests.
SPECIFICATION ProxySpec
CONSTANTS
  Capacity = 5
  Slots = 1
  MaxField = 1
  Calls <- MCCalls
PROPERTY ImplementsPsService
