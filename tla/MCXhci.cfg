\* A ring of four entries; two transfers and two reports over an event queue of three places.
SPECIFICATION MCSpec
CONSTANTS
  EventRingSize = 4
  Trbs = {a, b}
  FullTrb = full
  NoTrb = none
  Events = {}
  FullEvent = full
  Places = 3
  Pipes = {p}
  Intr = intr
  Stages <- MCStages
  TransferRingSize = 5
  ReqCounts = {3, 4}
  CommandRingSize = 2
  SlowCommands <- MCSlowCommands
  None = none
  MaxTransfers = 2
  MaxReports = 2
INVARIANTS UsbTypeOK OwnAnswer ReportsInOrder BuffersAccounted
PROPERTIES ImplementsEventQueue CallReturns
