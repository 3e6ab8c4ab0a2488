SPECIFICATION FairSpec
CONSTANTS
  r1 = r1
  w1 = w1
  Capacity = 1
  Producers = {w1}
  Writers = {}
  ZCWriters = {w1}
  Clients = {r1}
  Readers = {r1}
  ZCReaders = {}
  LateClients = {r1}
  NoRecord = none
  Blocking = {w1}
  WriterBatch = 2
  ReaderBatch = 1
  MaxRecords = 2
  Controls <- AllControls
  WriterCalls = {"stop"}
CHECK_DEADLOCK FALSE
INVARIANTS
  WakeupsOwed
PROPERTIES
  EndReturns
  StopUnblocks
