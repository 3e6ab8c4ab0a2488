SPECIFICATION Spec
CONSTANTS
  r1 = r1
  w1 = w1
  z1 = z1
  Capacity = 2
  Producers = {w1}
  Writers = {w1}
  ZCWriters = {}
  Clients = {r1, z1}
  Readers = {r1}
  ZCReaders = {z1}
  LateClients = {z1}
  NoRecord = none
  Blocking = {w1}
  WriterBatch = 2
  ReaderBatch = 1
  MaxRecords = 3
  Controls <- NoControls
  WriterCalls = {"flush"}
CHECK_DEADLOCK FALSE
INVARIANTS
  EveryPinnedBatchIntact
