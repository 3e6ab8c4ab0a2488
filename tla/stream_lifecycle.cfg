SPECIFICATION Spec
CONSTANTS
  r1 = r1
  w1 = w1
  z1 = z1
  Capacity = 1
  Producers = {w1}
  Writers = {}
  ZCWriters = {w1}
  Clients = {r1, z1}
  Readers = {r1}
  ZCReaders = {z1}
  LateClients = {z1}
  NoRecord = none
  Blocking = {w1}
  WriterBatch = 1
  ReaderBatch = 1
  MaxRecords = 2
  Controls <- MixedControls
  WriterCalls = {}
CHECK_DEADLOCK FALSE
INVARIANTS
  NoDanglingClient
  FinishDrains
