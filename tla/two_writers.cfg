SPECIFICATION Spec
CONSTANTS
  r1 = r1
  w1 = w1
  w2 = w2
  Capacity = 2
  Producers = {w1, w2}
  Writers = {w1, w2}
  ZCWriters = {}
  Clients = {r1}
  Readers = {r1}
  ZCReaders = {}
  LateClients = {}
  NoRecord = none
  Blocking = {w1, w2}
  WriterBatch = 1
  ReaderBatch = 1
  MaxRecords = 4
  Controls <- NoControls
  WriterCalls = {}
CHECK_DEADLOCK FALSE
INVARIANTS
  UnreadIsKept
