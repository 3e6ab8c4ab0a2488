SPECIFICATION FairSpec
CONSTANTS
  r1 = r1
  w1 = w1
  z1 = z1
  Capacity = 1
  Producers = {w1}
  Writers = {w1}
  ZCWriters = {}
  Clients = {r1, z1}
  Readers = {r1}
  ZCReaders = {z1}
  LateClients = {}
  NoRecord = none
  Blocking = {w1}
  WriterBatch = 2
  ReaderBatch = 1
  MaxRecords = 2
  Controls <- NoControls
  WriterCalls = {"flush", "close"}
CHECK_DEADLOCK FALSE
PROPERTIES
  EveryRecordArrives
  FlushReturns
