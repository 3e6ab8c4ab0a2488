SPECIFICATION Spec
CONSTANTS
  w1 = w1
  z1 = z1
  Capacity = 1
  Producers = {w1}
  Writers = {w1}
  ZCWriters = {}
  Clients = {z1}
  Readers = {}
  ZCReaders = {z1}
  LateClients = {}
  NoRecord = none
  Blocking = {}
  WriterBatch = 2
  ReaderBatch = 1
  MaxRecords = 4
  Controls <- NoControls
  WriterCalls = {}
CHECK_DEADLOCK FALSE
PROPERTIES
  EmptyBatchMeansEnd
