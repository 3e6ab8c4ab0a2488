SPECIFICATION Spec
CONSTANTS
  r1 = r1
  w1 = w1
  Capacity = 2
  Producers = {w1}
  Writers = {w1}
  ZCWriters = {}
  Clients = {r1}
  Readers = {r1}
  ZCReaders = {}
  LateClients = {}
  NoRecord = none
  Blocking = {w1}
  WriterBatch = 2
  ReaderBatch = 2
  MaxRecords = 3
  Controls <- OnlyStop
  WriterCalls = {}
CHECK_DEADLOCK FALSE
PROPERTIES
  StoppedReaderIsSilent
