SPECIFICATION Spec
CONSTANTS
  r1 = r1
  w1 = w1
  z1 = z1
  Capacity = 2
  Producers = {w1}
  Writers = {w1}
  ZCWriters = {}
  Clients = {r1, z1}
  Readers = {r1}
  ZCReaders = {z1}
  LateClients = {}
  NoRecord = none
  Blocking = {}
  WriterBatch = 2
  ReaderBatch = 2
  MaxRecords = 4
  Controls <- NoControls
  WriterCalls = {}
CHECK_DEADLOCK FALSE
INVARIANTS
  CopiesAreFaithful
PROPERTIES
  ImplementsStream
