SPECIFICATION ComponentsSpec
CONSTANTS
  Items = {x, y}
  NoItem = NoItem
  MaxBulk = 5
  MaxCapacity = 4
  TriviallyCopyable = TRUE
  Payloads = {p, q}
  ItemCapacity = 3
  ChunkSize = 2
  NoByte = NoByte
  MaxPush = 4
  MaxWritten = 7
  MaxRecords = 2
  ReaderBatch = 2
  MaxStarts = 2
  MaxStamp = 2
  MaxPerFile = 1
  MaxFaults = 1
  WriterBatch = 2
  MaxRuns = 2
  Askers = {"user", "peer"}
  ViewBatch = 2
  Archives <- ArchiveLengths
  Builders = {"t1", "t2"}
  Declarations <- Schemas
  MaxSets = 2
  SectionCap = 3
  ViewWidth = 1
  MaxPps = 2
  Shapes <- ChartShapes
  MaxConnects = 2
  MaxSamples = 2
  MaxPosted = 1
  Signal <- TwoLevels
  MaxGestures = 3
CHECK_DEADLOCK FALSE
INVARIANTS
  PeekIsExact
  
  BatchIsContiguous
  RecordingIsExact
  CsvFilesAreUniform
  
  
  OneBuffer
  
  RegistryIsOneToOne
  LayoutIsSound
  
  ChartShowsTheStream
  ChartIsCurrent
  
PROPERTIES
  ImplementsDeque
  ImplementsWindow
  
  
