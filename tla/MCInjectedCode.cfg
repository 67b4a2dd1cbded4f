SPECIFICATION Spec
CONSTANTS
  Parts <- AllParts
  Allocators = {1, 2}
  ChunkSize = 6
  Sizes = {2, 4}
  MaxChunks = 3
  MaxAllocs = 2
  Putters = {1, 2}
  Hashes = {1, 3, 5}
  InitialCapacity = 2
  MaxTables = 2
  MaxPuts = 2
  MaxCopyFaults = 1
  Threads = {"t1", "t2"}
  Home <- OneHome
  Level = 4
  BufferEvents = 1
  Quotas <- SampleQuotas
  MaxFiles = 2
  Allocating = {"t1", "t2"}
  Libs = {"main", "late", "self", "sealed"}
  Late = {"late"}
  Exempt = {"self"}
  Sealed = {"sealed"}
  Blocks = {1}
  MaxCalls = 2
  MaxStarts = 1
  Workers = {"w"}
  MaxDepth = 2
  MaxFrames = 4
  MaxLoc = 8
  MaxFrame = 3
  Objects = {"a", "b"}
  MapSlots = {1, 2}
  SymbolInputs <- SymbolTables
  Studied = "a"
  MaxMoves = 3
  Sampled = {"t"}
  Asked = {1, 2, 5}
  SMALL = 4
  Intervals = {1}
  Points <- SampledPoints
  MaxAsked = 3
  MaxSessions = 2
  Callers = {"c"}
  Pages = {"p", "q"}
  MaxEnables = 2
  Width = 6
  MaxWords = 3
INVARIANTS
  AllocatorIsSound
  TraceTableIsSound
  
  
  SamplesAddUp
  TracerIsSound
  UnwindReturnsToCaller
  
  SiteLeadsToCode
  WindowIsLaunchedAsAsked
CHECK_DEADLOCK FALSE
