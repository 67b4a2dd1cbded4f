SPECIFICATION Spec
CONSTANTS
  Parts <- AllParts
  Workers = {"w"}
  MaxDepth = 2
  MaxFrames = 3
  MaxTraces = 2
  Spawned = {"v", "w"}
  StateAddresses = {1, 2, 3}
  MaxCodes = 2
  MaxMethods = 4
  Keys = {"x1", "x2", "y1", "y2", "y3", "y4", "z"}
  KeyHashes <- Hashed
  Values = {1}
  KeyHashBits = 6
  Multiplier = 5
  MinLookups = 4
  Requests = {0, 16}
  ChunkSize = 2
  Readers = {"r", "s"}
  MaxElements = 5
  Codes <- Functions
  PyNframes = 2
  MaxPyFrames = 2
  GroupBits = 2
  BUFFER_SIZE = 100
  MaxNframes = 6
  ROWS = 2
  CELLS = 1
  HashBits = 8
  StringHash <- FirstByte
  Stacks <- AllStacks
  OneStack <- SmallStack
  CpuKinds <- Cpu
  AllKinds <- AllOps
  Sizes = {4, 524287}
  Lengths = {1, 3}
  Addresses = {1, 2}
  Slots = {1, 2}
  MaxStacks = 2
  MaxBlocks = 3
  MaxEvents = 4
  MaxFiles = 2
  MaxInt = 100000
  MaxNibbles = 4
  LifetimeNames = 2
  Hash <- RustHash
  MaxNesting = 10
  MaxWide = 4
  FirstRoom = 8
  RoomLimit = 128
  Margin = 1
  Paths <- RustPaths
  Crates <- RustCrates
  LegacyPaths <- RustLegacyPaths
  Endings <- RustEndings
  DamagedPaths <- RustDamagedPaths
  Letters = {"B", "E"}
INVARIANTS
  TraceIsTheCalls
  ContainersAreSound
  
  FilesReadBack
  
  NamesAreTheirPaths
CHECK_DEADLOCK FALSE
