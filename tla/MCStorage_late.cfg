SPECIFICATION AllSpec
CONSTANTS
  QSize = 8
  IdxMod = 16
  Threads = {t1, t2}
  Capacity = 2
  LbaMod = 4
  MaxPerReq = 1
  Sectors = {0, 1}
  Offers <- MCOffers
  Requested <- TwoOps
  StartIdx = 0
  MaxOps = 2
  MaxErrors = 0
  NoOp = NoOp
  NoThread = NoThread
  MemoryMap <- MemoryMapDef
  LOW_MEM_LIMIT = 12288
  MAX_REGIONS = 2
  MAX_LARGE = 2
  Layouts <- LayoutsDef
  MaxObjects = 3
  ENTRIES = 8
  RamMap <- RamMapDef
  ImageFrame = 52
  STACK_PAGES = 1
  NUM_SLOTS = 3
  MMIO_PAGES = 2
  Procs = {p1, p2}
  MaxAnon = 2
  Reserve = 14
  MaxChanges = 6
  Subjects = {"blk"}
INVARIANTS
  OneRequestInQueue
CHECK_DEADLOCK FALSE
