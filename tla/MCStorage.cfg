SPECIFICATION AllSpec
CONSTANTS
  QSize = 4
  IdxMod = 8
  Threads = {t1, t2}
  Capacity = 2
  LbaMod = 4
  MaxPerReq = 1
  Sectors = {0, 1}
  Offers <- MCOffers
  Requested <- MCOps
  StartIdx = 6
  MaxOps = 3
  MaxErrors = 1
  NoOp = NoOp
  NoThread = NoThread
  MemoryMap <- MemoryMapDef
  LOW_MEM_LIMIT = 12288
  MAX_REGIONS = 2
  MAX_LARGE = 2
  Layouts <- LayoutsDef
  MaxObjects = 3
  ENTRIES = 8
  RamMap <- RamMapDef
  ImageFrame = 52
  STACK_PAGES = 1
  NUM_SLOTS = 3
  MMIO_PAGES = 2
  Procs = {p1, p2}
  MaxAnon = 2
  Reserve = 14
  MaxChanges = 5
  Subjects = {"blk", "heap", "pages"}
SYMMETRY Sym
INVARIANTS
  DescriptorsConserved
  NoLostNotification
  LeftBehind
  HeapSound
  PagesSound
PROPERTIES
  ImplementsBlockDevice
CHECK_DEADLOCK FALSE
