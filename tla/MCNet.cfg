SPECIFICATION Spec
CONSTANTS
  Addresses = {a1}
  NoAddress = none
  Fallback = fb
  Leases = {2, 3}
  DefaultLease = 3
  Backoff <- BackoffDef
  MsMax = 21
  MaxDelay = 1
  Senders = {"s"}
  Frames = {"x", "y"}
  NumRx = 2
  TxSlots = 2
  MaxTx = 3
  MaxTxLate = 1
  MaxShort = 1
  MaxHops = 2
  IdMod = 2
  Apps = {"p", "q"}
  Static = "ip1"
  Leased = {"ip2"}
  FirstPort = 1
  LastPort = 1
  SockCap = 1
  Zone <- ZoneDef
  Unknown = "nobody"
  Seqs = {"seq"}
  MaxOps = 2
  MaxSends = 1
  MaxMoves = 1
INVARIANTS
  OverstayBounded
  RxBuffersConserved
  AnswerIsTrue
PROPERTIES
  TransmitHonest
  AskingEnds
CHECK_DEADLOCK FALSE
