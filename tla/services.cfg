CONSTANTS
  NPROC = 4
  MAXINT = 2
  NSEM = 1
  NewPrios = {2}
  Kin = {2}
  Delays = {0, 1, 2}
  Counts = {0, 1, 2}
  MaxCount = 3
  Workloads <- MCWorkloads
  NBPOOLS = 1
  NumBufs = {2}
  COMBUFSZ = 3
  OutChars = {"a", "NL"}
  IBLEN = 3
  Letters = {" "}
  ReadLens = {2}
  Readers = {1, 2}
  Contexts = {0, 1, 2}
  EndOfImage = 2
  Blocks <- MCBlocks
  MemSizes = {1, 2, 4}
  StackSizes = {2, 3}
  QMax = 2
  QKeys = {1, 2}
  Consumers = {"c1", "c2"}
  MaxItems = 4
  NBlocks = 3
  MON_MAX_TRY = 3
  MaxRetx = 1
  TxSize = 22
  TxHeader = 4
  FrameLens = {2, 3}
  OutqMax = 2
  NetHosts = 3
  MON_ARP_TSIZE = 2
  NetBufs = 3
SPECIFICATION Spec
INVARIANTS
  ServTypeOK
  CountIsWaiters
  InItsPlace
  WokenHasMessage
  CountsHead
  DelaysKept
  UnlinkFindsBuffer
  BufferInOnePlace
  HeapPartitioned
  FreeListCanonical
  QueueContents
  CountInBounds
  SlotsAccountedFor
  OutputKeepsGoing
  OutputInOrder
  WritersNotStranded
  InputSemaphoreBounded
  ImageComplete
  AcksAreEarned
  RetryTimerRuns
  BlocksApart
  FramesNotStranded
  PacketsAccountedFor
  PacketsFindTheirHost
PROPERTIES
  ImplementsSemaphores
  PoolsStay
  
  ImplementsLineInput
  WordErased
CHECK_DEADLOCK FALSE
