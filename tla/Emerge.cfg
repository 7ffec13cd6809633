SPECIFICATION FairSpec
CONSTANTS
  b1 = b1
  b2 = b2
  far = far
  p1 = p1
  server = server
  None = None
  Free = Free
  Server = Server
  Threads = {1, 2}
  Blocks <- MCBlocks
  ChunkOf <- MCChunkOf
  Around <- MCAround
  OverLimit = {far}
  Outside = {}
  OnDisk <- MCOnDisk
  Peers = {p1, server}
  Nobody = server
  MaxAreas = 2
  MaxAsks <- MCMaxAsks
  QTotal = 2
  QGenerate = 1
  QDiskonly = 1
  Worlds <- MCWorlds
CHECK_DEADLOCK FALSE
INVARIANTS TypeOK PeerCountExact QueuedOnce OneMaker BlocksKept AnsweredOnce
PROPERTIES Answered StopEnds GeneratedStays
