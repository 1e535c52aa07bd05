CONSTANTS
  Parts = {"commit"}
  RowLen = 2
  XmemSize = 4
  RingSlots = 1
  CommitWords <- RaisingWords
  CommitImems <- RaisingImems
  EditsAt = {}
  NoPc = NoPc
  NoHalt = NoHalt
  NoPending = NoPending
  MaxRecords = 2
  AliasBlocks = 4
  AliasStoreBlocks = 2
  AliasRowSizes = {1, 2}
  AliasRows <- SomeAliasRows
  AliasWords <- SomeAliasWords
  AliasHost = {"xmem", "row", "raw", "acc", "reset"}
  AliasMaxCycles = 3
  AliasMaxHost = 1
  MemSize = 4
  MemPageBytes = 2
  MemMaxByte = 1
  RegSchema <- SomeSchema
  MaxOps = 3
  MaxHeld = 1
SPECIFICATION PartSpec
INVARIANTS BreakWaitsForItsWord
