CONSTANTS
  NLr = 2
  Cr <- MCCr
  Modulus = 4
  Lanes = 3
  SlotLanes = 2
  Rows = 2
  AllocRows = 3
  StoreRows = 2
  ImemSize = 1
  SubSlots = 2
  Words <- SlotWords
  Empty = Empty
  NoHalt = NoHalt
  NoEntry = NoEntry
  Engines = {e1}
  InitRegs <- OneRegs
  InitXmem <- OneXmem
  InitImem <- SlotImem
  HostMay = {}
  HostWords = {}
  HostValues = {1}
  MaxWords = 1
SPECIFICATION CycleSpec
INVARIANTS TypeOK
PROPERTIES PreciseFault WordsAreAtomic
