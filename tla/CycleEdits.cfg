CONSTANTS
  NLr = 2
  Cr <- MCCr
  Modulus = 4
  Lanes = 3
  SlotLanes = 2
  Rows = 2
  AllocRows = 3
  StoreRows = 2
  ImemSize = 2
  SubSlots = 2
  Words <- EditedWords
  Empty = Empty
  NoHalt = NoHalt
  NoEntry = NoEntry
  Engines = {e1, e2}
  InitRegs <- SomeRegs
  InitXmem <- OneXmem
  InitImem <- EditedImem
  HostMay = {"pc", "f1", "reset"}
  HostWords <- HostWrites
  HostValues = {}
  MaxWords = 1
SPECIFICATION CycleSpec
INVARIANTS FreshSchedules
