CONSTANTS
  NLr = 2
  Cr <- MCCr
  Modulus = 2
  Lanes = 1
  SlotLanes = 1
  Rows = 2
  AllocRows = 2
  StoreRows = 1
  ImemSize = 2
  SubSlots = 1
  Words <- ApiWords
  Empty = Empty
  NoHalt = NoHalt
  NoPc = NoPc
  NoCall = NoCall
  InitRegs <- OneRegs
  InitXmem <- OneXmem
  InitImem <- ApiImem
  HostMay = {"pc"}
  HostWords = {}
  HostValues = {1}
  StopPcs = {}
  CtrlC = {"plain", "debug"}
  Limits = {0, 2}
  MaxWords = 3
SPECIFICATION RefSpec
PROPERTIES StatsMissOnly FaultFreezes QuitPauses
