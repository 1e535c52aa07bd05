CONSTANTS
  NLr = 2
  Cr <- MCCr
  Modulus = 2
  Lanes = 1
  SlotLanes = 1
  Rows = 2
  AllocRows = 2
  StoreRows = 1
  ImemSize = 2
  SubSlots = 1
  Words <- SafetyWords
  Empty = Empty
  NoHalt = NoHalt
  NoPc = NoPc
  InitRegs <- OneRegs
  InitXmem <- OneXmem
  InitImem <- LoopImem
  HostMay = {"load"}
  HostWords <- SafetyHost
  HostValues = {}
  StopPcs = {1}
  CtrlC = {}
  Limits = {0, 1, 2}
  MaxWords = 2
SPECIFICATION FairRun
PROPERTIES RunsEnd
