CONSTANTS
  Parts = {"chain"}
  Capacity = 3
  Layouts = {elements}
  Kernels <- ScratchKernels
  Spill = 1
  MaxResidents = 3
SPECIFICATION PartSpec
INVARIANTS HeldIsNeverCovered
