CONSTANTS
  Parts = {"chain", "placement", "kernel_run", "registry", "packing"}
  Capacity = 3
  Layouts = {elements}
  Kernels <- ManyKernels
  Spill = 1
  MaxResidents = 3
SPECIFICATION PartSpec
INVARIANTS LiveIsIntact HeldIsNeverCovered PlacementIsSound VerdictsAreOfTheRun RoutingKeepsItsWord PackingIsExact
PROPERTIES StaleStaysStale StopEndsTheRun
CHECK_DEADLOCK FALSE
