SPECIFICATION Spec
CONSTANTS
  Kernels <- FewKernels
  Machines <- FewMachines
  Options <- FewOptions
  Formulas <- LibraryKernels
  BySpan = TRUE
  L1_OFF_SPAN = 8
  VREGS = 16
  SREGS = 16
  P = 32749
INVARIANTS ComputesMeaning KernelsMean FillsClearOfSweep
PROPERTIES OthersKept
CHECK_DEADLOCK FALSE
