\* One kernel, supervisors that die and follow each other, one save and one stage for a
\* probe to fall around.
CONSTANTS
  Kernels = {k1}
  None = None
  MaxSaves = 1
  MaxStages = 1
SPECIFICATION Spec
PROPERTIES
  LiveIsProven
  ClaimLapses
  LiveKernelIsProven
\* a run ends
CHECK_DEADLOCK FALSE
