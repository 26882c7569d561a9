SPECIFICATION Spec
CONSTANTS
  c1 = c1
  c2 = c2
  Calls = {c1, c2}
  Buffers = {b1, b2}
  Workloads <- MCWorkloads
  MaxAsks = 7
PROPERTIES
  UniqueSuffices
CHECK_DEADLOCK FALSE
