CONSTANTS
  NPROC = 4
  MAXINT = 1
  NSEM = 1
  NewPrios = {1}
  Kin = {}
  Delays = {1}
  Counts = {1}
  MaxCount = 1
  Workloads <- ThreeEquals
SPECIFICATION RschSpec
INVARIANT
  StatesAsDocumented
