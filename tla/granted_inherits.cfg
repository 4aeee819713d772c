CONSTANTS
  NPROC = 4
  MAXINT = 9
  NLOCK = 1
  InitPrio <- Rising
  Prios = {1}
  WaitPrios = {1, 2}
  Types = {"WRITE"}
  ArgLists <- One
  Calls <- Core
  Disciplined = TRUE
  MaxReaders = 3
SPECIFICATION Spec
INVARIANT
  HolderInherits
