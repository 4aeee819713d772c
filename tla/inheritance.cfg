CONSTANTS
  NPROC = 4
  MAXINT = 9
  NLOCK = 2
  InitPrio <- Rising
  Prios = {1}
  WaitPrios = {1}
  Types = {"READ", "WRITE"}
  ArgLists <- TwoLock
  Calls <- Core
  Disciplined = TRUE
  MaxReaders = 3
SPECIFICATION Spec
INVARIANT
  DirectInheritance
PROPERTY
  SwitchPicksHighest
