CONSTANTS
  NPROC = 4
  MAXINT = 9
  NLOCK = 1
  InitPrio <- Rising
  Prios = {1}
  WaitPrios = {1}
  Types = {"WRITE"}
  ArgLists <- One
  Calls <- Parking
  Disciplined = TRUE
  MaxReaders = 3
SPECIFICATION Spec
PROPERTY
  RunsHighestPriority
