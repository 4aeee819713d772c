CONSTANTS
  NPROC = 3
  MAXINT = 9
  NLOCK = 1
  InitPrio <- Two
  Prios = {1}
  WaitPrios = {1}
  Types = {"READ", "WRITE"}
  ArgLists <- One
  Calls <- Core
  Disciplined = FALSE
  MaxReaders = 2
SPECIFICATION Spec
PROPERTY
  ReleasesOnlyHeld
