CONSTANTS
  NPROC = 4
  MAXINT = 9
  NLOCK = 1
  InitPrio <- Three
  Prios = {1}
  WaitPrios = {1, 2}
  Types = {"READ", "WRITE"}
  ArgLists <- One
  Calls <- Deleting
  Disciplined = TRUE
  MaxReaders = 3
SPECIFICATION Spec
INVARIANTS
  MutualExclusion
  CountsMatchHolders
PROPERTY
  ImplementsService
