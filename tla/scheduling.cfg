CONSTANTS
  NPROC = 3
  MAXINT = 9
  NLOCK = 1
  InitPrio <- MainHigh
  Prios = {0, 1, 3}
  WaitPrios = {1}
  Types = {"READ", "WRITE"}
  ArgLists <- One
  Calls <- Adjusting
  Disciplined = TRUE
  MaxReaders = 3
SPECIFICATION Spec
INVARIANTS
  QueuesMatchStates
  LprioCoversWaiters
