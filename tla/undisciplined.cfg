CONSTANTS
  NPROC = 4
  MAXINT = 9
  NLOCK = 1
  InitPrio <- Rising
  Prios = {1}
  WaitPrios = {1}
  Types = {"READ", "WRITE"}
  ArgLists <- Lists
  Calls <- Deleting
  Disciplined = FALSE
  MaxReaders = 2
SPECIFICATION Spec
INVARIANTS
  TypeOK
  CountsExclusive
PROPERTY
  WakeupJustified
