CONSTANTS
  NPROC = 4
  MAXINT = 9
  NLOCK = 1
  InitPrio <- Three
  Prios = {1}
  WaitPrios = {1, 2, 3}
  Types = {"READ", "WRITE"}
  ArgLists <- One
  Calls <- Programs
  Disciplined = TRUE
  MaxReaders = 3
  Tickets = {1, 2, 3}
  WriteRequests = 1
SPECIFICATION WorkSpec
PROPERTIES
  WaitersServed
