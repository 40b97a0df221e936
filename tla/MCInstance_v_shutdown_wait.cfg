CONSTANTS
  e1 = e1
  e2 = e2
  main = main
  NoExec = NoExec
  Execs = {e1}
  Programs = {}
  NumTasks = 1
  MaxTasks = 10
  MaxPendingEvents = 2
  TaskQuantum = 1
  Scenarios <- MCShutdown
SPECIFICATION FairSpec
PROPERTY WaitReturns
CHECK_DEADLOCK FALSE
