CONSTANTS
  e1 = e1
  e2 = e2
  main = main
  NoExec = NoExec
  Execs = {e1, e2, main}
  Programs = {main}
  NumTasks = 3
  MaxTasks = 2
  MaxPendingEvents = 2
  TaskQuantum = 1
  Scenarios <- MCScenarios
SPECIFICATION FairSpec
INVARIANTS TypeOK ScopeAccounting TaskInOnePlace RootStateAgrees EventAccounting DoneMeansQuiet
PROPERTIES ScopesEndAlone ResultStable WaitReturnsOrShutdown CancelSettles ShutdownCompletes
CHECK_DEADLOCK FALSE
