CONSTANTS
  w1 = w1
  SchedulerThread = {w1}
  ServerThread = {}
  ld = ld
  LoadBlockThread = {ld}
  Main = Main
  Timer = {}
  Interval = 1
  CallbackLimit = 1
  MaxPending = 3
  MaxTasks = 3
  None = None
SPECIFICATION FairSpec
PROPERTIES ShutdownCompletes
CHECK_DEADLOCK FALSE
