CONSTANTS
  w1 = w1
  w2 = w2
  SchedulerThread = {w1, w2}
  srv = srv
  ServerThread = {srv}
  LoadBlockThread = {}
  Main = Main
  tm = tm
  Timer = {tm}
  Interval = 1
  CallbackLimit = 0
  MaxPending = 2
  MaxTasks = 2
  None = None
SPECIFICATION FairSpec
INVARIANTS
  NoCallbackForgotten
PROPERTIES
  ImplementsSerialQueue
  SyncReturns
  TimersKeepRunning
  ShutdownCompletes
CHECK_DEADLOCK FALSE
