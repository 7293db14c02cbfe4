CONSTANTS
  NULL = NULL
  MaxTasks = 3
  MaxPriority = 1
  MaxGeneration = 2
  Workload = {"Create", "Exit", "Pass", "Send", "Receive", "Reply", "AwaitEvent", "Kill"}
  KillStates = {"RUNNABLE", "ACTIVE", "ZOMBIE", "EVENT_BLOCKED", "SEND_BLOCKED", "RECEIVE_BLOCKED", "REPLY_BLOCKED"}
  NeverBlocks = {}
  AwaitedEvents = {2, 4, 5}
  TimerIsTimely = FALSE
SPECIFICATION Spec
INVARIANTS TypeOK BitmapExact SlotsExact
PROPERTIES TidsNotReused
CHECK_DEADLOCK FALSE
