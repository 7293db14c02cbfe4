CONSTANTS
  NULL = NULL
  MaxTasks = 4
  MaxPriority = 1
  MaxGeneration = 1
  Workload = {"Create", "Exit", "Send", "Receive", "Reply", "AwaitEvent", "Kill"}
  KillStates = {"RUNNABLE"}
  NeverBlocks = {1}
  AwaitedEvents = {2, 5}
  TimerIsTimely = TRUE
SPECIFICATION FairSpec
INVARIANTS EventsExact SendQueuesExact NoPanic ReadyQueuesExact
PROPERTIES RoundRobin MessagesImplemented DispatchingImplemented
