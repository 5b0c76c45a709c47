SPECIFICATION SandboxesSpec
CONSTANTS
  Cap = 1
  QueueLimit = 2
  WarmSize = 1
  MaxWindows = 3
  MaxTasks = 2
  MaxContainers = 2
  MaxConnected = 1
INVARIANTS
  OpenWithinCap
  NoSlotIdleWhileSomeoneWaits
PROPERTIES
  ShutdownEnds
CHECK_DEADLOCK FALSE
