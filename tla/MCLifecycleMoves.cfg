SPECIFICATION LifecycleSpec
CONSTANTS
  Partition <- Partitions
  HotDays <- Windows
  MaxAge = 4
INVARIANT FaultFreeCycleMoves
CHECK_DEADLOCK FALSE
