CONSTANTS
  MaxSetbacks = 4
SPECIFICATION FairScheduleSpec
CHECK_DEADLOCK FALSE
INVARIANTS SleepIsSafe
PROPERTIES ActsWhenDue SleeperWakes
