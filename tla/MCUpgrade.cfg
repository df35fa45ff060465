SPECIFICATION UpgradeSpec
CONSTANTS
    Libs = {watcher}
    Timer = watcher
    First = 9
    Last = 11
\* The parent may end.
CHECK_DEADLOCK FALSE
INVARIANTS UpgradeOK OnlyForward NewestServed TimerValid
PROPERTIES ReforkIfDies HonouredOnceChildDies OpenedAfterRestart
