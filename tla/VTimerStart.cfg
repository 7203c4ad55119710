\* A one-shot and a periodic timer that the program starts, restarts and queries
\* but never stops.
SPECIFICATION FairSpec
CONSTANTS
  NULL = NULL
  Master = Master
  VTimers = {o1, p1}
  Periodic = {p1}
  Stoppable = {}
  Threads = {main}
  Addr = {a1, a2, a3}
  Periods = {1, 2}
  MaxTime = 3
INVARIANT NoUseAfterFree
PROPERTIES
  ImplementsTimerService
  DueEventsAreHandled
