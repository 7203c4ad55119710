\* One thread starts, stops and destroys two of the three timers, and can run into the
\* master callback: the behaviours end at the first use of freed memory.
SPECIFICATION Spec
CONSTANTS
  NULL = NULL
  Master = Master
  VTimers = {o1, o2, p1}
  Periodic = {p1}
  Stoppable = {o1, p1}
  Threads = {main}
  Addr = {a1, a2}
  Periods = {1, 2}
  MaxTime = 2
SYMMETRY AddrSymmetry
INVARIANTS
  FiredInOrder
  OneShotFiresOnce
PROPERTY PeriodicStaysScheduled
\* A use of freed memory ends the behaviour.
CHECK_DEADLOCK FALSE
