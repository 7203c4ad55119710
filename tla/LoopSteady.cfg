\* The poll and three function callbacks, and a pipe with room for just the four
\* of them.
SPECIFICATION Spec
CONSTANTS
  NULL = NULL
  Poll = Poll
  Functions = {f1, f2, f3}
  Deletable = {}
  Adjustable = {}
  PipeSize = 4
  TimersFail = FALSE
INVARIANTS
  NothingLost
  FunctionsGoRound
PROPERTY ImplementsCycle
