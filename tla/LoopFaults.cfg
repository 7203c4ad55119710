\* Callbacks that are deleted, whose interval is changed and whose timer fails to
\* start, and a pipe that overflows.
SPECIFICATION FairSpec
CONSTANTS
  NULL = NULL
  Poll = Poll
  Functions = {f1, f2}
  Deletable = {f1}
  Adjustable = {f2}
  PipeSize = 3
  TimersFail = TRUE
INVARIANTS
  PollGoesRound
  StaleOnlyAfterOverrun
PROPERTIES
  PollingGoesOn
  FunctionsGoOn
\* The use of a freed message ends the behaviour.
CHECK_DEADLOCK FALSE
