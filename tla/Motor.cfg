\* Clients that do not wait, aborts, limits that are in the way, and a driver, a
\* malloc() and timers that fail.
SPECIFICATION FairSpec
CONSTANTS
  NULL = NULL
  Lo = 0
  Hi = 4
  Backlash = 2
  Destinations = {1, 2, 3}
  Addr = {a1, a2}
  Patient = FALSE
  Failures = TRUE
INVARIANTS
  TypeOK
  DestinationReached
  ApproachedFromOneSide
  NoGateInMainMove
  EachMessageInOnePlace
PROPERTIES
  AbortIsFinal
  BusyEnds
