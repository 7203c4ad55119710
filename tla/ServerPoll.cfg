\* The poll handler goes on: a field that is polled in every second round and one
\* that sometimes cannot be read and ends a round; they share two handles.
SPECIFICATION FairSpec
CONSTANTS
  NULL = NULL
  Fields = {p, u}
  Polled = {p}
  Slow = {p}
  Failing = {u}
  Clients = {c1}
  Values = {0, 1}
  NumHandles = 2
  MaxUses = 2
  MaxForeign = 1
  CountRange = 8
PROPERTY HardwareChangesNoticed
