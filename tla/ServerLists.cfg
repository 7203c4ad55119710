\* Two clients that come and go, share callbacks or not, subscribe more than once, delete
\* callbacks of each other, and read and write a polled field that sometimes cannot be
\* processed, between the steps of polls.
SPECIFICATION Spec
CONSTANTS
  NULL = NULL
  Fields = {p}
  Polled = {p}
  Slow = {}
  Failing = {p}
  Clients = {c1, c2}
  Values = {v0, v1}
  NumHandles = 2
  MaxUses = 3
  MaxForeign = 2
  CountRange = 8
SYMMETRY Symmetry
INVARIANTS
  HandlesConsistent
  UsersCounted
  NoFreedSocketHandler
  PolledFieldsAreTold
PROPERTY SubscriptionsAreKept
