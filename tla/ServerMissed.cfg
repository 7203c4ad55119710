\* A field that is not polled and two clients whose subscriptions do not share a
\* callback.
SPECIFICATION Spec
CONSTANTS
  NULL = NULL
  Fields = {u}
  Polled = {}
  Slow = {}
  Failing = {}
  Clients = {c1, c2}
  Values = {0, 1}
  NumHandles = 2
  MaxUses = 2
  MaxForeign = 1
  CountRange = 8
INVARIANT AllInterestedClientsAreTold
