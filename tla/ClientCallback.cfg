\* Requests to add a callback some of which are given up.
SPECIFICATION Spec
CONSTANTS
  NULL = NULL
  Fields = {f, g}
  CallbackIds = {c, d}
  IsCallback = 5
  MaxMismatch = 2
  MaxCallbacks = 2
  MaxUses = 1
  MaxUnread = 2
  MaxBehind = 3
PROPERTY CorrectCallbackInvoked
