\* Message ids 1 to 4, so that they recur; answers up to three requests late; two
\* callbacks of one field or two; three messages on their way.
SPECIFICATION Spec
CONSTANTS
  NULL = NULL
  Fields = {f, g}
  CallbackIds = {c, d}
  IsCallback = 5
  MaxMismatch = 2
  MaxCallbacks = 2
  MaxUses = 2
  MaxUnread = 3
  MaxBehind = 3
SYMMETRY Symmetry
INVARIANTS
  TypeOK
  CallbackForItsField
  SubscriptionsKept
PROPERTIES
  AnswerIsOwn
  OldAnswersHarmless
