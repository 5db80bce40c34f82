SPECIFICATION Spec
CONSTANTS
  a = a
  b = b
  CallIds = {a, b}
  NoId = noid
  NoIndex = noindex
  Fragments <- SomeFragments
  Usages <- SomeUsages
  MaxParts = 5
INVARIANT ClientRebuildsOutput
INVARIANT NothingLostOrMixed
INVARIANT StreamAgreesWithJson
INVARIANT ResultsFollowCalls
CHECK_DEADLOCK FALSE
