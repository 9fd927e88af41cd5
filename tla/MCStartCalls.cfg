SPECIFICATION Spec
CONSTANTS
  v1 = v1
  v2 = v2
  MaxArgs = 5
  Values <- MCValues
  ArgLists <- MCArgLists
  Targets <- MCTargets
  Stubs <- MCStubs
INVARIANTS
  TypeOK
  AcceptedCallsRun
  RejectedCallsFail
  WeakerWithoutPlugin
  KeywordsChecked
\* A call that was rejected, or that was made, is over.
CHECK_DEADLOCK FALSE
