SPECIFICATION Spec
CONSTANTS
  NoneValue = NoneValue
  v1 = v1
  v2 = v2
  AnyType = AnyType
  Unset = Unset
  MaxDepth = 3
  Values <- MCValues
  Functions <- MCFunctions
INVARIANT
  YieldReturnsSendType
\* A generator that has returned or raised is exhausted.
CHECK_DEADLOCK FALSE
