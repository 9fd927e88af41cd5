SPECIFICATION Spec
CONSTANTS
  NoneValue = NoneValue
  v1 = v1
  AnyType = AnyType
  Unset = Unset
  Pending = Pending
  MaxArms = 4
  Values <- MCValues
  Annotations <- MCAnnotations
INVARIANTS
  TypeOK
  ScanInv
PROPERTY
  ImplementsContract
\* A call ends: the function returns its result.
CHECK_DEADLOCK FALSE
