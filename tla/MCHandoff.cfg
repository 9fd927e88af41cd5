SPECIFICATION Spec
CONSTANTS
  NoneValue = NoneValue
  AnyType = AnyType
  Unset = Unset
  v1 = v1
  v2 = v2
  Values <- MCValues
  Declared <- MCDeclared
  Tasks = {t1, t2, t3}
  Capacity = 2
CONSTRAINT Typed
SYMMETRY Symmetry
INVARIANTS TypeOK StartResultSound ReceivedSound
