SPECIFICATION Spec
CONSTANTS
  NoneValue = NoneValue
  v1 = v1
  v2 = v2
  AnyType = AnyType
  Unset = Unset
  Unknown = Unknown
  mod = mod
  agen = agen
  later = later
  lam = lam
  Local = Local
  inner = inner
  helper = helper
  Class = Class
  method = method
  Values <- MCValues
  Scopes <- MCScopes
  Module = mod
  Kind <- MCKind
  Enclosing <- MCEnclosing
  Within <- MCWithin
  Fn <- MCFn
  Decorator <- MCDecorator
  Bodies <- MCBodies
  LastPass = 1
INVARIANTS
  TypeOK
  EnclosingFound
  NoSpuriousErrors
PROPERTY
  ImplementsContract
\* The check of a module ends.
CHECK_DEADLOCK FALSE
