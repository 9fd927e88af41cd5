SPECIFICATION Spec
CONSTANTS
  NoFunction = NoFunction
  NoCallable = NoCallable
  MaxArgs = 5
  Versions <- MCVersions
  Uses <- MCUses
INVARIANTS
  TypeOK
  OverloadsComplete
  ExpandsSignature
  NoCapture
  NoCrash
  FailsIffInvalid
\* The callback returns to mypy: nothing happens after that.
CHECK_DEADLOCK FALSE
