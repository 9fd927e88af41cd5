SPECIFICATION Spec
CONSTANT
  BufferSizes = {"0", "1", "-1", "4096"}
INVARIANTS
  TypeOK
  ClassSound
  ConstantsInferred
\* A file that could not be opened, or that was misused, is of no more use.
CHECK_DEADLOCK FALSE
