CONSTANTS
  Byte = {0, 1}
  Size = 4
  Modulus = 8
  MaxPut = 5
SPECIFICATION Spec
INVARIANT
  CountersOK
PROPERTY
  ImplementsByteFifo
