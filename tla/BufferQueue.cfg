SPECIFICATION Spec
CONSTANTS
  a = a
  b = b
  Bytes = {a, b, zero}
  Zero = zero
  InitialSize = 2
  ExtraSize = 2
  MaxData = 3
  MaxBytes = 4
SYMMETRY Symmetry
INVARIANTS
  TypeOK
  SizeBounded
PROPERTIES
  ImplementsByteQueue
