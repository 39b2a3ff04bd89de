SPECIFICATION Spec
CONSTANTS
  Null = Null
  Items = {x1, x2, x3}
  MaxTail = 3
INVARIANTS
  TypeOK
PROPERTIES
  RefinesFifo
