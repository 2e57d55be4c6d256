SPECIFICATION Spec
CONSTANT ReserveSize = 64
INVARIANTS
  TypeOK
  CalledRight
  Transparent
  LayoutConsistent
