CONSTANTS
  Keys = {k1, k2, k3, k4}
  Elements = {e1, e2}
  MaxSize = 3
SPECIFICATION Spec
INVARIANTS
  TypeOK
  IteratorsAreValid
PROPERTIES
  ImplementsLossyCache
  IsRecencyCache
