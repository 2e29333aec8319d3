CONSTANTS
  k1 = k1
  k2 = k2
  k3 = k3
  v1 = v1
  v2 = v2
  Key <- MCKey
  Val <- MCVal
  MaxList = 3
SPECIFICATION Spec
INVARIANTS
  TypeOK
  IndexOK
  PendingIntact
PROPERTY Refines
