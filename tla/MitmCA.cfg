SPECIFICATION Spec
CONSTANTS
  Hosts = {h1, h2}
  Workers = {w1, w2}
  NoSNI = NoSNI
  CacheSize = 2
  LeafTTL = 1
  MaxRotations = 1
  None = None
INVARIANT
  OrderMatchesIndex
  RotationTakesEffect
PROPERTY RetiredLeafDies
