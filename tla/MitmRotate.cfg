SPECIFICATION Spec
CONSTANTS
  Hosts = {h1}
  Workers = {w1}
  NoSNI = NoSNI
  CacheSize = 1
  LeafTTL = 1
  MaxRotations = 1
  None = None
INVARIANT RetiredNeverCached
