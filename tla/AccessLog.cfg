SPECIFICATION MCSpec
CONSTANTS
  w1 = w1
  w2 = w2
  Subscribers = {s1}
  MaxTime = 3
  window = 1
  maxBuckets = 2
  subBufSize = 2
  Workers = {w1, w2}
  MaxEntries = 4
  Kinds <- MCKinds
  batchSize = 2
  None = None
CHECK_DEADLOCK FALSE
INVARIANTS
  HitsExact
  TrafficChronological
  NoSendOnClosed
  StreamInOrder
  NoMissedSignal
  CloseFlushes
PROPERTIES
  CloseEnds
  EntriesAccountedFor
