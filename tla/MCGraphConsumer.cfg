SPECIFICATION Spec
CONSTANTS
  w1 = w1  w2 = w2
  a = a  b = b  bad = bad
  Workers = {w1, w2}
  Events = {a, b, bad}
  Stream <- FourEntries
  Rejected = {bad}
  ReadBatch = 2
  AckBatch = 2
  MaxAttempts = 2
  CutSize = 2
  MaxFaults = 1
INVARIANTS
  AckedIsHandled
  EventsCountOnce
  SnapshotsAreWhole
PROPERTIES
  EveryDeliverySettles
