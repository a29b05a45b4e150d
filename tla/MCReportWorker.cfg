SPECIFICATION Spec
CONSTANTS
  w1 = w1  w2 = w2
  inc = inc
  Workers = {w1, w2}
  Incidents = {inc}
  NoIncident = NoIncident
  Stream <- ThreeRequests
  ReadBatch = 2
  MaxRetries = 3
  MaxRevision = 2
  MaxFaults = 2
INVARIANTS
  CompletionIsBacked
  AckedIsAnswered
PROPERTIES
  UndisturbedSettles
