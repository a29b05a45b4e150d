SPECIFICATION Spec
CONSTANTS
  r1 = r1  r2 = r2  r3 = r3
  Requests = {r1, r2, r3}
  NoJob = NoJob
  MaxFaults = 2
INVARIANTS
  VerifiedHasJob
  VerdictStands
PROPERTIES
  EveryJobEnds
