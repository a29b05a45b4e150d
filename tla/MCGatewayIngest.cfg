SPECIFICATION Spec
CONSTANTS
  r1 = r1  r2 = r2  r3 = r3
  east = east  west = west
  e1 = e1  e2 = e2
  Requests = {r1, r2, r3}
  Replicas = {east, west}
  Events = {e1, e2}
  Routes <- PostRoutes
  LockKey <- SeededKeys
  Unpublishable = {e2}
  Nobody = Nobody
INVARIANTS
  OutboxMatchesEvents
  AnswersAreDurable
  ConflictOnlyAcrossKeys
PROPERTIES
  DeliversEvents
  EveryRequestEnds
