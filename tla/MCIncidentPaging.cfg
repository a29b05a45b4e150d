SPECIFICATION IncidentSpec
CONSTANTS
  Analysts = {ana, ben}
  Incidents = {i1, i2}
  Notes = {n1}
  Bodies <- FewBodies
  None = None
  ana = ana  ben = ben
  i1 = i1  i2 = i2
  n1 = n1
  Limit = 1
  MaxRevision = 3
  MaxTime = 1
SYMMETRY Colleagues
INVARIANTS
  ListingIsComplete
