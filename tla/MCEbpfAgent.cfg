SPECIFICATION Spec
CONSTANTS
  p1 = p1
  web = web  job = job  system = system
  Pids = {p1}
  Containers = {web, job, system}
  Host = Host
  NoProcess = NoProcess
  Unscoped = {job}
  Digestless = {}
  Watched = {web, job}
  RingSize = 1
  QueueSize = 1
  MaxEvents = 2
  MaxFaults = 2
INVARIANTS
  PostsNameTheirContainer
  RecordsAccounted
PROPERTIES
  EveryEventLeaves
