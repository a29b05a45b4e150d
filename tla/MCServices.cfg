SPECIFICATION ServicesSpec
CONSTANTS
  Analysts = {ana, ben}
  Incidents = {i1, i2}
  Notes = {n1}
  Bodies <- FewBodies
  None = None
  ana = ana  ben = ben  i1 = i1  i2 = i2  n1 = n1
  Limit = 1
  MaxRevision = 3
  MaxTime = 1
  Requests = {q1, q2, q3, q4}
  Upload <- FourUploads
  Unbound = Unbound
  q1 = q1  q2 = q2  q3 = q3  q4 = q4
  web = web  api = api  doc = doc  harbor = harbor  ghcr = ghcr
  Loans = {1, 2, 3}
  PodOf <- TwoPods
  collector = collector  verifier = verifier
  Lifetime = 3
  Margin = 1
  Horizon = 4
  NoSession = NoSession
  Callers = {1, 2}
  LockRetries = 2
  MaxAttempts = 2
  MaxRequests = 1
  Window = 2
  LastTick = 3
  MaxExpiries = 1
  BpfObjects <- ThreeObjects
  ProgramsOf <- TheirPrograms
  RingsOf <- TheirRings
  process = process  network = network  syscalls = syscalls
  enter = enter  leave = leave  connect = connect
  privilege = privilege  module = module  exec = exec
  Submissions = {1, 2}
  ScoreRequests = {1, 2}
  ScoreIds = {1, 2}
  NoId = NoId
  Scenarios = {xz, confusion, solarwinds, spawn, egress, tamper, rollout, burst, restart, loop}
  xz = xz  confusion = confusion  solarwinds = solarwinds  spawn = spawn  egress = egress
  tamper = tamper  rollout = rollout  burst = burst  restart = restart  loop = loop
  Manifest <- Catalogue
  Services = {"recommendation", "email", "cart"}
  Campaigns <- SomeCampaigns
  DetectionWindow = 1
  MaxPolls = 1
  LastDelay = 2
  Unknown = Unknown
  control = control backdoor = backdoor egressed = egressed
  Histories <- TwoHistories
  TrainFamilies = {control}
  TestFamilies = {backdoor}
  MaxPackagings = 2
  NoFile = NoFile  Torn = Torn
  cart = cart
  Studies <- SomeStudies
  Vulnerable <- ScannedImages
  NotGiven = NotGiven
SYMMETRY Colleagues
CHECK_DEADLOCK FALSE
INVARIANTS
  AnswerStands
  LentIsUsable
  LockAndLimitHold
  PollsAttachedAndEndsEmpty
  TicketsAreBacked
  ResidueIsReported
  IndexIsComplete
  VerifiedIsWhole
  HeldOutIsHeldOut
  RowsAreComparable
PROPERTIES
  NoLostUpdate
