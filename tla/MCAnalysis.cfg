SPECIFICATION AnalysisSpec
CONSTANTS
  e1 = e1  e2 = e2  e3 = e3  e4 = e4  e5 = e5  e6 = e6
  acme = acme  umbra = umbra  pod = pod  app = app
  sh = sh  cron = cron  lib = lib  etc = etc  api = api
  drift = drift  rule = rule
  Observed <- SixEvents
  Nothing = Nothing
  BatchSize = 2
  Windows = 2
  MaxRefs = 3
  MaxTime = 3
  Decay <- Halving
  Archives <- SomeArchives
  Requests <- SomeRequests
  Minimum = 1
  Refuters = 3
  Absent = Absent
  s1 = s1  s2 = s2  s3 = s3  ours = ours  theirs = theirs  image = image  other = other
  ssl = ssl  tls = tls  web = web  h1 = h1  h2 = h2  h3 = h3
  bin = bin  shared = shared  script = script  dir = dir  first = first  second = second
  Documents <- SomeDocuments
  Sendings <- SomeSendings
  PathPrefixes <- SomePrefixes
  Missing = Missing
  a = a  b = b  new = new  unk = unk  rest = rest
  Trainings <- ThreeTrainings
  Calibrations <- FiveCalibrations
  Observations <- AllWindows
  Reserved = {unk, rest}
  MaxOrder = 2
  MinTraining = 4
  MinWindow = 2
  MinCalibration = 2
  Percent = 90
  LossPenalty <- Doubled
  None = None
  run = run  began = began  ended = ended  target = target
  observer = observer  successor = successor  registry = registry  inside = inside
  Assertions <- TwoAssertions
  ObserverKey = observer
  Collected <- FourStatements
  Posts <- TwoPosts
  Configurations <- FourFiles
  MaxAge = 1
  Skew = 0
  LastTick = 2
  MaxSigned = 2
  MaxInFlight = 2
  Nil = Nil
CHECK_DEADLOCK FALSE
INVARIANTS
  GraphIsItsEvents
  ScmIsAcyclic
  ObservationsAreGrounded
  EffectsAreComparisons
  DecisionsAreSound
  ConfirmedIsEstablished
  OneReceiptPerObservation
PROPERTIES
  NamedIsIdentified
  HistoryStands
