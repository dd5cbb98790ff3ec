SPECIFICATION Spec
CONSTANTS
  h1 = h1
  h2 = h2
  system = system
  public = public
  web = web
  trace = trace
  Hosts = {h1, h2}
  Lookups = {system, public, d1, d2, d3}
  SystemLookups = {system, d1, d2, d3}
  Answering = {s1, s2, s3, s4, s5, s6, d1, d2, d3}
  Services = {web, s1, s2, s3, s4, s5, s6}
  Checks = {trace}
  Global <- MCGlobal
  PerTarget <- MCPerTarget
  PingSamples <- MCPing
  DNSSamples <- MCDNS
  HTTPSamples <- MCHTTP
  Pasts <- MCPasts
  Gateway = gw
  Nothing = Nothing
  Timeout = 10000
  MaxSigns = 3
  AlertKinds <- MCAlerts
  RowKinds <- MCRows
  CheckConcerns <- MCConcerns
  MaxRows = 3
  MaxFindings = 13
  MaxAlerts = 13
  MaxSpeedtests = 7
  WrapBound = 1
INVARIANTS StatusIsWorst FullScoreMeansHealthy FailureIsReported
  NothingLeftOut TriageNeverMilder HeadlineIsHonest NothingOverlaps HeadingKept
PROPERTY WorseningNeverHeals
CHECK_DEADLOCK FALSE
