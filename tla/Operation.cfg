SPECIFICATION Spec
CONSTANTS
  n1 = n1
  n2 = n2
  bad = bad
  v1 = v1
  v2 = v2
  vbad = vbad
  PutRequests = {p1, p2}
  Nets = {n1, n2, bad, NoText}
  ValidNets = {n1, n2}
  NoText = NoText
  Sections = {"targets", "thresholds", "per_target"}
  Uncounted = {"thresholds", "per_target"}
  Replaced = {"per_target"}
  Values = {v1, v2, vbad}
  ValidValues = {v1, v2}
  Blank = Blank
  Yaml <- MCYaml
  Bodies <- MCBodies
  Absent = Absent
  Ids = {r1, r2}
  Cleaners = {c1, c2}
  Retentions = {0, 1, 2}
  MaxDay = 3
  Sweeps = {s1, s2}
  Found = {a, b}
  Junk = junk
  NoDetails = nodetails
  Window = 2
  MaxProbes = 4
  pingLoop = pingLoop
  dnsLoop = dnsLoop
  pingNow = pingNow
  gw = gw
  name = name
  Runs = {pingLoop, dnsLoop, pingNow}
  Loops = {pingLoop, dnsLoop}
  RunKind <- MCRunKind
  TargetsOf <- MCTargetsOf
  Recording = {"ping", "dns"}
  Scores = {"dns", "overall"}
  Score <- MCScore
  MaxTurns = 3
  Sweepers = {p}
  Requesters = {q}
  Enrichers = {q}
  Listers = {q}
  OpenPorts = {631, 8080}
  ScanPorts = {8080}
  ScanLimit = 1
  MaxAhead = 1
  Announced = {"airplay"}
  HostHints = {}
  MaxMoves = 1
  MaxFaults = 1
INVARIANTS AloneHeals ServedUntilCutoff NoSilentChange
PROPERTIES GaugesFollow PortsReturn
CHECK_DEADLOCK FALSE
