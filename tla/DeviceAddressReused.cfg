SPECIFICATION DSpec
CONSTANTS
  m1 = m1
  m2 = m2
  Macs = {m1, m2}
  IPs = {1}
  Bare = {}
  Lingering = {}
  Watched = {m1}
  Loop = Loop
  Requests = {}
  Tools = {}
  MissingAfter = 1
  MaxTime = 3
  Nobody = Nobody
  NoRow = NoRow
INVARIANT AbsentIsMissing
