SPECIFICATION DSpec
CONSTANTS
  m1 = m1
  m2 = m2
  Macs = {m1}
  IPs = {1}
  Bare = {}
  Lingering = {1}
  Watched = {m1}
  Loop = Loop
  Requests = {r1}
  Tools = {}
  MissingAfter = 1
  MaxTime = 3
  Nobody = Nobody
  NoRow = NoRow
INVARIANTS TypeOK NotMissedEarly DepartureNoticed
CONSTRAINT ShortRounds
VIEW Sighted
