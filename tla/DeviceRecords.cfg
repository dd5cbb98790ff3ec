SPECIFICATION FairSpec
CONSTANTS
  m1 = m1
  m2 = m2
  Macs = {m1, m2}
  IPs = {1}
  Bare = {}
  Lingering = {1}
  Watched = {}
  Loop = Loop
  Requests = {r1}
  Tools = {}
  MissingAfter = 1
  MaxTime = 0
  Nobody = Nobody
  NoRow = NoRow
INVARIANT NeverAnnouncedTwice
PROPERTY RecordedInTheEnd
