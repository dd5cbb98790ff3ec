SPECIFICATION FairSpec
CONSTANTS
  Cmds = {p1, p2, p3}
  Requests = {r1, r2}
  Loop = Loop
  None = None
INVARIANTS TypeOK NoOrphan
PROPERTIES DeathNoticed GaugeSettles
