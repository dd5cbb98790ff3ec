SPECIFICATION FairMSpec
CONSTANTS
  a1 = a1
  a2 = a2
  Alerts = {a1, a2}
  Handlers = {h1}
  SourceOf <- MCSourceOf
  KeyOf <- MCSameKey
  HideSpans = {0, 1}
  Retention = 0
  SweepLimit = 2
  ShowLimit = 2
  MaxTime = 1
  Forever = 9
  NoTime = NoTime
  NoRow = NoRow
INVARIANT TypeOK
PROPERTIES ImplementsLifecycle ShowsOnlyObserved ShowsAllObserved OnlyCloseClearsTooSoon ClearedInTheEnd RaisedInTheEnd
