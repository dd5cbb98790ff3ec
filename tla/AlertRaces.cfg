SPECIFICATION MSpec
CONSTANTS
  a1 = a1
  a2 = a2
  Alerts = {a1, a2}
  Handlers = {h1, h2}
  SourceOf <- MCInternal
  KeyOf <- MCKeyOf
  HideSpans = {1}
  Retention = 0
  SweepLimit = 2
  ShowLimit = 2
  MaxTime = 1
  Forever = 9
  NoTime = NoTime
  NoRow = NoRow
INVARIANTS RowsConsistent AcknowledgementKept
SYMMETRY Alike
