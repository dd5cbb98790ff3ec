--------------------------- MODULE MCAlertMonitor ---------------------------
EXTENDS AlertMonitor, TLC
CONSTANTS a1, a2
Alike == Permutations(Handlers) \cup Permutations(Alerts)
MCInternal == [a \in Alerts |-> "internal"]
MCKeyOf == [a \in Alerts |-> a]
MCSourceOf == (a1 :> "internal") @@ (a2 :> "port-changes")
MCSameKey == [a \in Alerts |-> 1]
=============================================================================
