------------------------ MODULE MCDeviceDepartures -------------------------
EXTENDS DeviceDepartures, TLC
CONSTANTS m1, m2
(* How long the rounds of a run may take. *)
ShortRounds == longest <= 1
(* Nothing but TypeOK reads the gauges, what is announced or what a round counts
   for them. *)
Uncounted == [w \in Workers |-> [rounds[w] EXCEPT !.inserted = {}, !.new = {}, !.missing = {}]]
Sighted == <<clock, lan, stale, rows, Uncounted, seen, lastUsed, longest>>
=============================================================================
