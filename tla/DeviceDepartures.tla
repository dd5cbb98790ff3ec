------------------------- MODULE DeviceDepartures --------------------------
(***************************************************************************)
(* The device inventory together with the history of the network and of    *)
(* the rounds: when each host was last connected, when each address was    *)
(* last in use or named by a neighbour table, and the longest that any     *)
(* round has run.  The history variables change nothing; they say what the *)
(* inventory should have noticed about the hosts that leave.               *)
(***************************************************************************)
EXTENDS DeviceInventory

VARIABLES lastOn, lastUsed, longest

dvars == <<clock, lan, stale, rows, rounds, gauge, announced, seen, lastOn, lastUsed, longest>>

DInit ==
    /\ Init
    /\ lastOn = [m \in Macs |-> 0] /\ lastUsed = [ip \in IPs |-> 0] /\ longest = 0

KeepTrack ==
    /\ lastOn' = [m \in Macs |-> IF \E ip \in IPs : lan'[ip] = m THEN clock' ELSE lastOn[m]]
    /\ lastUsed' = [ip \in IPs |-> IF lan'[ip] # Nobody \/ stale'[ip] # Nobody THEN clock'
                                   ELSE lastUsed[ip]]
    /\ longest' = IF \E w \in Workers : rounds'[w].pc # "idle" /\ clock' - rounds'[w].now > longest
                  THEN longest + 1 ELSE longest

DNext == Next /\ KeepTrack

DSpec == DInit /\ [][DNext]_dvars

-----------------------------------------------------------------------------
(* No device is missing too early: late statements of an overlapping round may
   set last_seen back, but by no more than a round has ever taken, however long
   rounds take. *)
NotMissedEarly ==
    \A k \in MissingDevices : clock - seen[k] > MissingAfter - longest

LongAgo(t) == clock - t > MissingAfter + longest

(* A monitored device is missing once its address has been out of use, and out
   of the neighbour tables, for the window and as long as any round has taken,
   whatever rounds overlap, fail or are late, and whichever of several devices
   of one address they found.  (No identity of that address was asked for.) *)
DepartureNoticed ==
    \A k \in Keys :
       Exists(k) /\ rows[k].monitored /\ LongAgo(lastUsed[rows[k].ip]) => k \in MissingDevices

(* "LAN devices missing from recent discovery." A monitored host that is gone
   for as long is missing, whoever has its address now. *)
AbsentIsMissing ==
    \A m \in Macs :
       Exists(m) /\ rows[m].monitored /\ LongAgo(lastOn[m]) => m \in MissingDevices
=============================================================================
