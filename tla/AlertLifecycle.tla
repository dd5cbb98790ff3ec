--------------------------- MODULE AlertLifecycle ---------------------------
(***************************************************************************)
(* What the alert table promises an operator, one status per alert and no  *)
(* rows, clocks or passes:                                                 *)
(*                                                                         *)
(*   none          no row                                                  *)
(*   open          shown, waiting for the operator                         *)
(*   acknowledged  shown as accepted for triage                            *)
(*   muted         still active but hidden for a while                     *)
(*   hidden        inactive, and it may not come back for a while          *)
(*   cleared       inactive, and it may come back                          *)
(*                                                                         *)
(* An acknowledged alert never falls back to open: it has to clear first.  *)
(* A cleared one comes back as open and never as acknowledged.  A hidden   *)
(* one has to wait for its term, unless the operator changes the term or   *)
(* the retention cleanup forgets the alert.                                *)
(***************************************************************************)
CONSTANT Alerts

VARIABLE status

Status == {"none", "open", "acknowledged", "muted", "hidden", "cleared"}
Active == {"open", "acknowledged", "muted"}
Inactive == {"hidden", "cleared"}

Init == status = [a \in Alerts |-> "none"]

Set(a, s) == status' = [status EXCEPT ![a] = s]

Raise(a) == status[a] \in {"none", "cleared"} /\ Set(a, "open")

Acknowledge(a) == status[a] = "open" /\ Set(a, "acknowledged")

(* Suppression for a term, or for one that is over at once. *)
Hide(a) ==
    \/ status[a] \in Active /\ (Set(a, "muted") \/ Set(a, "acknowledged"))
    \/ status[a] \in Inactive /\ (Set(a, "hidden") \/ Set(a, "cleared"))

Close(a) == status[a] # "none" /\ Set(a, "hidden")

(* Several alerts, or none, move at once along the given map. *)
Move(map) ==
    /\ status' \in [Alerts -> Status]
    /\ \A a \in Alerts :
          \/ status'[a] = status[a]
          \/ status[a] \in DOMAIN map /\ status'[a] = map[status[a]]

(* A refresh clears what it no longer observes; a muted alert stays hidden
   for the rest of its term. *)
SweptTo == [s \in Active |-> IF s = "muted" THEN "hidden" ELSE "cleared"]

(* Terms run out with the clock. *)
ExpiredTo == [s \in {"muted", "hidden"} |-> IF s = "muted" THEN "acknowledged" ELSE "cleared"]

(* The cleanup forgets inactive alerts. *)
PurgedTo == [s \in Inactive |-> "none"]

Next ==
    \/ Move(SweptTo) \/ Move(ExpiredTo) \/ Move(PurgedTo)
    \/ \E a \in Alerts : Raise(a) \/ Acknowledge(a) \/ Hide(a) \/ Close(a)

Spec == Init /\ [][Next]_status
=============================================================================
