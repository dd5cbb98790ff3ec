---------------------------- MODULE AlertMonitor ----------------------------
(***************************************************************************)
(* The alert store together with the world it watches: the conditions that *)
(* hold come and go (storage and Prometheus change between two requests)   *)
(* and every pass observes those that hold when it starts.                 *)
(*                                                                         *)
(* "kept" is a history variable that changes nothing: the alerts the       *)
(* operator acknowledged while active and whose condition every pass in    *)
(* flight has observed from then on.                                       *)
(***************************************************************************)
EXTENDS AlertStore

VARIABLES cond, kept

mvars == <<clock, rows, pass, cond, kept>>

Running(h) == pass[h].pc \notin {"idle", "done"}

MInit == Init /\ cond = {} /\ kept = {}

(* Evidence for an alert appears or goes away. *)
Raise(a) == a \notin cond /\ cond' = cond \cup {a} /\ UNCHANGED vars

Lower(a) == a \in cond /\ cond' = cond \ {a} /\ UNCHANGED vars

Look(h) == Observe(h, cond) /\ UNCHANGED cond

(* The alerts acknowledged by this step, while they are active. *)
NewlyKept(a) ==
    /\ rows[a] # NoRow /\ rows[a].active /\ ~rows[a].acked
    /\ rows'[a].active /\ rows'[a].acked

ClosedNow(a) == rows'[a] # rows[a] /\ rows'[a] # NoRow /\ rows'[a].state = "closed"

KeepTrack ==
    kept' = {a \in Alerts :
                /\ a \in kept \/ NewlyKept(a)
                /\ ~ClosedNow(a)
                /\ \A h \in Handlers : Running(h)' => a \in pass'[h].snap}

MNext ==
    /\ \/ \E a \in Alerts : Raise(a) \/ Lower(a)
       \/ \E h \in Handlers : Look(h)
       \/ Step /\ UNCHANGED cond
    /\ KeepTrack

MSpec == MInit /\ [][MNext]_mvars

(* A request that is being served goes on to its end, and time passes.  That
   anyone asks is no promise of the code (the page loads when it is opened and
   after each action of the operator), so the properties assume it. *)
FairMSpec ==
    /\ MSpec
    /\ WF_mvars(Tick /\ UNCHANGED cond /\ KeepTrack)
    /\ \A h \in Handlers : WF_mvars(PassStep(h) /\ UNCHANGED cond /\ KeepTrack)

-----------------------------------------------------------------------------
(* An acknowledgement outlives any number of refreshes, on any number of
   pages at once, for as long as they observe the condition and the operator
   does not close the alert: only a pass that missed it may undo it. *)
AcknowledgementKept ==
    \A a \in kept : rows[a] # NoRow /\ rows[a].active /\ rows[a].acked

(* Some page keeps asking and keeps being answered. *)
Watched == \E h \in Handlers : []<>(pass[h].pc = "observed") /\ []<>(pass[h].pc = "done")

MutedNow(a) == rows[a] # NoRow /\ Suppressed(rows[a], clock)

(* While somebody looks, an alert whose condition is gone for good and whose
   suppression is over stops being active for good: also one that was hidden
   from the sweeps when the condition went away, and although some passes fail. *)
ClearedInTheEnd ==
    Watched => \A a \in Alerts :
        <>[](a \notin cond /\ ~MutedNow(a)) => <>[](rows[a] = NoRow \/ ~rows[a].active)

(* An internal alert is left out only for another internal one. *)
Shadowed(a) ==
    \E b \in cond \ {a} : KeyOf[b] = KeyOf[a] /\ SourceOf[b] = "internal"

(* While somebody looks, an internal alert whose condition holds for good and
   that no other internal one shadows is, again and again, active or hidden by
   the operator: no failed pass, closed row or purge makes the store forget it,
   and no alert of another source with the same key takes its place.  (A
   collector that always fails reports nothing.) *)
RaisedInTheEnd ==
    Watched => \A a \in Alerts :
        <>[](a \in cond /\ SourceOf[a] = "internal" /\ ~Shadowed(a)) =>
            []<>(rows[a] # NoRow /\ (rows[a].active \/ MutedNow(a)))
=============================================================================
