---------------------------- MODULE EchoSession -----------------------------
(***************************************************************************)
(* What the UDP echo service promises: at most one session is open, its    *)
(* term is within the limits, it never opens again once it has ended, and  *)
(* packets are echoed only while the session whose token they carry is     *)
(* open.                                                                   *)
(***************************************************************************)
EXTENDS Integers

CONSTANTS Sessions, MinTerm, MaxTerm

VARIABLES
    clock,
    phase,     \* per session, "new", "open" or "over"
    until,     \* per session, the end of its term
    answered   \* the sessions whose token was echoed

svars == <<clock, phase, until, answered>>

Init ==
    /\ clock = 0
    /\ phase = [s \in Sessions |-> "new"]
    /\ until = [s \in Sessions |-> 0]
    /\ answered = {}

AllOver == [s \in Sessions |-> IF phase[s] = "open" THEN "over" ELSE phase[s]]

(* A request for a session ends the open one, also when it fails. *)
Open(s) ==
    /\ phase[s] = "new"
    /\ phase' = [AllOver EXCEPT ![s] = "open"]
    /\ \E term \in MinTerm..MaxTerm : until' = [until EXCEPT ![s] = clock + term]
    /\ UNCHANGED <<clock, answered>>

(* The open session ends; when it may do so by itself is not said here. *)
End == phase' = AllOver /\ UNCHANGED <<clock, until, answered>>

Echo(s) ==
    /\ phase[s] = "open"
    /\ answered' = answered \cup {s}
    /\ UNCHANGED <<clock, phase, until>>

Tick == clock' = clock + 1 /\ UNCHANGED <<phase, until, answered>>

Next ==
    \/ \E s \in Sessions : Open(s) \/ Echo(s)
    \/ End
    \/ Tick

Spec == Init /\ [][Next]_svars
=============================================================================
