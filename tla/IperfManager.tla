---------------------------- MODULE IperfManager ----------------------------
(***************************************************************************)
(* The iperf3 server manager of internal/iperf/manager.go, the requests    *)
(* and the status loop of internal/agent/agent.go that call it, and the    *)
(* server processes.                                                       *)
(*                                                                         *)
(* What the manager does under its mutex is one step.  Outside it are the  *)
(* process, which may exit at any time, the goroutine that waits for it    *)
(* and then takes the mutex, and the callers, which set the gauge          *)
(* network_probe_iperf_server_up from the status they were given after   *)
(* the manager has released the mutex.                                     *)
(***************************************************************************)
CONSTANTS
    Cmds,      \* the *exec.Cmd values: processes with their waiting goroutines
    Requests,  \* the goroutines that serve an HTTP request
    Loop,      \* the goroutine of runIperfStatusLoop
    None       \* the nil *exec.Cmd

ASSUME IperfConstants == None \notin Cmds /\ Loop \notin Requests

Callers == Requests \cup {Loop}

VARIABLES
    cmd,        \* Manager.cmd
    lastError,  \* Manager.lastError is not empty
    procs,      \* per Cmd, its process and its waiting goroutine
    calls,      \* per caller, the status it still has to record
    gauge       \* the gauge's value

vars == <<cmd, lastError, procs, calls, gauge>>

(* "free": not in use; "running"; "exited": the process is gone, Wait has not
   returned yet; "reaped": Wait has returned, the goroutine wants the mutex. *)
Proc == [state : {"free", "running", "exited", "reaped"}, killed : BOOLEAN, failed : BOOLEAN]

(* A caller between two calls, or one that holds a status. *)
Call == {"idle", "up", "down"}

FreeProc == [state |-> "free", killed |-> FALSE, failed |-> FALSE]
LiveProc == [state |-> "running", killed |-> FALSE, failed |-> FALSE]

Init ==
    /\ cmd = None /\ lastError = FALSE
    /\ procs = [p \in Cmds |-> FreeProc]
    /\ calls = [c \in Callers |-> "idle"]
    /\ gauge = FALSE

-----------------------------------------------------------------------------
(* The manager's operations, each with the status it returns to caller c. *)

BareStatus(manager) == manager
StatusOf(manager) == IF manager = None THEN "down" ELSE "up"

Returns(c) ==
    /\ calls[c] = "idle"
    /\ calls' = [calls EXCEPT ![c] = StatusOf(cmd')]
    /\ UNCHANGED gauge

Status(c) == UNCHANGED <<cmd, lastError, procs>> /\ Returns(c)

(* iperf3 is not installed, or nothing runs and the context has ended or the
   command does not start. *)
StartFails(c) ==
    /\ lastError' = TRUE
    /\ UNCHANGED <<cmd, procs>>
    /\ Returns(c)

StartAlreadyRunning(c) == cmd # None /\ UNCHANGED <<cmd, lastError, procs>> /\ Returns(c)

StartLaunches(c) ==
    /\ cmd = None
    /\ \E p \in Cmds :
          /\ procs[p].state = "free"
          /\ cmd' = p
          /\ procs' = [procs EXCEPT ![p] = LiveProc]
    /\ lastError' = FALSE
    /\ Returns(c)

Start(c) == StartFails(c) \/ StartAlreadyRunning(c) \/ StartLaunches(c)

StopNothing(c) == cmd = None /\ UNCHANGED <<cmd, lastError, procs>> /\ Returns(c)

(* The context has ended, or Kill finds the process finished already. *)
StopFails(c) ==
    /\ cmd # None /\ lastError' = TRUE
    /\ UNCHANGED <<cmd, procs>>
    /\ Returns(c)

StopSignalled == [procs EXCEPT ![cmd].killed = TRUE]

StopKills(c) ==
    /\ cmd # None /\ procs[cmd].state # "reaped"
    /\ cmd' = None
    /\ procs' = StopSignalled
    /\ UNCHANGED lastError
    /\ Returns(c)

Stop(c) == StopNothing(c) \/ StopFails(c) \/ StopKills(c)

(* RecordIperfServer, with the status of a moment ago. *)
RecordNothing(c) == gauge
Recorded(c) == calls[c] = "up"

Record(c) ==
    /\ calls[c] # "idle"
    /\ gauge' = Recorded(c)
    /\ calls' = [calls EXCEPT ![c] = "idle"]
    /\ UNCHANGED <<cmd, lastError, procs>>

-----------------------------------------------------------------------------
(* The process p and the goroutine that waits for it. *)

(* The process exits, because it was killed or by itself: for instance at once
   because a killed predecessor still holds the port. *)
Exit(p) ==
    /\ procs[p].state = "running"
    /\ \E failed \in BOOLEAN :
          /\ procs[p].killed => failed
          /\ procs' = [procs EXCEPT ![p].state = "exited", ![p].failed = failed]
    /\ UNCHANGED <<cmd, lastError, calls, gauge>>

Reap(p) ==
    /\ procs[p].state = "exited"
    /\ procs' = [procs EXCEPT ![p].state = "reaped"]
    /\ UNCHANGED <<cmd, lastError, calls, gauge>>

AnyCmd(p) == TRUE
NoCmd(p) == FALSE
IsCurrent(p) == cmd = p

(* The goroutine ends; after that the Cmd may be allocated again. *)
Forget(p) ==
    /\ procs[p].state = "reaped"
    /\ procs' = [procs EXCEPT ![p] = FreeProc]
    /\ IF IsCurrent(p) THEN cmd' = None /\ lastError' = (lastError \/ procs[p].failed)
       ELSE UNCHANGED <<cmd, lastError>>
    /\ UNCHANGED <<calls, gauge>>

-----------------------------------------------------------------------------
Next ==
    \/ \E c \in Requests : Status(c) \/ Start(c) \/ Stop(c)
    \/ Status(Loop)
    \/ \E c \in Callers : Record(c)
    \/ \E p \in Cmds : Exit(p) \/ Reap(p) \/ Forget(p)

Spec == Init /\ [][Next]_vars

(* The ticker keeps the status loop going, every call is recorded, a killed
   process exits and waiting goroutines run.  A process that nobody kills may
   run for ever, and nobody has to send a request. *)
FairSpec ==
    /\ Spec
    /\ WF_vars(Status(Loop))
    /\ \A c \in Callers : WF_vars(Record(c))
    /\ \A p \in Cmds : WF_vars(procs[p].killed /\ Exit(p)) /\ WF_vars(Reap(p)) /\ WF_vars(Forget(p))

-----------------------------------------------------------------------------
(* The properties. *)

(* The types of the manager's fields, the processes and the calls. *)
TypeOK ==
    /\ cmd \in Cmds \cup {None} /\ lastError \in BOOLEAN
    /\ procs \in [Cmds -> Proc]
    /\ calls \in [Callers -> Call]
    /\ gauge \in BOOLEAN

(* No orphan: a process the manager does not hold was killed by it, and one it
   holds is not killed and has its goroutine still waiting.  So no goroutine of
   an older process lets go of the current one, at most one server serves, and
   whatever a Stop leaves behind is on its way out. *)
NoOrphan ==
    \A p \in Cmds :
       /\ procs[p].state = "running" /\ ~procs[p].killed => cmd = p
       /\ cmd = p => procs[p].state # "free" /\ ~procs[p].killed

(* A server that dies does not stay the manager's for ever, whatever requests
   come in: a later Start launches a new one. *)
DeathNoticed ==
    \A p \in Cmds : cmd = p /\ procs[p].state = "exited" ~> cmd # p

(* When the server stays up, or stays down, the gauge says so in the end,
   although each caller records a status that may be stale by then. *)
GaugeSettles ==
    \A up \in BOOLEAN : <>[]((cmd # None) = up) => <>[](gauge = up)
=============================================================================
