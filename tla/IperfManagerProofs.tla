------------------------- MODULE IperfManagerProofs -------------------------
(***************************************************************************)
(* Theorems about IperfManager, for any number of requests and processes.  *)
(***************************************************************************)
EXTENDS IperfManager, TLAPS

IInv == TypeOK /\ NoOrphan

LEMMA InitIInv == Init => IInv
<1> SUFFICES ASSUME Init PROVE IInv
  OBVIOUS
<1>1. FreeProc \in Proc /\ FreeProc.state = "free"
  BY DEF FreeProc, Proc
<1>2. TypeOK
  BY <1>1 DEF Init, TypeOK, Call
<1>3. NoOrphan
  BY <1>1, IperfConstants DEF Init, NoOrphan
<1> QED BY <1>2, <1>3 DEF IInv

(* What every operation of the manager does to the caller's status. *)
LEMMA ReturnsType ==
    ASSUME TypeOK, NEW c \in Callers, Returns(c)
    PROVE  calls' \in [Callers -> Call] /\ gauge' \in BOOLEAN
BY DEF TypeOK, Returns, StatusOf, Call

(* A step that changes one process and not the manager. *)
LEMMA ProcStep ==
    ASSUME IInv, NEW p \in Cmds, NEW new \in Proc,
           procs' = [procs EXCEPT ![p] = new],
           new.state # "free", new.killed = procs[p].killed,
           new.state = "running" => procs[p].state = "running",
           procs[p].state # "free",
           UNCHANGED <<cmd, lastError, calls, gauge>>
    PROVE  IInv'
<1>1. procs'[p] = new /\ \A q \in Cmds : q # p => procs'[q] = procs[q]
  BY DEF IInv, TypeOK
<1>2. TypeOK'
  BY DEF IInv, TypeOK
<1>3. NoOrphan'
  BY <1>1 DEF IInv, NoOrphan
<1> QED BY <1>2, <1>3 DEF IInv

LEMMA NextIInv == IInv /\ [Next]_vars => IInv'
<1> SUFFICES ASSUME IInv, [Next]_vars PROVE IInv'
  OBVIOUS
<1>0. /\ procs \in [Cmds -> Proc] /\ \A p \in Cmds : procs[p] \in Proc
      /\ FreeProc \in Proc /\ LiveProc \in Proc
      /\ cmd \in Cmds \cup {None} /\ lastError \in BOOLEAN
  BY DEF IInv, TypeOK, FreeProc, LiveProc, Proc
<1>1. ASSUME NEW c \in Callers, Returns(c), UNCHANGED <<cmd, procs>>, lastError' \in BOOLEAN
      PROVE  IInv'
  BY <1>1, ReturnsType DEF IInv, TypeOK, NoOrphan
<1>2. ASSUME NEW c \in Callers, StartLaunches(c)
      PROVE  IInv'
  <2>1. PICK p \in Cmds : /\ procs[p].state = "free" /\ cmd' = p
                          /\ procs' = [procs EXCEPT ![p] = LiveProc]
    BY <1>2 DEF StartLaunches
  <2>2. cmd = None /\ lastError' = FALSE
    BY <1>2 DEF StartLaunches
  <2>3. TypeOK'
    BY <1>0, <1>2, <2>1, <2>2, ReturnsType DEF StartLaunches, IInv, TypeOK
  <2>4. /\ procs'[p].state = "running" /\ ~procs'[p].killed
        /\ \A q \in Cmds : q # p => procs'[q] = procs[q]
    BY <1>0, <2>1 DEF LiveProc
  <2>5. NoOrphan'
    BY <2>1, <2>2, <2>4, IperfConstants DEF IInv, NoOrphan
  <2> QED BY <2>3, <2>5 DEF IInv
<1>3. ASSUME NEW c \in Callers, StopKills(c)
      PROVE  IInv'
  <2>1. cmd \in Cmds /\ cmd' = None /\ lastError' = lastError
    BY <1>0, <1>3 DEF StopKills
  <2> DEFINE new == [procs[cmd] EXCEPT !.killed = TRUE]
  <2>2. procs' = [procs EXCEPT ![cmd] = new]
    BY <1>3 DEF StopKills, StopSignalled
  <2>3. new \in Proc /\ new.killed
    BY <1>0, <2>1 DEF Proc
  <2> HIDE DEF new
  <2>4. TypeOK'
    BY <1>0, <1>3, <2>1, <2>2, <2>3, ReturnsType DEF StopKills, IInv, TypeOK
  <2>5. NoOrphan'
    BY <1>0, <2>1, <2>2, <2>3, IperfConstants DEF IInv, NoOrphan
  <2> QED BY <2>4, <2>5 DEF IInv
<1>4. ASSUME NEW c \in Callers, Status(c) \/ Start(c) \/ Stop(c)
      PROVE  IInv'
  BY <1>0, <1>1, <1>2, <1>3, <1>4
     DEF Status, Start, StartFails, StartAlreadyRunning, Stop, StopNothing, StopFails
<1>5. ASSUME NEW c \in Callers, Record(c)
      PROVE  IInv'
  BY <1>5 DEF Record, Recorded, IInv, TypeOK, NoOrphan, Call
<1>6. ASSUME NEW p \in Cmds, Exit(p)
      PROVE  IInv'
  <2>1. PICK failed \in BOOLEAN :
           procs' = [procs EXCEPT ![p].state = "exited", ![p].failed = failed]
    BY <1>6 DEF Exit
  <2> DEFINE new == [procs[p] EXCEPT !.state = "exited", !.failed = failed]
  <2>2. procs' = [procs EXCEPT ![p] = new]
    BY <2>1
  <2>3. new \in Proc /\ new.state = "exited" /\ new.killed = procs[p].killed
    BY <1>0 DEF Proc
  <2> HIDE DEF new
  <2> QED BY <1>6, <2>2, <2>3, ProcStep DEF Exit
<1>7. ASSUME NEW p \in Cmds, Reap(p)
      PROVE  IInv'
  <2> DEFINE new == [procs[p] EXCEPT !.state = "reaped"]
  <2>1. procs' = [procs EXCEPT ![p] = new]
    BY <1>7 DEF Reap
  <2>2. new \in Proc /\ new.state = "reaped" /\ new.killed = procs[p].killed
    BY <1>0 DEF Proc
  <2> HIDE DEF new
  <2> QED BY <1>7, <2>1, <2>2, ProcStep DEF Reap
<1>8. ASSUME NEW p \in Cmds, Forget(p)
      PROVE  IInv'
  <2>1. /\ procs' = [procs EXCEPT ![p] = FreeProc] /\ UNCHANGED <<calls, gauge>>
        /\ IF cmd = p THEN cmd' = None /\ lastError' = (lastError \/ procs[p].failed)
           ELSE cmd' = cmd /\ lastError' = lastError
    BY <1>8 DEF Forget, IsCurrent
  <2>2. procs[p].failed \in BOOLEAN
    BY <1>0 DEF Proc
  <2>3. TypeOK'
    BY <1>0, <2>1, <2>2 DEF IInv, TypeOK
  <2>4. /\ procs'[p].state = "free" /\ ~procs'[p].killed
        /\ \A q \in Cmds : q # p => procs'[q] = procs[q]
    BY <1>0, <2>1 DEF FreeProc
  <2>5. NoOrphan'
    BY <2>1, <2>4, IperfConstants DEF IInv, NoOrphan
  <2> QED BY <2>3, <2>5 DEF IInv
<1>9. CASE UNCHANGED vars
  BY <1>9 DEF vars, IInv, TypeOK, NoOrphan
<1> QED
  BY <1>4, <1>5, <1>6, <1>7, <1>8, <1>9 DEF Next, Callers

(* The manager's fields, the processes and the calls keep their types. *)
THEOREM TypeCorrect == Spec => []TypeOK
<1>1. IInv => TypeOK
  BY DEF IInv
<1> QED BY <1>1, InitIInv, NextIInv, PTL DEF Spec

(* However Start, Stop, exits and waiting goroutines interleave, no server runs
   that the manager has lost. *)
THEOREM NeverOrphaned == Spec => []NoOrphan
<1>1. IInv => NoOrphan
  BY DEF IInv
<1> QED BY <1>1, InitIInv, NextIInv, PTL DEF Spec
=============================================================================
