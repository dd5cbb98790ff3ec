--------------------------- MODULE UdpEchoProofs ----------------------------
(***************************************************************************)
(* Theorems about UdpEcho, for any number of sessions and any terms.       *)
(***************************************************************************)
EXTENDS UdpEcho, TLAPS

(* A goroutine about to clean up a socket that is still open has outlived its
   term: nothing but the term makes its loop end before the socket is closed. *)
LeavingLate ==
    \A s \in Sessions :
       servers[s].pc = "leaving" /\ servers[s].open => clock > servers[s].until

(* The inductive invariant. *)
EInv == TypeOK /\ SocketsOwned /\ LeavingLate

LEMMA GrantedType ==
    ASSUME NEW term \in Int
    PROVE  Granted(term) \in MinTerm..MaxTerm /\ Granted(term) \in Nat
BY EchoConstants DEF Granted

LEMMA NewServerType ==
    ASSUME NEW pc \in {"new", "arming"}, NEW open \in BOOLEAN, NEW until \in Nat
    PROVE  /\ NewServer(pc, open, until) \in Server
           /\ NewServer(pc, open, until).pc = pc
           /\ NewServer(pc, open, until).open = open
           /\ NewServer(pc, open, until).until = until
BY EchoConstants DEF NewServer, Server

(* What Close does to the sockets. *)
LEMMA ConnClosedFacts ==
    ASSUME EInv
    PROVE  /\ ConnClosed \in [Sessions -> Server]
           /\ \A s \in Sessions : /\ ConnClosed[s].pc = servers[s].pc
                                  /\ ConnClosed[s].until = servers[s].until
                                  /\ ConnClosed[s].open = FALSE
<1>1. \A s \in Sessions : servers[s] \in Server
  BY DEF EInv, TypeOK
<1>2. ASSUME NEW s \in Sessions
      PROVE  /\ ConnClosed[s] \in Server
             /\ ConnClosed[s].pc = servers[s].pc
             /\ ConnClosed[s].until = servers[s].until
             /\ ConnClosed[s].open = FALSE
  <2>1. CASE s = conn
    BY <1>1, <2>1 DEF ConnClosed, Server
  <2>2. CASE s # conn
    BY <1>1, <2>2 DEF ConnClosed, Server, EInv, SocketsOwned
  <2> QED BY <2>1, <2>2
<1>3. ConnClosed = [s \in Sessions |-> ConnClosed[s]]
  BY DEF ConnClosed
<1> HIDE DEF ConnClosed
<1> QED BY <1>2, <1>3

LEMMA InitEInv == Init => EInv
<1> SUFFICES ASSUME Init PROVE EInv
  OBVIOUS
<1>1. \A s \in Sessions : /\ servers[s] \in Server /\ servers[s].pc = "new"
                          /\ servers[s].open = FALSE
  BY NewServerType DEF Init
<1>2. TypeOK
  BY <1>1 DEF Init, TypeOK
<1> QED BY <1>1, <1>2, EchoConstants DEF Init, EInv, SocketsOwned, LeavingLate

(* A step that changes one goroutine, and its socket not at all. *)
LEMMA ServerStep ==
    ASSUME EInv, NEW s \in Sessions, NEW new \in Server,
           servers' = [servers EXCEPT ![s] = new],
           new.open <=> servers[s].open, new.until = servers[s].until,
           servers[s].pc # "new", new.pc # "new", new.pc = "gone" => conn # s,
           new.pc = "leaving" /\ new.open => clock > new.until,
           UNCHANGED <<clock, conn, token, expires>>, answered' \subseteq Sessions
    PROVE  EInv'
<1>1. /\ servers'[s] = new
      /\ \A g \in Sessions : g # s => servers'[g] = servers[g]
      /\ servers' \in [Sessions -> Server]
  BY DEF EInv, TypeOK
<1>2. TypeOK'
  BY <1>1 DEF EInv, TypeOK
<1>3. SocketsOwned'
  BY <1>1 DEF EInv, SocketsOwned
<1>4. LeavingLate'
  BY <1>1 DEF EInv, LeavingLate
<1> QED BY <1>2, <1>3, <1>4 DEF EInv

LEMMA NextEInv == EInv /\ [Next]_vars => EInv'
<1> SUFFICES ASSUME EInv, [Next]_vars PROVE EInv'
  OBVIOUS
<1>0. /\ clock \in Nat /\ conn \in Sessions \cup {None} /\ answered \subseteq Sessions
      /\ \A s \in Sessions : servers[s] \in Server /\ servers[s].until \in Nat
      /\ servers \in [Sessions -> Server]
  BY DEF EInv, TypeOK, Server
<1>1. CASE Tick
  BY <1>0, <1>1 DEF Tick, EInv, TypeOK, SocketsOwned, LeavingLate
<1>2. ASSUME conn' = None, servers' = ConnClosed, UNCHANGED <<clock, answered>>,
             token' \in Sessions \cup {None}, expires' \in Nat
      PROVE  EInv'
  <2>1. TypeOK'
    BY <1>0, <1>2, ConnClosedFacts DEF TypeOK
  <2>2. SocketsOwned' /\ LeavingLate'
    BY <1>2, ConnClosedFacts, EchoConstants DEF SocketsOwned, LeavingLate
  <2> QED BY <2>1, <2>2 DEF EInv
<1>3. ASSUME NEW s \in Sessions, NEW until \in Nat, StartServes(s, until)
      PROVE  EInv'
  <2> DEFINE new == NewServer("arming", TRUE, until)
  <2>1. /\ servers' = [ConnClosed EXCEPT ![s] = new]
        /\ conn' = s /\ token' = s /\ expires' = until
        /\ clock' = clock /\ answered' = answered
    BY <1>3 DEF StartServes
  <2>n. new \in Server /\ new.pc = "arming" /\ new.open = TRUE /\ new.until = until
    BY NewServerType
  <2> HIDE DEF new
  <2>c. ConnClosed \in [Sessions -> Server]
    BY ConnClosedFacts
  <2>s. /\ servers' \in [Sessions -> Server] /\ servers'[s] = new
        /\ \A g \in Sessions : g # s => servers'[g] = ConnClosed[g]
    BY <2>1, <2>n, <2>c
  <2>2. /\ servers' \in [Sessions -> Server]
        /\ servers'[s].pc = "arming" /\ servers'[s].open = TRUE /\ servers'[s].until = until
        /\ \A g \in Sessions : g # s => servers'[g] = ConnClosed[g]
    BY <2>n, <2>s
  <2>3. TypeOK'
    BY <1>0, <2>1, <2>2 DEF TypeOK
  <2>4. SocketsOwned' /\ LeavingLate'
    BY <2>1, <2>2, ConnClosedFacts DEF SocketsOwned, LeavingLate
  <2> QED BY <2>3, <2>4 DEF EInv
<1>4. ASSUME NEW term \in Int, Start(term)
      PROVE  EInv'
  <2>1. CASE StartFails
    BY <1>2, <2>1 DEF StartFails, EInv, TypeOK
  <2>2. CASE \E s \in Sessions : StartServes(s, clock + Granted(term))
    <3>1. clock + Granted(term) \in Nat
      BY <1>0, GrantedType
    <3> QED BY <1>3, <2>2, <3>1
  <2> QED BY <1>4, <2>1, <2>2 DEF Start
<1>5. CASE Stop
  BY <1>2, <1>5 DEF Stop
<1>6. ASSUME NEW t \in Sessions \cup {None}, Arrive(t)
      PROVE  EInv'
  <2>1. conn \in Sessions
    BY <1>0, <1>6 DEF Arrive
  <2> DEFINE new == [servers[conn] EXCEPT !.inbox = @ \cup {t}]
  <2>2. servers' = [servers EXCEPT ![conn] = new]
    BY <1>6 DEF Arrive
  <2>3. /\ new \in Server /\ new.open = servers[conn].open
        /\ new.until = servers[conn].until /\ new.pc = servers[conn].pc
    BY <1>0, <2>1 DEF Server
  <2> HIDE DEF new
  <2>4. /\ servers[conn].pc \notin {"new", "gone"}
        /\ servers[conn].pc = "leaving" /\ servers[conn].open => clock > servers[conn].until
    BY <2>1 DEF EInv, SocketsOwned, LeavingLate
  <2>5. UNCHANGED <<clock, conn, token, expires>> /\ answered' \subseteq Sessions
    BY <1>0, <1>6 DEF Arrive
  <2>6. /\ new.open <=> servers[conn].open
        /\ new.pc # "new" /\ servers[conn].pc # "new" /\ new.pc # "gone"
        /\ new.pc = "leaving" /\ new.open => clock > new.until
    BY <2>3, <2>4
  <2> QED BY <2>1, <2>2, <2>3, <2>5, <2>6, ServerStep
<1>7. ASSUME NEW s \in Sessions, Arm(s)
      PROVE  EInv'
  <2> DEFINE deadline == IF servers[s].until < clock + 1 THEN servers[s].until ELSE clock + 1
             pc == IF deadline > clock THEN "reading" ELSE "lapsed"
             new == [servers[s] EXCEPT !.pc = pc, !.deadline = deadline]
  <2>1. servers' = [servers EXCEPT ![s] = new]
    BY <1>7 DEF Arm
  <2>2. deadline \in Nat /\ pc \in {"reading", "lapsed"}
    BY <1>0
  <2> HIDE DEF deadline, pc
  <2>3. /\ new \in Server /\ new.open = servers[s].open
        /\ new.until = servers[s].until /\ new.pc = pc
    BY <1>0, <2>2 DEF Server
  <2> HIDE DEF new
  <2>4. /\ UNCHANGED <<clock, conn, token, expires>> /\ answered' \subseteq Sessions
        /\ servers[s].pc # "new"
    BY <1>0, <1>7 DEF Arm
  <2>5. /\ new.open <=> servers[s].open
        /\ new.pc # "new" /\ new.pc # "gone" /\ new.pc # "leaving"
    BY <2>2, <2>3
  <2> QED BY <2>1, <2>3, <2>4, <2>5, ServerStep
<1>8. ASSUME NEW s \in Sessions, Receive(s)
      PROVE  EInv'
  <2>1. PICK t \in servers[s].inbox :
           servers' = [servers EXCEPT ![s].pc = "replying", ![s].deadline = 0,
                                      ![s].packet = t, ![s].inbox = @ \ {t}]
    BY <1>8 DEF Receive
  <2> DEFINE new == [servers[s] EXCEPT !.pc = "replying", !.deadline = 0,
                                       !.packet = t, !.inbox = @ \ {t}]
  <2>2. servers' = [servers EXCEPT ![s] = new]
    BY <2>1
  <2>3. /\ new \in Server /\ new.open = servers[s].open
        /\ new.until = servers[s].until /\ new.pc = "replying"
    BY <1>0, <2>1 DEF Server
  <2> HIDE DEF new
  <2>4. /\ UNCHANGED <<clock, conn, token, expires>> /\ answered' \subseteq Sessions
        /\ servers[s].pc # "new"
    BY <1>0, <1>8 DEF Receive
  <2>5. /\ new.open <=> servers[s].open
        /\ new.pc # "new" /\ new.pc # "gone" /\ new.pc # "leaving"
    BY <2>3
  <2> QED BY <2>2, <2>3, <2>4, <2>5, ServerStep
<1>9. ASSUME NEW s \in Sessions, ReadFails(s)
      PROVE  EInv'
  <2> DEFINE pc == IF Over(s) THEN "leaving" ELSE "arming"
             new == [servers[s] EXCEPT !.pc = pc, !.deadline = 0]
  <2>1. servers' = [servers EXCEPT ![s] = new]
    BY <1>9 DEF ReadFails
  <2>2. pc \in {"leaving", "arming"} /\ (pc = "leaving" => Over(s))
    OBVIOUS
  <2> HIDE DEF pc
  <2>3. /\ new \in Server /\ new.open = servers[s].open
        /\ new.until = servers[s].until /\ new.pc = pc
    BY <1>0, <2>2 DEF Server
  <2> HIDE DEF new
  <2>4. /\ UNCHANGED <<clock, conn, token, expires>> /\ answered' \subseteq Sessions
        /\ servers[s].pc # "new"
    BY <1>0, <1>9 DEF ReadFails
  <2>5. /\ new.open <=> servers[s].open
        /\ new.pc # "new" /\ new.pc # "gone"
    BY <2>2, <2>3
  <2>6. new.pc = "leaving" /\ new.open => clock > new.until
    BY <2>2, <2>3 DEF Over
  <2> QED BY <2>1, <2>3, <2>4, <2>5, <2>6, ServerStep
<1>10. ASSUME NEW s \in Sessions, Reply(s)
       PROVE  EInv'
  <2> DEFINE new == [servers[s] EXCEPT !.pc = "arming", !.packet = None]
  <2>1. servers' = [servers EXCEPT ![s] = new]
    BY <1>10 DEF Reply
  <2>2. /\ new \in Server /\ new.open = servers[s].open
        /\ new.until = servers[s].until /\ new.pc = "arming"
    BY <1>0 DEF Server
  <2> HIDE DEF new
  <2>3. answered' \subseteq Sessions
    BY <1>0, <1>10 DEF Reply, Matches
  <2>4. UNCHANGED <<clock, conn, token, expires>> /\ servers[s].pc # "new"
    BY <1>10 DEF Reply
  <2>5. /\ new.open <=> servers[s].open
        /\ new.pc # "new" /\ new.pc # "gone" /\ new.pc # "leaving"
    BY <2>2
  <2> QED BY <2>1, <2>2, <2>3, <2>4, <2>5, ServerStep
<1>11. ASSUME NEW s \in Sessions, Leave(s)
       PROVE  EInv'
  <2>1. CASE IsCurrent(s)
    <3>1. /\ conn' = None /\ token' = None /\ expires' = expires
          /\ clock' = clock /\ answered' = answered
          /\ servers' = [ConnClosed EXCEPT ![s].pc = "gone"]
      BY <1>11, <2>1 DEF Leave
    <3> DEFINE new == [ConnClosed[s] EXCEPT !.pc = "gone"]
    <3>2. servers' = [ConnClosed EXCEPT ![s] = new]
      BY <3>1
    <3>3. /\ new \in Server /\ new.open = FALSE /\ new.pc = "gone"
      <4>1. ConnClosed[s] \in Server /\ ConnClosed[s].open = FALSE
        BY ConnClosedFacts
      <4> HIDE DEF ConnClosed
      <4> QED BY <4>1 DEF Server
    <3> HIDE DEF new
    <3>4. /\ servers' \in [Sessions -> Server]
          /\ \A g \in Sessions : servers'[g].open = FALSE
      BY <3>2, <3>3, ConnClosedFacts
    <3>5. TypeOK'
      BY <1>0, <3>1, <3>4 DEF TypeOK, EInv
    <3>6. SocketsOwned' /\ LeavingLate'
      BY <3>1, <3>4, EchoConstants DEF SocketsOwned, LeavingLate
    <3> QED BY <3>5, <3>6 DEF EInv
  <2>2. CASE ~IsCurrent(s)
    <3> DEFINE new == [servers[s] EXCEPT !.pc = "gone"]
    <3>1. /\ servers' = [servers EXCEPT ![s] = new] /\ conn # s
          /\ UNCHANGED <<clock, conn, token, expires, answered>>
          /\ servers[s].pc = "leaving"
      BY <1>11, <2>2 DEF Leave, IsCurrent
    <3>2. /\ new \in Server /\ new.open = servers[s].open
          /\ new.until = servers[s].until /\ new.pc = "gone"
      BY <1>0 DEF Server
    <3> HIDE DEF new
    <3>3. /\ UNCHANGED <<clock, conn, token, expires>> /\ answered' \subseteq Sessions
          /\ new.open <=> servers[s].open
          /\ servers[s].pc # "new" /\ new.pc # "new" /\ new.pc # "leaving"
      BY <1>0, <3>1, <3>2
    <3> QED BY <3>1, <3>2, <3>3, ServerStep
  <2> QED BY <2>1, <2>2
<1>12. CASE UNCHANGED vars
  BY <1>12 DEF vars, EInv, TypeOK, SocketsOwned, LeavingLate
<1>13. Terms \subseteq Int /\ DefaultTerm \in Int
  BY EchoConstants
<1> QED
  BY <1>1, <1>4, <1>5, <1>6, <1>7, <1>8, <1>9, <1>10, <1>11, <1>12, <1>13
     DEF Next, FieldUDPStart, FieldAutoTest, Serve

LEMMA SpecEInv == Spec => []EInv
BY InitEInv, NextEInv, PTL DEF Spec

(* The manager's fields and the goroutines keep their types. *)
THEOREM TypeCorrect == Spec => []TypeOK
<1>1. EInv => TypeOK
  BY DEF EInv
<1> QED BY <1>1, SpecEInv, PTL

(* No socket leaks and none is closed behind the manager's back, however many
   sessions are started, stopped and left to expire. *)
THEOREM SocketsStayOwned == Spec => []SocketsOwned
<1>1. EInv => SocketsOwned
  BY DEF EInv
<1> QED BY <1>1, SpecEInv, PTL

(* A goroutine ends no session before its term. *)
THEOREM NeverEndedEarly == Spec => NoneEndedEarly
<1> DEFINE Cleans == \E s \in Sessions : servers[s].pc = "leaving" /\ servers'[s].pc = "gone"
<1>1. ASSUME EInv, [Next]_vars, Cleans, conn' # conn
      PROVE  clock > expires
  <2>0. /\ \A s \in Sessions : servers[s] \in Server
        /\ servers \in [Sessions -> Server]
    BY <1>1 DEF EInv, TypeOK
  <2>1. PICK s \in Sessions : servers[s].pc = "leaving" /\ servers'[s].pc = "gone"
    BY <1>1
  <2>2. CASE \E g \in Sessions : Leave(g)
    <3>1. PICK g \in Sessions : Leave(g)
      BY <2>2
    <3>2. conn = g /\ servers[g].pc = "leaving"
      BY <1>1, <3>1 DEF Leave, IsCurrent
    <3> QED BY <1>1, <3>2 DEF EInv, SocketsOwned, LeavingLate
  <2>3. CASE servers' = ConnClosed
    BY <1>1, <2>1, <2>3, ConnClosedFacts
  <2>4. ASSUME NEW g \in Sessions, NEW until, StartServes(g, until)
        PROVE  FALSE
    <3>1. servers' = [ConnClosed EXCEPT ![g] = NewServer("arming", TRUE, until)]
      BY <2>4 DEF StartServes
    <3>2. NewServer("arming", TRUE, until).pc = "arming"
      BY DEF NewServer
    <3>3. \A r \in Sessions : servers'[r].pc = "gone" => servers[r].pc = "gone"
      BY <1>1, <3>1, <3>2, ConnClosedFacts
    <3> QED BY <2>1, <3>3
  <2>5. CASE conn' = conn
    BY <1>1, <2>5
  <2> QED
    BY <1>1, <2>2, <2>3, <2>4, <2>5
       DEF Next, vars, Tick, FieldUDPStart, FieldAutoTest, Start, StartFails, Stop, Arrive,
           Serve, Arm, Receive, ReadFails, Reply
<1>2. EInv /\ [Next]_vars => [Cleans /\ conn' # conn => clock > expires]_vars
  BY <1>1
<1> QED BY <1>2, SpecEInv, PTL DEF Spec, NoneEndedEarly

-----------------------------------------------------------------------------
(* UdpEcho implements EchoSession: requests open and end sessions, the
   goroutines end expired ones and echo, and no other step shows. *)

LEMMA InitSession ==
    ASSUME Init
    PROVE  Session!Init
<1>1. \A s \in Sessions : servers[s].pc = "new" /\ servers[s].until = 0
  BY EchoConstants DEF Init, NewServer
<1> QED BY <1>1 DEF Init, Session!Init, PhaseMap, UntilMap

(* A step that leaves the connection, the goroutines that were ever started and
   their terms alone does not show. *)
LEMMA HiddenStep ==
    ASSUME conn' = conn,
           \A s \in Sessions : /\ servers'[s].pc = "new" <=> servers[s].pc = "new"
                               /\ servers'[s].until = servers[s].until
    PROVE  PhaseMap' = PhaseMap /\ UntilMap' = UntilMap
BY DEF PhaseMap, UntilMap

(* Closing the connection ends the open session. *)
LEMMA ClosingStep ==
    ASSUME EInv, conn' = None,
           \A s \in Sessions : /\ servers'[s].pc = "new" <=> servers[s].pc = "new"
                               /\ servers'[s].until = servers[s].until
    PROVE  PhaseMap' = Session!AllOver /\ UntilMap' = UntilMap
BY EchoConstants DEF EInv, SocketsOwned, PhaseMap, UntilMap, Session!AllOver

LEMMA NextSession ==
    ASSUME EInv, [Next]_vars
    PROVE  [Session!Next]_(Session!svars)
<1> USE DEF Session!svars
<1>0. /\ clock \in Nat /\ conn \in Sessions \cup {None}
      /\ \A s \in Sessions : servers[s] \in Server
      /\ servers \in [Sessions -> Server]
  BY DEF EInv, TypeOK
<1>1. CASE Tick
  BY <1>1, HiddenStep DEF Tick, Session!Next, Session!Tick
<1>2. CASE StartFails \/ Stop
  <2>1. PhaseMap' = Session!AllOver /\ UntilMap' = UntilMap
    BY <1>2, ClosingStep, ConnClosedFacts DEF StartFails, Stop
  <2> QED BY <1>2, <2>1 DEF StartFails, Stop, Session!Next, Session!End
<1>3. ASSUME NEW s \in Sessions, NEW term \in Int, StartServes(s, clock + Granted(term))
      PROVE  [Session!Next]_(Session!svars)
  <2> DEFINE until == clock + Granted(term)
  <2>1. /\ servers' = [ConnClosed EXCEPT ![s] = NewServer("arming", TRUE, until)]
        /\ conn' = s /\ servers[s].pc = "new" /\ clock' = clock /\ answered' = answered
    BY <1>3 DEF StartServes
  <2>2. NewServer("arming", TRUE, until).pc = "arming" /\ NewServer("arming", TRUE, until).until = until
    BY DEF NewServer
  <2> HIDE DEF until
  <2>3. /\ servers'[s].pc = "arming" /\ servers'[s].until = until
        /\ \A g \in Sessions : g # s => /\ servers'[g].pc = servers[g].pc
                                        /\ servers'[g].until = servers[g].until
    BY <2>1, <2>2, ConnClosedFacts
  <2>4. PhaseMap[s] = "new"
    BY <2>1 DEF PhaseMap
  <2>5. PhaseMap' = [Session!AllOver EXCEPT ![s] = "open"]
    BY <2>1, <2>3 DEF PhaseMap, Session!AllOver
  <2>6. UntilMap' = [UntilMap EXCEPT ![s] = until]
    BY <2>3 DEF UntilMap
  <2>7. \E length \in MinTerm..MaxTerm : UntilMap' = [UntilMap EXCEPT ![s] = clock + length]
    BY <2>6, GrantedType DEF until
  <2>8. Session!Open(s)
    BY <2>1, <2>4, <2>5, <2>7 DEF Session!Open
  <2> QED BY <2>8 DEF Session!Next
<1>4. ASSUME NEW t \in Sessions \cup {None}, Arrive(t)
      PROVE  [Session!Next]_(Session!svars)
  <2>1. \A g \in Sessions : /\ servers'[g].pc = servers[g].pc
                            /\ servers'[g].until = servers[g].until
    BY <1>0, <1>4 DEF Arrive, Server
  <2> QED BY <1>4, <2>1, HiddenStep DEF Arrive
<1>5. ASSUME NEW s \in Sessions, Arm(s) \/ Receive(s) \/ ReadFails(s)
      PROVE  [Session!Next]_(Session!svars)
  <2>1. \A g \in Sessions : /\ servers'[g].pc = "new" <=> servers[g].pc = "new"
                            /\ servers'[g].until = servers[g].until
    <3>1. CASE Arm(s)
      BY <1>0, <3>1 DEF Arm, Server
    <3>2. CASE Receive(s)
      BY <1>0, <3>2 DEF Receive, Server
    <3>3. CASE ReadFails(s)
      BY <1>0, <3>3 DEF ReadFails, Server
    <3> QED BY <1>5, <3>1, <3>2, <3>3
  <2> QED BY <1>5, <2>1, HiddenStep DEF Arm, Receive, ReadFails
<1>6. ASSUME NEW s \in Sessions, Reply(s)
      PROVE  [Session!Next]_(Session!svars)
  <2>1. \A g \in Sessions : /\ servers'[g].pc = "new" <=> servers[g].pc = "new"
                            /\ servers'[g].until = servers[g].until
    BY <1>0, <1>6 DEF Reply, Server
  <2>2. PhaseMap' = PhaseMap /\ UntilMap' = UntilMap /\ clock' = clock
    BY <1>6, <2>1, HiddenStep DEF Reply
  <2>3. CASE Matches(s) /\ servers[s].open
    <3>1. PhaseMap[s] = "open"
      BY <1>6, <2>3 DEF Reply, EInv, SocketsOwned, PhaseMap
    <3>2. answered' = answered \cup {s}
      BY <1>6, <2>3 DEF Reply, Matches
    <3> QED BY <2>2, <3>1, <3>2 DEF Session!Next, Session!Echo
  <2>4. CASE ~(Matches(s) /\ servers[s].open)
    BY <1>6, <2>2, <2>4 DEF Reply
  <2> QED BY <2>3, <2>4
<1>7. ASSUME NEW s \in Sessions, Leave(s)
      PROVE  [Session!Next]_(Session!svars)
  <2>1. \A g \in Sessions : /\ servers'[g].pc = "new" <=> servers[g].pc = "new"
                            /\ servers'[g].until = servers[g].until
    <3>1. CASE IsCurrent(s)
      <4>1. servers' = [ConnClosed EXCEPT ![s].pc = "gone"] /\ servers[s].pc = "leaving"
        BY <1>7, <3>1 DEF Leave
      <4> HIDE DEF ConnClosed
      <4>2. ConnClosed \in [Sessions -> Server] /\ ConnClosed[s] \in Server
        BY ConnClosedFacts
      <4> QED BY <4>1, <4>2, ConnClosedFacts DEF Server
    <3>2. CASE ~IsCurrent(s)
      BY <1>0, <1>7, <3>2 DEF Leave, Server
    <3> QED BY <3>1, <3>2
  <2>2. CASE IsCurrent(s)
    <3>1. PhaseMap' = Session!AllOver /\ UntilMap' = UntilMap
      BY <1>7, <2>1, <2>2, ClosingStep DEF Leave
    <3> QED BY <1>7, <2>2, <3>1 DEF Leave, Session!Next, Session!End
  <2>3. CASE ~IsCurrent(s)
    BY <1>7, <2>1, <2>3, HiddenStep DEF Leave
  <2> QED BY <2>2, <2>3
<1>8. CASE UNCHANGED vars
  BY <1>8 DEF vars, PhaseMap, UntilMap
<1>9. Terms \subseteq Int /\ DefaultTerm \in Int
  BY EchoConstants
<1> QED
  BY <1>1, <1>2, <1>3, <1>4, <1>5, <1>6, <1>7, <1>8, <1>9
     DEF Next, FieldUDPStart, FieldAutoTest, Start, Serve

(* The service implements its promise for any sessions, terms and datagrams. *)
THEOREM EchoImplementsSession == Spec => ImplementsSession
<1>1. Init => Session!Init
  BY InitSession
<1>2. EInv /\ [Next]_vars => [Session!Next]_(Session!svars)
  BY NextSession
<1> QED BY <1>1, <1>2, SpecEInv, PTL DEF Spec, ImplementsSession, Session!Spec
=============================================================================
