------------------------------ MODULE UdpEcho -------------------------------
(***************************************************************************)
(* The UDP echo service of internal/agent/field_api.go: a manager guarded  *)
(* by a mutex, and one goroutine per session that was ever started, which  *)
(* reads the session's socket without the mutex and takes it to clean up.  *)
(*                                                                         *)
(* A session stands for its token, its socket and its goroutine.  What is  *)
(* done under the mutex is one step: the goroutines see of it only whether *)
(* their socket is closed.  The clock counts seconds, the poll interval of *)
(* the goroutines, and a datagram is the token it carries.  The parent     *)
(* context is context.Background(), which never ends.                      *)
(***************************************************************************)
EXTENDS Integers, FiniteSets

CONSTANTS
    Sessions,     \* the sessions that may be started
    Terms,        \* the durations a request may ask for, in seconds
    MinTerm,      \* 30 seconds
    MaxTerm,      \* 10 minutes
    DefaultTerm,  \* 2 minutes
    InboxSize,    \* the datagrams a socket buffers; more are dropped
    MaxTime,      \* bound on the clock: no session is started that outlives it
    None          \* no connection, no token

ASSUME EchoConstants ==
    /\ Terms \subseteq Int
    /\ MinTerm \in Nat /\ MaxTerm \in Nat /\ DefaultTerm \in MinTerm..MaxTerm
    /\ MaxTime \in Nat /\ InboxSize \in Nat
    /\ None \notin Sessions

VARIABLES
    clock,
    conn, token, expires,  \* the fields of udpEchoManager
    servers,               \* per session, its goroutine and its socket
    answered               \* the tokens that were echoed at least once

vars == <<clock, conn, token, expires, servers, answered>>

(* inbox is the socket's receive buffer, packet the datagram just read. *)
Server == [pc : {"new", "arming", "reading", "lapsed", "replying", "leaving", "gone"},
           open : BOOLEAN, until : Nat, deadline : Nat,
           inbox : SUBSET (Sessions \cup {None}), packet : Sessions \cup {None}]

NewServer(pc, open, until) ==
    [pc |-> pc, open |-> open, until |-> until, deadline |-> 0, inbox |-> {}, packet |-> None]

Init ==
    /\ clock = 0
    /\ conn = None /\ token = None /\ expires = 0
    /\ servers = [s \in Sessions |-> NewServer("new", FALSE, 0)]
    /\ answered = {}

Tick ==
    /\ clock < MaxTime /\ clock' = clock + 1
    /\ UNCHANGED <<conn, token, expires, servers, answered>>

-----------------------------------------------------------------------------
(* The manager, called by the request handlers. *)

GrantedAsAsked(term) == term
Granted(term) == IF term < MinTerm \/ term > MaxTerm THEN DefaultTerm ELSE term

(* m.conn.Close(), if there is one: its goroutine's read fails from now on. *)
ConnLeftOpen == servers
ConnClosed == [s \in Sessions |-> IF s = conn THEN [servers[s] EXCEPT !.open = FALSE, !.inbox = {}]
                                  ELSE servers[s]]

(* No random bytes, or the port is taken: the old session is closed all the
   same, and its token and expiry stay behind. *)
StartFails ==
    /\ conn' = None /\ servers' = ConnClosed
    /\ UNCHANGED <<clock, token, expires, answered>>

StartServes(s, until) ==
    /\ servers[s].pc = "new"
    /\ conn' = s /\ token' = s /\ expires' = until
    /\ servers' = [ConnClosed EXCEPT ![s] = NewServer("arming", TRUE, until)]
    /\ UNCHANGED <<clock, answered>>

Start(term) ==
    \/ StartFails
    \/ \E s \in Sessions :
          clock + Granted(term) < MaxTime /\ StartServes(s, clock + Granted(term))

Stop ==
    /\ conn' = None /\ token' = None /\ expires' = 0
    /\ servers' = ConnClosed
    /\ UNCHANGED <<clock, answered>>

(* The requests that start a session. *)
FieldUDPStart == \E term \in Terms : Start(term)
FieldAutoTest == Start(DefaultTerm)

-----------------------------------------------------------------------------
(* A datagram with the token of a session known to some client, or with none,
   reaches the port.  One that never arrives needs no step. *)
Arrive(t) ==
    /\ conn # None /\ Cardinality(servers[conn].inbox) < InboxSize
    /\ t # None => servers[t].pc # "new"
    /\ servers' = [servers EXCEPT ![conn].inbox = @ \cup {t}]
    /\ UNCHANGED <<clock, conn, token, expires, answered>>

-----------------------------------------------------------------------------
(* The goroutine of session s: serve. *)

(* SetReadDeadline: one second from now, but no later than the expiry.  With a
   deadline that has passed already the read fails at once.  The deadline is
   forgotten with the read it is for. *)
Arm(s) ==
    /\ servers[s].pc = "arming"
    /\ LET deadline == IF servers[s].until < clock + 1 THEN servers[s].until ELSE clock + 1
       IN  servers' = [servers EXCEPT ![s].pc = IF deadline > clock THEN "reading" ELSE "lapsed",
                                      ![s].deadline = deadline]
    /\ UNCHANGED <<clock, conn, token, expires, answered>>

Receive(s) ==
    /\ servers[s].pc = "reading" /\ servers[s].open
    /\ \E t \in servers[s].inbox :
          servers' = [servers EXCEPT ![s].pc = "replying", ![s].deadline = 0,
                                     ![s].packet = t, ![s].inbox = @ \ {t}]
    /\ UNCHANGED <<clock, conn, token, expires, answered>>

(* Why the loop ends at a failed read. *)
NeverOver(s) == ~servers[s].open
Over(s) == ~servers[s].open \/ clock > servers[s].until

(* The read fails: the socket is closed, the deadline has passed or the system
   reports an error of another kind. *)
ReadFails(s) ==
    /\ servers[s].pc \in {"reading", "lapsed"}
    /\ servers' = [servers EXCEPT ![s].pc = IF Over(s) THEN "leaving" ELSE "arming",
                                  ![s].deadline = 0]
    /\ UNCHANGED <<clock, conn, token, expires, answered>>

(* Echo a datagram that carries this session's token; on a socket that was
   closed since, the write fails and nothing is sent. *)
AnyToken(s) == servers[s].packet # None
Matches(s) == servers[s].packet = s

Reply(s) ==
    /\ servers[s].pc = "replying"
    /\ servers' = [servers EXCEPT ![s].pc = "arming", ![s].packet = None]
    /\ answered' = IF Matches(s) /\ servers[s].open THEN answered \cup {servers[s].packet}
                   ELSE answered
    /\ UNCHANGED <<clock, conn, token, expires>>

(* The clean-up, unless a newer session has taken over. *)
MayClean(s) == TRUE
IsCurrent(s) == conn = s

Leave(s) ==
    /\ servers[s].pc = "leaving"
    /\ IF IsCurrent(s)
       THEN /\ conn' = None /\ token' = None
            /\ servers' = [ConnClosed EXCEPT ![s].pc = "gone"]
       ELSE /\ servers' = [servers EXCEPT ![s].pc = "gone"]
            /\ UNCHANGED <<conn, token>>
    /\ UNCHANGED <<clock, expires, answered>>

Serve(s) == Arm(s) \/ Receive(s) \/ ReadFails(s) \/ Reply(s) \/ Leave(s)

-----------------------------------------------------------------------------
Next ==
    \/ Tick
    \/ FieldUDPStart
    \/ FieldAutoTest
    \/ Stop
    \/ \E t \in Sessions \cup {None} : Arrive(t)
    \/ \E s \in Sessions : Serve(s)

Spec == Init /\ [][Next]_vars

(* Time passes and the Go scheduler runs every goroutine that can run; a read
   whose deadline has passed or whose socket is closed returns. *)
ReadMustFail(s) == ~servers[s].open \/ clock >= servers[s].deadline

Runs(s) ==
    \/ Arm(s) \/ Reply(s) \/ Leave(s)
    \/ ReadFails(s) /\ ReadMustFail(s)

FairSpec == Spec /\ WF_vars(Tick) /\ \A s \in Sessions : WF_vars(Runs(s))

-----------------------------------------------------------------------------
(* The properties. *)

(* The type of the manager's fields and of the goroutines. *)
TypeOK ==
    /\ clock \in Nat
    /\ conn \in Sessions \cup {None} /\ token \in Sessions \cup {None} /\ expires \in Nat
    /\ servers \in [Sessions -> Server]
    /\ answered \subseteq Sessions

(* No socket leaks and none is closed behind the manager's back: a socket is
   open exactly when the manager holds it, the manager's token and expiry are
   then those its goroutine checks, and a goroutine that is gone, or was never
   started, left no socket open. *)
SocketsOwned ==
    \A s \in Sessions :
       /\ servers[s].open <=> conn = s
       /\ conn = s => /\ token = s /\ expires = servers[s].until
                      /\ servers[s].pc \notin {"new", "gone"}

PhaseMap ==
    [s \in Sessions |-> IF servers[s].pc = "new" THEN "new"
                        ELSE IF conn = s THEN "open" ELSE "over"]
UntilMap == [s \in Sessions |-> servers[s].until]

Session == INSTANCE EchoSession WITH phase <- PhaseMap, until <- UntilMap

(* A goroutine that cleans up ends no session before its term: neither its
   own, nor one started while it waited for the mutex. *)
NoneEndedEarly ==
    [][(\E s \in Sessions : servers[s].pc = "leaving" /\ servers'[s].pc = "gone") /\ conn' # conn
           => clock > expires]_vars

(* The service implements its promise: one session at a time, whose term is
   within the limits whatever was asked for, which never comes back, and whose
   token is echoed only while it is open. *)
ImplementsSession == Session!Spec

(* Nobody has to stop a session: it ends, and its goroutine with it. *)
SessionsEnd ==
    \A s \in Sessions : servers[s].pc = "arming" ~> servers[s].pc = "gone" /\ conn # s
=============================================================================
