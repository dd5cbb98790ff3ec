-------------------------- MODULE AlertStoreProofs --------------------------
(***************************************************************************)
(* What AlertStore promises for any set of alerts, any number of           *)
(* concurrent passes and any values of the limits and terms, and that it   *)
(* implements AlertLifecycle: every statement of every request maps to a   *)
(* step of the life cycle or to none.                                      *)
(***************************************************************************)
EXTENDS AlertStore, TLAPS

(* A pass never runs ahead of the clock: the "now" it stamps rows with and
   compares suppressions with may be stale, it is never from the future. *)
NowReached ==
    /\ clock <= MaxTime
    /\ \A h \in Handlers : pass[h].now <= clock

IInv == TypeOK /\ RowsConsistent /\ NowReached

-----------------------------------------------------------------------------
(* The single-row statements preserve the type of a row. *)

LEMMA UpsertedType ==
    ASSUME NEW r \in Row \cup {NoRow}, NEW t \in Nat
    PROVE  Upserted(r, t) \in Row
BY AlertConstants
   DEF Upserted, FreshRow, AckAfter, ActiveAfter, ClearedAfter, FirstSeenAfter,
       Suppressed, Row, Stamp

LEMMA SweptType ==
    ASSUME NEW r \in Row, NEW t \in Nat
    PROVE  Swept(r, t) \in Row
BY DEF Swept, Stamped, Row, Stamp

LEMMA OperatorTypes ==
    ASSUME NEW r \in Row, NEW t \in Nat, NEW u \in Nat
    PROVE  /\ Acknowledged(r) \in Row
           /\ SuppressedUntil(r, u) \in Row
           /\ Closed(r, t) \in Row
BY AlertConstants
   DEF Acknowledged, SuppressedUntil, Closed, Stamped, Row, Stamp

-----------------------------------------------------------------------------
(* The single-row statements preserve the agreement of the columns. *)

(* An upsert with a stale reading t of the clock. *)
LEMMA UpsertedConsistent ==
    ASSUME NEW r \in Row \cup {NoRow}, NEW t \in Nat, NEW now \in Nat, t <= now,
           r # NoRow => Consistent(r, now)
    PROVE  Consistent(Upserted(r, t), now)
<1>1. CASE r = NoRow
  BY <1>1 DEF Upserted, FreshRow, Consistent, Suppressed
<1>2. CASE r # NoRow
  <2> r \in Row /\ Consistent(r, now)
    BY <1>2
  <2>1. CASE Suppressed(r, t)
    BY <1>2, <2>1, AlertConstants
       DEF Upserted, AckAfter, ActiveAfter, ClearedAfter, FirstSeenAfter, Consistent,
           Suppressed, Row, Stamp
  <2>2. CASE ~Suppressed(r, t)
    <3> DEFINE s == Upserted(r, t)
    <3>1. /\ s.active /\ s.state # "closed" /\ s.cleared = NoTime /\ s.until = r.until
          /\ s.acked <=> r.active /\ r.acked
          /\ s.ackedAt <=> r.active /\ r.ackedAt
      BY <1>2, <2>2 DEF Upserted, AckAfter, ActiveAfter, ClearedAfter
    <3>2. ~Suppressed(s, now)
      BY <2>2, <3>1, AlertConstants DEF Suppressed, Row, Stamp
    <3>3. r.acked <=> r.ackedAt
      BY DEF Consistent
    <3>4. Consistent(s, now)
      <4> HIDE DEF s
      <4> QED BY <3>1, <3>2, <3>3 DEF Consistent
    <3> QED BY <3>4
  <2> QED BY <2>1, <2>2
<1> QED BY <1>1, <1>2

LEMMA SweptConsistent ==
    ASSUME NEW r \in Row, NEW t \in Nat, NEW now \in Nat, Consistent(r, now)
    PROVE  Consistent(Swept(r, t), now)
BY AlertConstants DEF Swept, Stamped, Consistent, Suppressed, Row, Stamp

LEMMA OperatorConsistent ==
    ASSUME NEW r \in Row, NEW t \in Nat, NEW u \in Nat, Consistent(r, t)
    PROVE  /\ Consistent(Acknowledged(r), t)
           /\ Consistent(SuppressedUntil(r, u), t)
           /\ Consistent(Closed(r, u), t)
BY AlertConstants
   DEF Acknowledged, SuppressedUntil, Closed, Stamped, Consistent, Suppressed, Row, Stamp

(* Columns that agree now agree later: suppressions only run out. *)
LEMMA ConsistentLater ==
    ASSUME NEW r \in Row, NEW t \in Nat, NEW u \in Nat, t <= u, Consistent(r, t)
    PROVE  Consistent(r, u)
BY DEF Consistent, Suppressed, Row, Stamp

-----------------------------------------------------------------------------
LEMMA InitIInv == Init => IInv
BY AlertConstants
   DEF Init, IInv, TypeOK, RowsConsistent, NowReached, IdlePass, Locals, Pass

(* Replacing one row by a well-typed and consistent one. *)
LEMMA RowStep ==
    ASSUME IInv, NEW a \in Alerts, NEW r \in Row \cup {NoRow},
           r # NoRow => Consistent(r, clock),
           rows' = [rows EXCEPT ![a] = r], clock' = clock
    PROVE  /\ rows' \in [Alerts -> Row \cup {NoRow}]
           /\ RowsConsistent'
BY DEF IInv, TypeOK, RowsConsistent

(* A step of a handler that only moves its own locals. *)
LEMMA PassOnlyStep ==
    ASSUME IInv, NEW h \in Handlers, NEW p \in Pass, p.now <= clock,
           pass' = [pass EXCEPT ![h] = p], clock' = clock
    PROVE  pass' \in [Handlers -> Pass] /\ NowReached'
BY DEF IInv, TypeOK, NowReached

LEMMA NextIInv == IInv /\ [Next]_vars => IInv'
<1> SUFFICES ASSUME IInv, [Next]_vars PROVE IInv'
  OBVIOUS
<1> USE DEF IInv
<1>0. /\ clock \in Nat /\ NoRow \notin Row
      /\ \A a \in Alerts : rows[a] \in Row \cup {NoRow}
      /\ \A a \in Alerts : rows[a] # NoRow => rows[a] \in Row /\ Consistent(rows[a], clock)
      /\ \A h \in Handlers : pass[h] \in Pass /\ pass[h].now <= clock
      /\ IdlePass \in Pass
  BY AlertConstants DEF TypeOK, RowsConsistent, NowReached, IdlePass, Locals, Pass
<1>1. ASSUME NEW h \in Handlers, NEW holding \in SUBSET Alerts, Observe(h, holding)
      PROVE  IInv'
  <2>0. /\ \A P \in FromPrometheus(holding) : P \subseteq Alerts
        /\ \A D \in FromDevices(holding) : D \subseteq Alerts
        /\ \A E \in FromExpectations(holding) : E \subseteq Alerts
        /\ From("internal", holding) \subseteq Alerts
    BY DEF From, FromPrometheus, FromDevices, FromExpectations
  <2>d. \A X \in SUBSET Alerts : Deduped(X) \subseteq SUBSET Alerts
    BY DEF Deduped
  <2>1. PICK S \in SUBSET Alerts : pass' = [pass EXCEPT ![h] = Locals("observed", S, 0, {}, {})]
    BY <1>1, <2>0, <2>d DEF Observe
  <2>2. Locals("observed", S, 0, {}, {}) \in Pass /\ Locals("observed", S, 0, {}, {}).now <= clock
    <3>1. clock \in Nat /\ pass[h] \in Pass
      BY <1>0
    <3> QED BY <3>1 DEF Locals, Pass
  <2>3. clock' = clock /\ rows' = rows
    BY <1>1 DEF Observe
  <2> QED BY <2>1, <2>2, <2>3, PassOnlyStep DEF TypeOK, RowsConsistent
<1>2. ASSUME NEW h \in Handlers, StartUpsert(h)
      PROVE  IInv'
  <2>1. pass' = [pass EXCEPT ![h] = Locals("upserting", pass[h].snap, clock, pass[h].snap, {})]
    BY <1>2 DEF StartUpsert
  <2>2. Locals("upserting", pass[h].snap, clock, pass[h].snap, {}) \in Pass /\ Locals("upserting", pass[h].snap, clock, pass[h].snap, {}).now <= clock
    <3>1. clock \in Nat /\ pass[h] \in Pass
      BY <1>0
    <3> QED BY <3>1 DEF Locals, Pass
  <2>3. clock' = clock /\ rows' = rows
    BY <1>2 DEF StartUpsert
  <2> QED BY <2>1, <2>2, <2>3, PassOnlyStep DEF TypeOK, RowsConsistent
<1>3. ASSUME NEW h \in Handlers, UpsertOne(h)
      PROVE  IInv'
  <2>1. PICK a \in pass[h].todo :
           /\ rows' = [rows EXCEPT ![a] = Upserted(rows[a], pass[h].now)]
           /\ pass' = [pass EXCEPT ![h].todo = pass[h].todo \ {a}]
    BY <1>3 DEF UpsertOne
  <2>2. a \in Alerts /\ pass[h].now \in Nat
    BY <1>0 DEF Pass
  <2> DEFINE p == [pass[h] EXCEPT !.todo = pass[h].todo \ {a}]
  <2>3. p \in Pass /\ p.now <= clock
    BY <1>0 DEF Pass
  <2>4. pass' = [pass EXCEPT ![h] = p] /\ clock' = clock
    BY <1>3, <2>1 DEF UpsertOne, TypeOK
  <2>5. /\ Upserted(rows[a], pass[h].now) \in Row
        /\ Consistent(Upserted(rows[a], pass[h].now), clock)
    BY <1>0, <2>2, UpsertedType, UpsertedConsistent
  <2>6. pass' \in [Handlers -> Pass] /\ NowReached'
    BY <2>3, <2>4, PassOnlyStep
  <2>7. rows' \in [Alerts -> Row \cup {NoRow}] /\ RowsConsistent'
    BY <2>1, <2>2, <2>4, <2>5, RowStep
  <2> QED BY <2>4, <2>6, <2>7, <1>0 DEF TypeOK
<1>4. ASSUME NEW h \in Handlers, SweepAll(h)
      PROVE  IInv'
  <2> DEFINE p == [pass[h] EXCEPT !.pc = "answering"]
  <2>1. p \in Pass /\ p.now <= clock
    BY <1>0 DEF Pass
  <2>2. pass' = [pass EXCEPT ![h] = p] /\ clock' = clock
    BY <1>4 DEF SweepAll, TypeOK
  <2>3. pass[h].now \in Nat
    BY <1>0 DEF Pass
  <2>4. \A a \in Alerts : rows[a] # NoRow =>
           Swept(rows[a], pass[h].now) \in Row /\ Consistent(Swept(rows[a], pass[h].now), clock)
    BY <1>0, <2>3, SweptType, SweptConsistent
  <2>5. rows' \in [Alerts -> Row \cup {NoRow}] /\ RowsConsistent'
    BY <1>0, <1>4, <2>2, <2>4 DEF SweepAll, RowsConsistent
  <2> QED BY <1>0, <2>1, <2>2, <2>5, PassOnlyStep DEF TypeOK
<1>5. ASSUME NEW h \in Handlers, SelectStale(h)
      PROVE  IInv'
  <2>1. PICK T \in SUBSET Alerts :
           pass' = [pass EXCEPT ![h].pc = "sweeping", ![h].todo = T \ pass[h].snap]
    BY <1>5 DEF SelectStale, Limited, SweepableRows
  <2> DEFINE p == [pass[h] EXCEPT !.pc = "sweeping", !.todo = T \ pass[h].snap]
  <2>2. p \in Pass /\ p.now <= clock
    BY <1>0 DEF Pass
  <2>3. pass' = [pass EXCEPT ![h] = p] /\ clock' = clock /\ rows' = rows
    BY <1>0, <1>5, <2>1 DEF SelectStale, TypeOK, Pass
  <2> QED BY <2>2, <2>3, PassOnlyStep DEF TypeOK, RowsConsistent
<1>6. ASSUME NEW h \in Handlers, SweepOne(h)
      PROVE  IInv'
  <2>1. PICK a \in pass[h].todo :
           /\ rows' = [rows EXCEPT ![a] = IF rows[a] = NoRow THEN NoRow
                                          ELSE Swept(rows[a], pass[h].now)]
           /\ pass' = [pass EXCEPT ![h].todo = pass[h].todo \ {a}]
    BY <1>6 DEF SweepOne
  <2>2. a \in Alerts /\ pass[h].now \in Nat
    BY <1>0 DEF Pass
  <2> DEFINE p == [pass[h] EXCEPT !.todo = pass[h].todo \ {a}]
             r == IF rows[a] = NoRow THEN NoRow ELSE Swept(rows[a], pass[h].now)
  <2>3. p \in Pass /\ p.now <= clock
    BY <1>0 DEF Pass
  <2>4. pass' = [pass EXCEPT ![h] = p] /\ clock' = clock
    BY <1>6, <2>1 DEF SweepOne, TypeOK
  <2>5. r \in Row \cup {NoRow} /\ (r # NoRow => Consistent(r, clock))
    BY <1>0, <2>2, SweptType, SweptConsistent
  <2>6. pass' \in [Handlers -> Pass] /\ NowReached'
    BY <2>3, <2>4, PassOnlyStep
  <2>7. rows' \in [Alerts -> Row \cup {NoRow}] /\ RowsConsistent'
    BY <2>1, <2>2, <2>4, <2>5, RowStep
  <2> QED BY <2>4, <2>6, <2>7, <1>0 DEF TypeOK
<1>7. ASSUME NEW h \in Handlers, Answer(h)
      PROVE  IInv'
  <2>1. PICK S \in SUBSET Alerts : pass' = [pass EXCEPT ![h] = Locals("done", {}, 0, {}, S)]
    BY <1>7 DEF Answer, Limited, Deduped
  <2>2. Locals("done", {}, 0, {}, S) \in Pass /\ Locals("done", {}, 0, {}, S).now <= clock
    <3>1. clock \in Nat /\ pass[h] \in Pass
      BY <1>0
    <3> QED BY <3>1 DEF Locals, Pass
  <2>3. clock' = clock /\ rows' = rows
    BY <1>7 DEF Answer
  <2> QED BY <2>1, <2>2, <2>3, PassOnlyStep DEF TypeOK, RowsConsistent
<1>8. ASSUME NEW h \in Handlers, Fail(h)
      PROVE  IInv'
  <2>1. IdlePass.now <= clock
    BY <1>0 DEF IdlePass, Locals
  <2> QED BY <1>0, <1>8, <2>1, PassOnlyStep DEF Fail, TypeOK, RowsConsistent
<1>9. ASSUME NEW a \in Alerts, Acknowledge(a) \/ Suppress(a) \/ Close(a)
      PROVE  IInv'
  <2>1. rows[a] \in Row /\ Consistent(rows[a], clock) /\ clock' = clock /\ pass' = pass
    BY <1>0, <1>9 DEF Acknowledge, Suppress, Close
  <2>2. PICK r \in Row : Consistent(r, clock) /\ rows' = [rows EXCEPT ![a] = r]
    <3>1. CASE Acknowledge(a)
      BY <1>0, <2>1, <3>1, OperatorTypes, OperatorConsistent DEF Acknowledge
    <3>2. CASE Suppress(a)
      <4>1. PICK d \in HideSpans :
               rows' = [rows EXCEPT ![a] = SuppressedUntil(rows[a], clock + d)]
        BY <3>2 DEF Suppress
      <4>2. clock + d \in Nat
        BY <1>0, AlertConstants
      <4> QED BY <1>0, <2>1, <4>1, <4>2, OperatorTypes, OperatorConsistent
    <3>3. CASE Close(a)
      <4>1. PICK t \in 0..clock : rows' = [rows EXCEPT ![a] = Closed(rows[a], t)]
        BY <3>3 DEF Close
      <4>2. t \in Nat /\ clock \in Nat
        BY <1>0
      <4> QED BY <2>1, <4>1, <4>2, OperatorTypes, OperatorConsistent
    <3> QED BY <1>9, <3>1, <3>2, <3>3
  <2>3. rows' \in [Alerts -> Row \cup {NoRow}] /\ RowsConsistent'
    BY <2>1, <2>2, RowStep
  <2> QED BY <2>1, <2>3 DEF TypeOK, NowReached
<1>10. ASSUME Cleanup
       PROVE  IInv'
  BY <1>0, <1>10 DEF Cleanup, TypeOK, RowsConsistent, NowReached
<1>11. ASSUME Tick
       PROVE  IInv'
  <2>1. clock' = clock + 1 /\ rows' = rows /\ pass' = pass
    BY <1>11 DEF Tick
  <2>2. RowsConsistent'
    BY <1>0, <2>1, ConsistentLater DEF RowsConsistent
  <2>3. NowReached'
    BY <1>0, <1>11, <2>1, AlertConstants DEF Tick, NowReached, Pass
  <2> QED BY <1>0, <2>1, <2>2, <2>3 DEF TypeOK
<1>12. ASSUME UNCHANGED vars
       PROVE  IInv'
  BY <1>12 DEF vars, TypeOK, RowsConsistent, NowReached
<1> QED
  BY <1>1, <1>2, <1>3, <1>4, <1>5, <1>6, <1>7, <1>8, <1>9, <1>10, <1>11, <1>12
  DEF Next, Step, PassStep

(* The table and the locals keep their types whatever interleaves. *)
THEOREM TypeCorrect == Spec => []TypeOK
<1>1. Spec => []IInv
  BY InitIInv, NextIInv, PTL DEF Spec
<1>2. IInv => TypeOK
  BY DEF IInv
<1> QED BY <1>1, <1>2, PTL

(* No interleaving of passes and requests leaves a row whose columns disagree. *)
THEOREM RowsStayConsistent == Spec => []RowsConsistent
<1>1. Spec => []IInv
  BY InitIInv, NextIInv, PTL DEF Spec
<1>2. IInv => RowsConsistent
  BY DEF IInv
<1> QED BY <1>1, <1>2, PTL

-----------------------------------------------------------------------------
(* What each single-row statement does to the status of its row. *)

(* An upsert, possibly with a stale reading t of the clock, opens an alert
   that is absent or cleared and leaves every other one as it is. *)
LEMMA UpsertedStatus ==
    ASSUME NEW r \in Row \cup {NoRow}, NEW t \in Nat, NEW now \in Nat, t <= now,
           r # NoRow => Consistent(r, now)
    PROVE  \/ StatusOf(Upserted(r, t), now) = StatusOf(r, now)
           \/ /\ StatusOf(r, now) \in {"none", "cleared"}
              /\ StatusOf(Upserted(r, t), now) = "open"
<1> DEFINE s == Upserted(r, t)
<1>0. s \in Row /\ s # NoRow
  BY UpsertedType, AlertConstants
<1>1. CASE r = NoRow
  BY <1>1, <1>0 DEF StatusOf, Upserted, FreshRow, Suppressed
<1>2. CASE r # NoRow /\ (r.active \/ Suppressed(r, t))
  <2>1. r \in Row
    BY <1>2
  <2>2. /\ s.active <=> r.active
        /\ r.active => (s.acked <=> r.acked)
        /\ s.until = r.until
    BY <1>2, <2>1
       DEF Upserted, AckAfter, ActiveAfter, Row
  <2>3. Suppressed(s, now) <=> Suppressed(r, now)
    BY <2>2 DEF Suppressed
  <2> HIDE DEF s
  <2>4. StatusOf(s, now) = StatusOf(r, now)
    BY <1>0, <1>2, <2>2, <2>3 DEF StatusOf
  <2> QED BY <2>4 DEF s
<1>3. CASE r # NoRow /\ ~r.active /\ ~Suppressed(r, t)
  <2>1. r \in Row
    BY <1>3
  <2>2. s.active /\ ~s.acked /\ s.until = r.until
    BY <1>3, <2>1 DEF Upserted, AckAfter, ActiveAfter, Row
  <2>3. ~Suppressed(r, now)
    BY <1>3, <2>1, AlertConstants DEF Suppressed, Row, Stamp
  <2>4. ~Suppressed(s, now)
    BY <2>2, <2>3 DEF Suppressed
  <2> HIDE DEF s
  <2>5. StatusOf(r, now) = "cleared" /\ StatusOf(s, now) = "open"
    BY <1>0, <1>3, <2>2, <2>3, <2>4 DEF StatusOf
  <2> QED BY <2>5 DEF s
<1> QED BY <1>1, <1>2, <1>3

(* A sweep clears an active alert, hides a muted one and leaves the others. *)
LEMMA SweptStatus ==
    ASSUME NEW r \in Row, NEW t \in Nat, NEW now \in Nat
    PROVE  /\ ~r.active => StatusOf(Swept(r, t), now) = StatusOf(r, now)
           /\ r.active => /\ StatusOf(r, now) \in Lifecycle!Active
                          /\ StatusOf(Swept(r, t), now) = Lifecycle!SweptTo[StatusOf(r, now)]
<1> DEFINE s == Swept(r, t)
<1>1. s \in Row /\ s # NoRow /\ r # NoRow
  BY SweptType, AlertConstants
<1>2. ~s.active /\ s.until = r.until
  BY DEF Swept, Row
<1>3. Suppressed(s, now) <=> Suppressed(r, now)
  BY <1>2 DEF Suppressed
<1> HIDE DEF s
<1>4. StatusOf(s, now) = IF Suppressed(r, now) THEN "hidden" ELSE "cleared"
  BY <1>1, <1>2, <1>3 DEF StatusOf
<1>5. /\ ~r.active => StatusOf(r, now) = IF Suppressed(r, now) THEN "hidden" ELSE "cleared"
      /\ r.active => /\ StatusOf(r, now) \in Lifecycle!Active
                     /\ StatusOf(r, now) = "muted" <=> Suppressed(r, now)
  BY <1>1 DEF StatusOf, Lifecycle!Active
<1>6. StatusOf(r, now) \in Lifecycle!Active =>
         Lifecycle!SweptTo[StatusOf(r, now)] = IF StatusOf(r, now) = "muted" THEN "hidden" ELSE "cleared"
  BY DEF Lifecycle!SweptTo
<1>7. /\ ~r.active => StatusOf(s, now) = StatusOf(r, now)
      /\ r.active => /\ StatusOf(r, now) \in Lifecycle!Active
                     /\ StatusOf(s, now) = Lifecycle!SweptTo[StatusOf(r, now)]
  BY <1>4, <1>5, <1>6
<1> QED BY <1>7 DEF s

LEMMA AcknowledgedStatus ==
    ASSUME NEW r \in Row, NEW now \in Nat, Consistent(r, now)
    PROVE  \/ StatusOf(Acknowledged(r), now) = StatusOf(r, now)
           \/ StatusOf(r, now) = "open" /\ StatusOf(Acknowledged(r), now) = "acknowledged"
<1> DEFINE s == Acknowledged(r)
<1>1. s \in Row /\ s # NoRow /\ r # NoRow
  BY OperatorTypes, AlertConstants
<1>2. s.acked /\ (s.active <=> r.active) /\ s.until = r.until
  BY DEF Acknowledged, Row
<1>3. Suppressed(s, now) <=> Suppressed(r, now)
  BY <1>2 DEF Suppressed
<1> HIDE DEF s
<1>4. \/ StatusOf(s, now) = StatusOf(r, now)
      \/ StatusOf(r, now) = "open" /\ StatusOf(s, now) = "acknowledged"
  BY <1>1, <1>2, <1>3 DEF StatusOf
<1> QED BY <1>4 DEF s

LEMMA SuppressedStatus ==
    ASSUME NEW r \in Row, NEW now \in Nat, NEW u \in Nat
    PROVE  \/ /\ StatusOf(r, now) \in Lifecycle!Active
              /\ StatusOf(SuppressedUntil(r, u), now) \in {"muted", "acknowledged"}
           \/ /\ StatusOf(r, now) \in Lifecycle!Inactive
              /\ StatusOf(SuppressedUntil(r, u), now) \in {"hidden", "cleared"}
<1> DEFINE s == SuppressedUntil(r, u)
<1>1. s \in Row /\ s # NoRow /\ r # NoRow
  BY OperatorTypes, AlertConstants
<1>2. s.acked /\ (s.active <=> r.active)
  BY DEF SuppressedUntil, Acknowledged, Row
<1> HIDE DEF s
<1>3. CASE r.active
  BY <1>1, <1>2, <1>3 DEF s, StatusOf, Lifecycle!Active
<1>4. CASE ~r.active
  BY <1>1, <1>2, <1>4 DEF s, StatusOf, Lifecycle!Inactive
<1> QED BY <1>3, <1>4

LEMMA ClosedStatus ==
    ASSUME NEW r \in Row, NEW now \in Nat, now <= MaxTime, NEW t \in Nat
    PROVE  StatusOf(r, now) # "none" /\ StatusOf(Closed(r, t), now) = "hidden"
<1> DEFINE s == Closed(r, t)
<1>1. s \in Row /\ s # NoRow /\ r # NoRow
  BY OperatorTypes, AlertConstants
<1>2. ~s.active /\ s.until = Forever
  BY DEF Closed, Acknowledged, Row
<1>3. Suppressed(s, now)
  BY <1>2, AlertConstants DEF Suppressed
<1> HIDE DEF s
<1>4. StatusOf(s, now) = "hidden"
  BY <1>1, <1>2, <1>3 DEF StatusOf
<1> QED BY <1>1, <1>4 DEF s, StatusOf

(* When the clock ticks, a term may run out. *)
LEMMA TickStatus ==
    ASSUME NEW r \in Row \cup {NoRow}, NEW now \in Nat,
           r # NoRow => Consistent(r, now)
    PROVE  \/ StatusOf(r, now + 1) = StatusOf(r, now)
           \/ /\ StatusOf(r, now) \in DOMAIN Lifecycle!ExpiredTo
              /\ StatusOf(r, now + 1) = Lifecycle!ExpiredTo[StatusOf(r, now)]
<1>1. CASE r = NoRow
  BY <1>1 DEF StatusOf
<1>2. CASE r # NoRow /\ (Suppressed(r, now + 1) <=> Suppressed(r, now))
  BY <1>2 DEF StatusOf
<1>3. CASE r # NoRow /\ ~(Suppressed(r, now + 1) <=> Suppressed(r, now))
  <2>1. Suppressed(r, now) /\ ~Suppressed(r, now + 1)
    BY <1>3, AlertConstants DEF Suppressed, Row, Stamp
  <2>2. r.active => r.acked
    BY <1>3, <2>1 DEF Consistent
  <2>3. CASE r.active
    BY <1>3, <2>1, <2>2, <2>3 DEF StatusOf, Lifecycle!ExpiredTo
  <2>4. CASE ~r.active
    BY <1>3, <2>1, <2>4 DEF StatusOf, Lifecycle!ExpiredTo
  <2> QED BY <2>3, <2>4
<1> QED BY <1>1, <1>2, <1>3

-----------------------------------------------------------------------------
(* Statements that touch one row or none. *)
LEMMA RowStatusStep ==
    ASSUME NEW a \in Alerts, NEW r,
           rows \in [Alerts -> Row \cup {NoRow}],
           rows' = [rows EXCEPT ![a] = r], clock' = clock
    PROVE  StatusMap' = [StatusMap EXCEPT ![a] = StatusOf(r, clock)]
<1>1. \A b \in Alerts : rows'[b] = IF b = a THEN r ELSE rows[b]
  OBVIOUS
<1>2. StatusMap' = [b \in Alerts |-> StatusOf(rows'[b], clock)]
  BY DEF StatusMap, StatusOf, Suppressed
<1> QED BY <1>1, <1>2 DEF StatusMap

LEMMA SameStatus ==
    ASSUME UNCHANGED <<clock, rows>>
    PROVE  UNCHANGED StatusMap
BY DEF StatusMap, StatusOf, Suppressed

LEMMA StatusType ==
    ASSUME NEW r, NEW t
    PROVE  StatusOf(r, t) \in Lifecycle!Status
BY DEF StatusOf, Lifecycle!Status

(* An alert-wise move along one of the maps of the life cycle. *)
LEMMA MoveStep ==
    ASSUME NEW map,
           \A a \in Alerts : \/ StatusMap'[a] = StatusMap[a]
                             \/ StatusMap[a] \in DOMAIN map /\ StatusMap'[a] = map[StatusMap[a]]
    PROVE  Lifecycle!Move(map)
<1>1. StatusMap' = [a \in Alerts |-> StatusOf(rows'[a], clock')]
  BY DEF StatusMap, StatusOf, Suppressed
<1>2. StatusMap' \in [Alerts -> Lifecycle!Status]
  BY <1>1, StatusType
<1> QED BY <1>2 DEF Lifecycle!Move

LEMMA InitStatus ==
    ASSUME Init
    PROVE  Lifecycle!Init
BY DEF Init, Lifecycle!Init, StatusMap, StatusOf

(* Every step of the store is one of the life cycle, or none. *)
LEMMA NextStatus ==
    ASSUME IInv, [Next]_vars
    PROVE  [Lifecycle!Next]_StatusMap
<1> DEFINE S(a) == StatusOf(rows[a], clock)
<1>0. /\ clock \in Nat /\ clock <= MaxTime
      /\ rows \in [Alerts -> Row \cup {NoRow}]
      /\ \A a \in Alerts : rows[a] # NoRow => rows[a] \in Row /\ Consistent(rows[a], clock)
      /\ \A h \in Handlers : pass[h] \in Pass /\ pass[h].now <= clock
  BY DEF IInv, TypeOK, RowsConsistent, NowReached
<1>1. \A a \in Alerts : StatusMap[a] = S(a)
  BY DEF StatusMap
<1>2. \A h \in Handlers : pass[h].now \in Nat /\ pass[h].todo \subseteq Alerts
  BY <1>0 DEF Pass
<1>3. CASE Tick
  <2>1. clock' = clock + 1 /\ rows' = rows
    BY <1>3 DEF Tick
  <2>2. \A a \in Alerts : StatusMap'[a] = StatusOf(rows[a], clock + 1)
    BY <2>1 DEF StatusMap, StatusOf, Suppressed
  <2>3. \A a \in Alerts :
           \/ StatusMap'[a] = StatusMap[a]
           \/ /\ StatusMap[a] \in DOMAIN Lifecycle!ExpiredTo
              /\ StatusMap'[a] = Lifecycle!ExpiredTo[StatusMap[a]]
    BY <1>0, <1>1, <2>2, TickStatus
  <2>4. Lifecycle!Move(Lifecycle!ExpiredTo)
    BY <2>3, MoveStep
  <2> QED BY <2>4 DEF Lifecycle!Next
<1>4. ASSUME NEW h \in Handlers, UpsertOne(h)
      PROVE  [Lifecycle!Next]_StatusMap
  <2>1. PICK a \in Alerts : rows' = [rows EXCEPT ![a] = Upserted(rows[a], pass[h].now)]
    BY <1>2, <1>4 DEF UpsertOne
  <2>2. clock' = clock
    BY <1>4 DEF UpsertOne
  <2>3. StatusMap' = [StatusMap EXCEPT ![a] = StatusOf(Upserted(rows[a], pass[h].now), clock)]
    BY <1>0, <2>1, <2>2, RowStatusStep
  <2>4. \/ StatusOf(Upserted(rows[a], pass[h].now), clock) = S(a)
        \/ /\ S(a) \in {"none", "cleared"}
           /\ StatusOf(Upserted(rows[a], pass[h].now), clock) = "open"
    BY <1>0, <1>2, UpsertedStatus
  <2>5. StatusMap' = StatusMap \/ Lifecycle!Raise(a)
    BY <1>1, <2>3, <2>4 DEF Lifecycle!Raise, Lifecycle!Set, StatusMap
  <2> QED BY <2>5 DEF Lifecycle!Next
<1>5. ASSUME NEW h \in Handlers, SweepAll(h) \/ SweepOne(h)
      PROVE  [Lifecycle!Next]_StatusMap
  <2> DEFINE Sw(a) == rows[a] # NoRow /\ rows'[a] = Swept(rows[a], pass[h].now)
  <2>1. clock' = clock /\ \A a \in Alerts : rows'[a] = rows[a] \/ Sw(a)
    <3>1. CASE SweepAll(h)
      BY <3>1 DEF SweepAll
    <3>2. CASE SweepOne(h)
      <4>1. clock' = clock
        BY <3>2 DEF SweepOne
      <4>2. PICK b \in Alerts :
               rows' = [rows EXCEPT ![b] = IF rows[b] = NoRow THEN NoRow
                                           ELSE Swept(rows[b], pass[h].now)]
        BY <1>2, <3>2 DEF SweepOne
      <4>3. \A a \in Alerts : rows'[a] = rows[a] \/ Sw(a)
        BY <1>0, <4>2
      <4> QED BY <4>1, <4>3
    <3> QED BY <1>5, <3>1, <3>2
  <2>2. \A a \in Alerts : StatusMap'[a] = StatusOf(rows'[a], clock)
    BY <2>1 DEF StatusMap, StatusOf, Suppressed
  <2>3. ASSUME NEW a \in Alerts
        PROVE  \/ StatusMap'[a] = StatusMap[a]
               \/ /\ StatusMap[a] \in DOMAIN Lifecycle!SweptTo
                  /\ StatusMap'[a] = Lifecycle!SweptTo[StatusMap[a]]
    <3>1. CASE rows'[a] = rows[a]
      BY <1>1, <2>2, <3>1
    <3>2. CASE Sw(a)
      <4>1. /\ ~rows[a].active => StatusOf(rows'[a], clock) = S(a)
            /\ rows[a].active => /\ S(a) \in Lifecycle!Active
                                 /\ StatusOf(rows'[a], clock) = Lifecycle!SweptTo[S(a)]
        BY <1>0, <1>2, <3>2, SweptStatus
      <4>2. DOMAIN Lifecycle!SweptTo = Lifecycle!Active
        BY DEF Lifecycle!SweptTo
      <4> HIDE DEF S
      <4> QED BY <1>1, <2>2, <4>1, <4>2
    <3> QED BY <2>1, <3>1, <3>2
  <2>4. Lifecycle!Move(Lifecycle!SweptTo)
    BY <2>3, MoveStep
  <2> QED BY <2>4 DEF Lifecycle!Next
<1>6. ASSUME NEW a \in Alerts, Acknowledge(a)
      PROVE  [Lifecycle!Next]_StatusMap
  <2>1. StatusMap' = [StatusMap EXCEPT ![a] = StatusOf(Acknowledged(rows[a]), clock)]
    BY <1>0, <1>6, RowStatusStep DEF Acknowledge
  <2>2. \/ StatusOf(Acknowledged(rows[a]), clock) = S(a)
        \/ S(a) = "open" /\ StatusOf(Acknowledged(rows[a]), clock) = "acknowledged"
    BY <1>0, <1>6, AcknowledgedStatus DEF Acknowledge
  <2>3. StatusMap' = StatusMap \/ Lifecycle!Acknowledge(a)
    BY <1>1, <2>1, <2>2 DEF Lifecycle!Acknowledge, Lifecycle!Set, StatusMap
  <2> QED BY <2>3 DEF Lifecycle!Next
<1>7. ASSUME NEW a \in Alerts, Suppress(a)
      PROVE  [Lifecycle!Next]_StatusMap
  <2>1. PICK d \in HideSpans : rows' = [rows EXCEPT ![a] = SuppressedUntil(rows[a], clock + d)]
    BY <1>7 DEF Suppress
  <2> DEFINE u == clock + d
  <2>2. u \in Nat
    <3>1. d \in Nat
      BY AlertConstants
    <3> QED BY <1>0, <3>1
  <2>3. rows' = [rows EXCEPT ![a] = SuppressedUntil(rows[a], u)]
    BY <2>1
  <2> HIDE DEF u
  <2>4. rows[a] \in Row /\ clock' = clock
    BY <1>0, <1>7 DEF Suppress
  <2>5. StatusMap' = [StatusMap EXCEPT ![a] = StatusOf(SuppressedUntil(rows[a], u), clock)]
    BY <1>0, <2>3, <2>4, RowStatusStep
  <2>6. \/ /\ S(a) \in Lifecycle!Active
           /\ StatusOf(SuppressedUntil(rows[a], u), clock) \in {"muted", "acknowledged"}
        \/ /\ S(a) \in Lifecycle!Inactive
           /\ StatusOf(SuppressedUntil(rows[a], u), clock) \in {"hidden", "cleared"}
    BY <1>0, <2>2, <2>4, SuppressedStatus
  <2>7. Lifecycle!Hide(a)
    BY <1>1, <2>5, <2>6 DEF Lifecycle!Hide, Lifecycle!Set
  <2> QED BY <2>7 DEF Lifecycle!Next
<1>8. ASSUME NEW a \in Alerts, Close(a)
      PROVE  [Lifecycle!Next]_StatusMap
  <2>0. PICK t \in 0..clock : rows' = [rows EXCEPT ![a] = Closed(rows[a], t)]
    BY <1>8 DEF Close
  <2>t. t \in Nat /\ rows[a] # NoRow /\ UNCHANGED clock
    BY <1>0, <1>8 DEF Close
  <2>1. StatusMap' = [StatusMap EXCEPT ![a] = StatusOf(Closed(rows[a], t), clock)]
    BY <1>0, <2>0, <2>t, RowStatusStep
  <2>2. S(a) # "none" /\ StatusOf(Closed(rows[a], t), clock) = "hidden"
    BY <1>0, <2>t, ClosedStatus
  <2>3. Lifecycle!Close(a)
    BY <1>1, <2>1, <2>2 DEF Lifecycle!Close, Lifecycle!Set
  <2> QED BY <2>3 DEF Lifecycle!Next
<1>9. CASE Cleanup
  <2>1. /\ clock' = clock
        /\ \A a \in Alerts : rows'[a] = IF Outdated(rows[a]) THEN NoRow ELSE rows[a]
    BY <1>9 DEF Cleanup
  <2>2. \A a \in Alerts : StatusMap'[a] = StatusOf(rows'[a], clock)
    BY <2>1 DEF StatusMap, StatusOf, Suppressed
  <2>3. \A a \in Alerts : Outdated(rows[a]) => S(a) \in Lifecycle!Inactive
    BY DEF Outdated, StatusOf, Lifecycle!Inactive
  <2>4. \A a \in Alerts :
           \/ StatusMap'[a] = StatusMap[a]
           \/ /\ StatusMap[a] \in DOMAIN Lifecycle!PurgedTo
              /\ StatusMap'[a] = Lifecycle!PurgedTo[StatusMap[a]]
    BY <1>1, <2>1, <2>2, <2>3 DEF StatusOf, Lifecycle!PurgedTo
  <2>5. Lifecycle!Move(Lifecycle!PurgedTo)
    BY <2>4, MoveStep
  <2> QED BY <2>5 DEF Lifecycle!Next
<1>10. CASE UNCHANGED <<clock, rows>>
  BY <1>10, SameStatus
<1> HIDE DEF S
<1> QED
  BY <1>3, <1>4, <1>5, <1>6, <1>7, <1>8, <1>9, <1>10
     DEF Next, Step, PassStep, vars, Observe, StartUpsert, SelectStale, Answer, Fail

(* The statements of any number of passes and requests, in any interleaving,
   implement the life cycle of AlertLifecycle. *)
THEOREM StoreImplementsLifecycle == Spec => ImplementsLifecycle
<1>1. Init => Lifecycle!Init
  BY InitStatus
<1>2. IInv /\ [Next]_vars => [Lifecycle!Next]_StatusMap
  BY NextStatus
<1>3. Spec => []IInv
  BY InitIInv, NextIInv, PTL DEF Spec
<1> QED BY <1>1, <1>2, <1>3, PTL DEF Spec, ImplementsLifecycle, Lifecycle!Spec
=============================================================================
