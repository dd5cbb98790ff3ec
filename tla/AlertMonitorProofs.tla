------------------------- MODULE AlertMonitorProofs -------------------------
(***************************************************************************)
(* What AlertStore promises with its surroundings: for any number of pages *)
(* that an acknowledgement is kept, and for one page what its responses    *)
(* show and in which order a row's times are.                              *)
(***************************************************************************)
EXTENDS AlertMonitor, AlertStoreProofs, FiniteSetTheorems

(* What a step of the store makes of the locals of pass h: it goes on, starts
   anew, or is over.  What it still has to sweep it has not observed. *)
SweepsUnobserved == \A h \in Handlers : pass[h].pc = "sweeping" => pass[h].todo \cap pass[h].snap = {}

(* A pass in flight observed whatever is kept: it cannot sweep it. *)
KeptObserved == \A h \in Handlers : Running(h) => kept \subseteq pass[h].snap

MInv == IInv /\ cond \subseteq Alerts /\ kept \subseteq Alerts
        /\ SweepsUnobserved /\ KeptObserved /\ AcknowledgementKept

LEMMA MonitorSteps == cond \subseteq Alerts /\ MNext => [Next]_vars /\ (cond \subseteq Alerts)'
BY DEF MNext, Raise, Lower, Look, Next, vars

(* An upsert leaves an active and acknowledged row so. *)
LEMMA UpsertKeeps ==
    ASSUME NEW r \in Row, NEW t \in Nat, r.active, r.acked
    PROVE  Upserted(r, t).active /\ Upserted(r, t).acked
BY AlertConstants DEF Upserted, ActiveAfter, AckAfter, Row

(* One step of a pass: what it has observed stays, and it sweeps nothing of it. *)
LEMMA SweepStep == IInv /\ SweepsUnobserved /\ [Next]_vars => SweepsUnobserved'
<1> SUFFICES ASSUME IInv, SweepsUnobserved, [Next]_vars, NEW g \in Handlers, pass'[g].pc = "sweeping"
             PROVE  pass'[g].todo \cap pass'[g].snap = {}
  BY DEF SweepsUnobserved
<1>0. \A h \in Handlers : pass[h] \in Pass
  BY DEF IInv, TypeOK
<1>1. CASE pass' = pass
  BY <1>1 DEF SweepsUnobserved
<1>3. ASSUME NEW h \in Handlers, NEW holding \in SUBSET Alerts, Observe(h, holding)
      PROVE  pass'[g].todo \cap pass'[g].snap = {}
  BY <1>0, <1>3 DEF Observe, Locals, SweepsUnobserved, IInv, TypeOK
<1>4. ASSUME NEW h \in Handlers, StartUpsert(h) \/ Answer(h) \/ Fail(h)
      PROVE  pass'[g].todo \cap pass'[g].snap = {}
  <2>1. SUFFICES pass'[g] = pass[g] \/ pass'[g].pc # "sweeping"
    BY DEF SweepsUnobserved
  <2>2. DOMAIN pass = Handlers
    BY DEF IInv, TypeOK
  <2>3. CASE StartUpsert(h)
    BY <2>2, <2>3 DEF StartUpsert, Locals
  <2>4. CASE Answer(h)
    <3>1. PICK S : pass' = [pass EXCEPT ![h] = Locals("done", {}, 0, {}, S)]
      BY <2>4 DEF Answer
    <3> QED BY <2>2, <3>1 DEF Locals
  <2>5. CASE Fail(h)
    BY <2>2, <2>5 DEF Fail, IdlePass, Locals
  <2> QED BY <1>4, <2>3, <2>4, <2>5
<1>5. ASSUME NEW h \in Handlers, UpsertOne(h) \/ SweepAll(h) \/ SelectStale(h) \/ SweepOne(h)
      PROVE  pass'[g].todo \cap pass'[g].snap = {}
  BY <1>0, <1>5 DEF UpsertOne, SweepAll, SelectStale, SweepOne, SweepsUnobserved, IInv, TypeOK, Pass
<1>6. ASSUME \/ \E a \in Alerts : Acknowledge(a) \/ Suppress(a) \/ Close(a)
             \/ Cleanup \/ Tick \/ UNCHANGED vars
      PROVE  pass' = pass
  BY <1>6 DEF Acknowledge, Suppress, Close, Cleanup, Tick, vars
<1> QED
  BY <1>1, <1>3, <1>4, <1>5, <1>6 DEF Next, Step, PassStep


(* What becomes of an active row.  A purge takes only rows that were cleared. *)
LEMMA ActiveRowStep ==
    ASSUME IInv, [Next]_vars, NEW a \in Alerts, rows[a] # NoRow, rows[a].active
    PROVE  \/ rows'[a] = rows[a]
           \/ \E t \in Nat : rows'[a] = Upserted(rows[a], t)
           \/ /\ \E h \in Handlers : \/ pass[h].pc = "upserting" /\ pass[h].snap = {}
                                     \/ pass[h].pc = "sweeping" /\ a \in pass[h].todo
              /\ \E t \in Nat : rows'[a] = Swept(rows[a], t)
           \/ rows'[a] = Acknowledged(rows[a])
           \/ \E u \in Nat : rows'[a] = SuppressedUntil(rows[a], u)
           \/ \E t \in Nat : rows'[a] = Closed(rows[a], t)
<1>0. rows \in [Alerts -> Row \cup {NoRow}] /\ clock \in Nat /\ \A h \in Handlers : pass[h].now \in Nat
  BY DEF IInv, TypeOK, Pass
<1>1. ASSUME NEW h \in Handlers, UpsertOne(h)
      PROVE  rows'[a] = rows[a] \/ rows'[a] = Upserted(rows[a], pass[h].now)
  BY <1>0, <1>1 DEF UpsertOne
<1>2. ASSUME NEW h \in Handlers, SweepAll(h)
      PROVE  rows'[a] = Swept(rows[a], pass[h].now) /\ pass[h].pc = "upserting" /\ pass[h].snap = {}
  BY <1>0, <1>2 DEF SweepAll
<1>3. ASSUME NEW h \in Handlers, SweepOne(h)
      PROVE  \/ rows'[a] = rows[a]
             \/ /\ pass[h].pc = "sweeping" /\ a \in pass[h].todo
                /\ rows'[a] = Swept(rows[a], pass[h].now)
  BY <1>0, <1>3 DEF SweepOne
<1>4. ASSUME NEW b \in Alerts, Acknowledge(b)
      PROVE  rows'[a] = rows[a] \/ rows'[a] = Acknowledged(rows[a])
  BY <1>0, <1>4 DEF Acknowledge
<1>8. ASSUME NEW b \in Alerts, Close(b)
      PROVE  rows'[a] = rows[a] \/ \E t \in Nat : rows'[a] = Closed(rows[a], t)
  <2>1. PICK t \in 0..clock : rows' = [rows EXCEPT ![b] = Closed(rows[b], t)]
    BY <1>8 DEF Close
  <2> QED BY <1>0, <2>1
<1>5. ASSUME NEW b \in Alerts, Suppress(b)
      PROVE  rows'[a] = rows[a] \/ \E u \in Nat : rows'[a] = SuppressedUntil(rows[a], u)
  <2>1. PICK d \in HideSpans : rows' = [rows EXCEPT ![b] = SuppressedUntil(rows[b], clock + d)]
    BY <1>5 DEF Suppress
  <2>2. clock + d \in Nat
    BY <1>0, AlertConstants
  <2> QED BY <1>0, <2>1, <2>2
<1>6. ASSUME Cleanup PROVE rows'[a] = rows[a]
  BY <1>6 DEF Cleanup, Outdated
<1>7. ASSUME \/ \E h \in Handlers : \/ \E holding \in SUBSET Alerts : Observe(h, holding)
                                    \/ StartUpsert(h) \/ SelectStale(h) \/ Answer(h) \/ Fail(h)
             \/ Tick \/ UNCHANGED vars
      PROVE  rows' = rows
  BY <1>7 DEF Observe, StartUpsert, SelectStale, Answer, Fail, Tick, vars
<1> QED
  BY <1>0, <1>1, <1>2, <1>3, <1>4, <1>5, <1>6, <1>7, <1>8 DEF Next, Step, PassStep

(* One step leaves what is kept active and acknowledged.  KeepTrack drops from
   "kept" what the step closes, and no pass sweeps what it has observed. *)
LEMMA KeptStep == MInv /\ MNext => MInv'
<1> SUFFICES ASSUME MInv, MNext PROVE MInv'
  OBVIOUS
<1>1. [Next]_vars /\ IInv' /\ (cond \subseteq Alerts)' /\ SweepsUnobserved'
  BY MonitorSteps, NextIInv, SweepStep DEF MInv
<1>2. (kept \subseteq Alerts)' /\ KeptObserved'
  BY DEF MNext, KeepTrack, KeptObserved, Running
<1>3. AcknowledgementKept'
  <2> SUFFICES ASSUME NEW a \in kept' PROVE rows'[a] # NoRow /\ rows'[a].active /\ rows'[a].acked
    BY DEF AcknowledgementKept
  <2>1. a \in Alerts /\ (a \in kept \/ NewlyKept(a)) /\ ~ClosedNow(a)
    BY DEF MNext, KeepTrack
  <2>2. rows[a] \in Row /\ rows[a].active /\ NoRow \notin Row /\ clock \in Nat
    <3>1. rows[a] # NoRow /\ rows[a].active
      BY <2>1 DEF NewlyKept, AcknowledgementKept, MInv
    <3> QED BY <2>1, <3>1, AlertConstants DEF MInv, IInv, TypeOK
  <2> DEFINE r == rows[a]
             s == rows'[a]
  <2>3. \/ s = r
        \/ \E t \in Nat : s = Upserted(r, t)
        \/ /\ \E h \in Handlers : \/ pass[h].pc = "upserting" /\ pass[h].snap = {}
                                  \/ pass[h].pc = "sweeping" /\ a \in pass[h].todo
           /\ \E t \in Nat : s = Swept(r, t)
        \/ s = Acknowledged(r)
        \/ \E u \in Nat : s = SuppressedUntil(r, u)
        \/ \E t \in Nat : s = Closed(r, t)
    BY <1>1, <2>1, <2>2, ActiveRowStep DEF MInv
  <2>4. s \in Row /\ s # NoRow
    BY <2>2, <2>3, UpsertedType, SweptType, OperatorTypes
  <2>5. CASE NewlyKept(a)
    BY <2>4, <2>5 DEF NewlyKept
  <2>6. CASE a \in kept
    <3>1. r.acked
      BY <2>6 DEF MInv, AcknowledgementKept
    <3>2. \A h \in Handlers : Running(h) => a \in pass[h].snap
      BY <2>6 DEF MInv, KeptObserved
    <3>3. CASE \E t \in Nat : s = Upserted(r, t)
      BY <2>2, <2>4, <3>1, <3>3, UpsertKeeps
    <3>4. ASSUME NEW h \in Handlers, \/ pass[h].pc = "upserting" /\ pass[h].snap = {}
                                     \/ pass[h].pc = "sweeping" /\ a \in pass[h].todo
          PROVE  FALSE
      BY <3>2, <3>4 DEF Running, MInv, SweepsUnobserved
    <3>5. CASE s = Acknowledged(r) \/ \E u \in Nat : s = SuppressedUntil(r, u)
      BY <2>2, <2>4, <3>5 DEF Acknowledged, SuppressedUntil, Row
    <3>6. \A t \in Nat : s # Closed(r, t)
      <4> SUFFICES ASSUME NEW t \in Nat, s = Closed(r, t) PROVE FALSE
        OBVIOUS
      <4>1. s.state = "closed" /\ ~s.active
        BY <2>2 DEF Closed, Acknowledged, Row
      <4>2. s # r
        BY <2>2, <4>1
      <4> QED BY <2>1, <2>4, <4>1, <4>2 DEF ClosedNow
    <3>7. CASE s = r
      BY <2>2, <2>4, <3>1, <3>7
    <3> QED BY <2>3, <3>3, <3>4, <3>5, <3>6, <3>7
  <2> QED BY <2>1, <2>5, <2>6
<1> QED BY <1>1, <1>2, <1>3 DEF MInv

LEMMA InitMInv == MInit => MInv
BY InitIInv DEF MInit, MInv, Init, IdlePass, Locals, SweepsUnobserved, KeptObserved, Running,
                AcknowledgementKept

(* An acknowledgement outlives the refreshes of any number of pages for as long
   as they observe the condition and the operator does not close the alert. *)
THEOREM AcknowledgementsKept == MSpec => []AcknowledgementKept
<1>1. MInv /\ [MNext]_mvars => MInv'
  <2>1. MInv /\ UNCHANGED mvars => MInv'
    <3> SUFFICES ASSUME MInv, UNCHANGED mvars PROVE MInv'
      OBVIOUS
    <3>1. UNCHANGED vars /\ cond' = cond /\ kept' = kept
      BY DEF mvars, vars
    <3>2. IInv' /\ SweepsUnobserved'
      BY <3>1, NextIInv, SweepStep DEF MInv
    <3> QED BY <3>1, <3>2 DEF MInv, KeptObserved, AcknowledgementKept, Running, vars
  <2> QED BY <2>1, KeptStep
<1>2. MInv => AcknowledgementKept
  BY DEF MInv
<1> QED BY <1>1, <1>2, InitMInv, PTL DEF MSpec

-----------------------------------------------------------------------------
(* One page: no pass clears an alert before it was first seen.  The only pass
   reads the clock before it writes anything, so that what it sweeps was first
   seen by then. *)

Writing(h) == pass[h].pc \in {"upserting", "sweeping"}

(* When the rows were first seen, by the clock and by the reading of a pass. *)
SeenBefore ==
    \A a \in Alerts : rows[a] # NoRow =>
       /\ rows[a].first <= clock
       /\ \A h \in Handlers : Writing(h) => rows[a].first <= pass[h].now

(* No statement but a purge and the upsert of an absent row changes when an
   alert was first seen. *)
LEMMA FirstKept ==
    ASSUME NEW r \in Row, NEW t \in Nat
    PROVE  /\ Swept(r, t).first = r.first /\ Upserted(r, t).first = r.first
           /\ Acknowledged(r).first = r.first /\ Closed(r, t).first = r.first
           /\ \A u \in Nat : SuppressedUntil(r, u).first = r.first
BY AlertConstants
   DEF Swept, Upserted, FirstSeenAfter, Acknowledged, SuppressedUntil, Closed, Row

(* No statement but that of a request to close makes a row's times disagree. *)
LEMMA RowOrder ==
    ASSUME NEW r \in Row, NEW t \in Nat, ~ClearedTooSoon(r)
    PROVE  /\ r.first <= t => ~ClearedTooSoon(Swept(r, t))
           /\ ~ClearedTooSoon(Upserted(r, t))
           /\ ~ClearedTooSoon(Acknowledged(r))
           /\ \A u \in Nat : ~ClearedTooSoon(SuppressedUntil(r, u))
<1>1. r # NoRow /\ DOMAIN r = {"active", "state", "acked", "ackedAt", "first", "cleared", "until"}
  BY AlertConstants DEF Row
<1>2. r.cleared = NoTime \/ ~(r.cleared < r.first)
  BY <1>1 DEF ClearedTooSoon
<1>3. ASSUME r.first <= t PROVE ~ClearedTooSoon(Swept(r, t))
  <2>1. Swept(r, t).first = r.first /\ Swept(r, t).cleared = Stamped(r.cleared, t)
    BY <1>1 DEF Swept
  <2>2. r.first \in Nat
    BY DEF Row
  <2> QED BY <1>2, <1>3, <2>1, <2>2 DEF ClearedTooSoon, Stamped
<1>4. ~ClearedTooSoon(Upserted(r, t))
  <2>1. Upserted(r, t).first = r.first /\ Upserted(r, t).cleared \in {r.cleared, NoTime}
    BY <1>1 DEF Upserted, FirstSeenAfter, ClearedAfter
  <2> QED BY <1>2, <2>1 DEF ClearedTooSoon
<1>5. ~ClearedTooSoon(Acknowledged(r))
  <2>1. Acknowledged(r).first = r.first /\ Acknowledged(r).cleared = r.cleared
    BY <1>1 DEF Acknowledged
  <2> QED BY <1>2, <2>1 DEF ClearedTooSoon
<1>6. ASSUME NEW u \in Nat PROVE ~ClearedTooSoon(SuppressedUntil(r, u))
  <2>1. SuppressedUntil(r, u).first = r.first /\ SuppressedUntil(r, u).cleared = r.cleared
    BY <1>1 DEF Acknowledged, SuppressedUntil
  <2> QED BY <1>2, <2>1 DEF ClearedTooSoon
<1> QED BY <1>3, <1>4, <1>5, <1>6

(* Where a pass is when it starts and when it is over. *)
LEMMA StartOrEnd ==
    ASSUME IInv, NEW h \in Handlers
    PROVE  /\ (\E holding \in SUBSET Alerts : Observe(h, holding)) =>
                 pass'[h].pc = "observed"
           /\ Answer(h) => pass'[h].pc = "done"
           /\ Fail(h) => pass'[h].pc = "idle"
<1>0. DOMAIN pass = Handlers
  BY DEF IInv, TypeOK
<1>1. ASSUME NEW holding \in SUBSET Alerts, Observe(h, holding) PROVE pass'[h].pc = "observed"
  <2>1. PICK S : pass' = [pass EXCEPT ![h] = Locals("observed", S, 0, {}, {})]
    BY <1>1 DEF Observe
  <2> QED BY <1>0, <2>1 DEF Locals
<1>2. ASSUME Answer(h) PROVE pass'[h].pc = "done"
  <2>1. PICK S : pass' = [pass EXCEPT ![h] = Locals("done", {}, 0, {}, S)]
    BY <1>2 DEF Answer
  <2> QED BY <1>0, <2>1 DEF Locals
<1>3. ASSUME Fail(h) PROVE pass'[h].pc = "idle"
  BY <1>0, <1>3 DEF Fail, IdlePass, Locals
<1> QED BY <1>1, <1>2, <1>3

(* What a step of the only pass, of an operator or of time makes of a row. *)
LEMMA RowStepOfPage ==
    ASSUME NEW page, Handlers = {page}, IInv, [Next]_vars, NEW a \in Alerts, rows'[a] # NoRow
    PROVE  \/ rows'[a] = rows[a]
           \/ rows'[a] = Upserted(rows[a], pass[page].now) /\ UpsertOne(page)
           \/ /\ rows[a] # NoRow /\ rows'[a] = Swept(rows[a], pass[page].now)
              /\ SweepAll(page) \/ SweepOne(page)
           \/ /\ rows[a] # NoRow /\ pass' = pass /\ clock' = clock
              /\ \/ rows'[a] = Acknowledged(rows[a])
                 \/ \E u \in Nat : rows'[a] = SuppressedUntil(rows[a], u)
                 \/ \E t \in 0..clock : rows'[a] = Closed(rows[a], t)
<1>0. rows \in [Alerts -> Row \cup {NoRow}] /\ clock \in Nat
  BY DEF IInv, TypeOK
<1>1. ASSUME (\E holding \in SUBSET Alerts : Observe(page, holding)) \/ StartUpsert(page)
             \/ SelectStale(page) \/ Answer(page) \/ Fail(page) \/ Tick \/ UNCHANGED vars
      PROVE  rows' = rows
  BY <1>1 DEF Observe, StartUpsert, SelectStale, Answer, Fail, Tick, vars
<1>2. ASSUME UpsertOne(page)
      PROVE  rows'[a] = rows[a] \/ rows'[a] = Upserted(rows[a], pass[page].now)
  BY <1>0, <1>2 DEF UpsertOne
<1>3. ASSUME SweepAll(page) \/ SweepOne(page)
      PROVE  rows'[a] = rows[a] \/ (rows[a] # NoRow /\ rows'[a] = Swept(rows[a], pass[page].now))
  BY <1>0, <1>3 DEF SweepAll, SweepOne
<1>4. ASSUME NEW b \in Alerts, Acknowledge(b)
      PROVE  rows'[a] = rows[a] \/ (rows[a] # NoRow /\ rows'[a] = Acknowledged(rows[a]))
  BY <1>0, <1>4 DEF Acknowledge
<1>5. ASSUME NEW b \in Alerts, Suppress(b)
      PROVE  rows'[a] = rows[a]
             \/ (rows[a] # NoRow /\ \E u \in Nat : rows'[a] = SuppressedUntil(rows[a], u))
  <2>1. PICK d \in HideSpans : rows' = [rows EXCEPT ![b] = SuppressedUntil(rows[b], clock + d)]
    BY <1>5 DEF Suppress
  <2>2. clock + d \in Nat
    BY <1>0, AlertConstants
  <2> QED BY <1>0, <1>5, <2>1, <2>2 DEF Suppress
<1>6. ASSUME NEW b \in Alerts, Close(b)
      PROVE  rows'[a] = rows[a]
             \/ (rows[a] # NoRow /\ \E t \in 0..clock : rows'[a] = Closed(rows[a], t))
  <2>1. PICK t \in 0..clock : rows' = [rows EXCEPT ![b] = Closed(rows[b], t)]
    BY <1>6 DEF Close
  <2> QED BY <1>0, <1>6, <2>1 DEF Close
<1>7. ASSUME Cleanup PROVE rows'[a] = rows[a]
  BY <1>7 DEF Cleanup
<1>8. (\E b \in Alerts : Acknowledge(b) \/ Suppress(b) \/ Close(b)) => pass' = pass /\ clock' = clock
  BY DEF Acknowledge, Suppress, Close
<1> QED
  BY <1>1, <1>2, <1>3, <1>4, <1>5, <1>6, <1>7, <1>8 DEF Next, Step, PassStep

(* Where the only pass is and what it has read, after a step. *)
LEMMA ReadingStep ==
    ASSUME NEW page, Handlers = {page}, IInv, [Next]_vars, Writing(page)'
    PROVE  \/ StartUpsert(page) /\ pass'[page].now = clock /\ clock' = clock /\ rows' = rows
           \/ Writing(page) /\ pass'[page].now = pass[page].now
<1>0. pass \in [Handlers -> Pass] /\ pass[page] \in Pass /\ page \in Handlers
  BY DEF IInv, TypeOK
<1>1. ~((\E holding \in SUBSET Alerts : Observe(page, holding)) \/ Answer(page) \/ Fail(page))
  BY StartOrEnd DEF Writing
<1>2. ASSUME StartUpsert(page)
      PROVE  pass'[page].now = clock /\ clock' = clock /\ rows' = rows
  BY <1>0, <1>2 DEF StartUpsert, Locals
<1>3. ASSUME UpsertOne(page) \/ SweepAll(page) \/ SelectStale(page) \/ SweepOne(page)
      PROVE  Writing(page) /\ pass'[page].now = pass[page].now
  BY <1>0, <1>3 DEF UpsertOne, SweepAll, SelectStale, SweepOne, Writing, Pass
<1>4. ASSUME \/ \E b \in Alerts : Acknowledge(b) \/ Suppress(b) \/ Close(b)
             \/ Cleanup \/ Tick \/ UNCHANGED vars
      PROVE  pass' = pass
  BY <1>4 DEF Acknowledge, Suppress, Close, Cleanup, Tick, vars
<1> QED
  BY <1>1, <1>2, <1>3, <1>4 DEF Next, Step, PassStep, Writing

LEMMA SeenBeforeStep ==
    ASSUME NEW page, Handlers = {page}, IInv, SeenBefore, [Next]_vars
    PROVE  SeenBefore'
<1>0. /\ rows \in [Alerts -> Row \cup {NoRow}] /\ clock \in Nat /\ NoRow \notin Row
      /\ pass[page] \in Pass /\ pass[page].now \in Nat /\ pass[page].now <= clock
  BY AlertConstants DEF IInv, TypeOK, NowReached, Pass
<1>1. clock' \in Nat /\ clock <= clock'
  BY <1>0 DEF Next, Step, PassStep, Observe, StartUpsert, UpsertOne, SweepAll, SelectStale, SweepOne,
              Answer, Fail, Acknowledge, Suppress, Close, Cleanup, Tick, vars
<1>2. SUFFICES ASSUME NEW a \in Alerts, rows'[a] # NoRow
               PROVE  /\ rows'[a].first <= clock'
                      /\ Writing(page)' => rows'[a].first <= pass'[page].now
  BY DEF SeenBefore
<1>3. rows[a] # NoRow =>
         /\ rows[a] \in Row /\ rows[a].first \in Nat /\ rows[a].first <= clock
         /\ Writing(page) => rows[a].first <= pass[page].now
  BY <1>0 DEF SeenBefore, Row
<1>4. CASE rows[a] # NoRow
  <2>1. rows'[a].first = rows[a].first
    BY <1>0, <1>2, <1>3, <1>4, RowStepOfPage, FirstKept
  <2> QED BY <1>0, <1>1, <1>3, <1>4, <2>1, ReadingStep
<1>5. CASE rows[a] = NoRow
  <2>1. rows'[a] = Upserted(rows[a], pass[page].now) /\ UpsertOne(page)
    BY <1>2, <1>5, RowStepOfPage
  <2>2. rows'[a].first = pass[page].now
    BY <1>5, <2>1 DEF Upserted, FreshRow
  <2>3. pass'[page].now = pass[page].now
    BY <2>1 DEF UpsertOne, IInv, TypeOK, Pass
  <2> QED BY <1>0, <1>1, <2>2, <2>3
<1> QED BY <1>4, <1>5

(* With one page open an alert is cleared before it was first seen only by a
   request to close it that had read the clock by then. *)
THEOREM OnlyLateClosing ==
    ASSUME NEW page, Handlers = {page}
    PROVE  Spec => OnlyCloseClearsTooSoon
<1>1. Init => SeenBefore
  BY DEF Init, SeenBefore
<1>2. IInv /\ SeenBefore /\ [Next]_vars => SeenBefore'
  BY SeenBeforeStep
<1> DEFINE ByClosing == \A a \in Alerts : ClearedTooSoon(rows'[a]) =>
                          \/ ClearedTooSoon(rows[a])
                          \/ rows[a] # NoRow /\ \E t \in 0..clock : rows'[a] = Closed(rows[a], t)
<1>3. IInv /\ SeenBefore /\ [Next]_vars => [ByClosing]_vars
  <2> SUFFICES ASSUME IInv, SeenBefore, Next, NEW a \in Alerts,
                      ClearedTooSoon(rows'[a]), ~ClearedTooSoon(rows[a])
               PROVE  rows[a] # NoRow /\ \E t \in 0..clock : rows'[a] = Closed(rows[a], t)
    OBVIOUS
  <2>0. /\ rows \in [Alerts -> Row \cup {NoRow}] /\ NoRow \notin Row /\ page \in Handlers
        /\ pass[page].now \in Nat /\ rows'[a] # NoRow
    BY AlertConstants DEF IInv, TypeOK, Pass, ClearedTooSoon
  <2>1. rows[a] # NoRow
    <3>1. ASSUME rows[a] = NoRow PROVE FALSE
      <4>1. rows'[a] = Upserted(rows[a], pass[page].now)
        BY <2>0, <3>1, RowStepOfPage
      <4> QED BY <3>1, <4>1 DEF Upserted, FreshRow, ClearedTooSoon
    <3> QED BY <3>1
  <2>2. rows[a] \in Row
    BY <2>0, <2>1
  <2>3. SweepAll(page) \/ SweepOne(page) => rows[a].first <= pass[page].now
    BY <2>0, <2>1 DEF SweepAll, SweepOne, SeenBefore, Writing
  <2> QED BY <2>0, <2>1, <2>2, <2>3, RowStepOfPage, RowOrder
<1> QED BY <1>1, <1>2, <1>3, InitIInv, NextIInv, PTL DEF Spec, OnlyCloseClearsTooSoon

-----------------------------------------------------------------------------
(* One page: what its responses show, if the limits of the two SELECTs are not
   smaller than the number of alerts. *)

(* A limit that all alerts pass leaves nothing out. *)
LEMMA LimitedAll ==
    ASSUME NEW S \in SUBSET Alerts, NEW limit \in Nat, IsFiniteSet(Alerts),
           Cardinality(Alerts) <= limit
    PROVE  Limited(S, limit) \subseteq {S}
<1>1. IsFiniteSet(S) /\ Cardinality(S) \in Nat /\ Cardinality(S) <= Cardinality(Alerts)
      /\ Cardinality(Alerts) \in Nat
  BY FS_Subset, FS_CardinalityType
<1>2. ASSUME NEW T \in Limited(S, limit) PROVE T = S
  <2>1. T \in SUBSET S /\ Cardinality(T) = Cardinality(S)
    BY <1>1 DEF Limited
  <2> QED BY <1>1, <2>1, FS_Subset
<1> QED BY <1>2

LEMMA DedupedKeys ==
    ASSUME NEW T \in SUBSET Alerts, NEW S \in Deduped(T)
    PROVE  S \subseteq T /\ \A a \in T : \E b \in S : KeyOf[b] = KeyOf[a]
BY DEF Deduped

(* Suppressed at time t or later. *)
Hid(r, t) == r.until # NoTime /\ r.until >= t

LEMMA HidStays ==
    ASSUME NEW r \in Row, NEW t \in Nat, NEW now \in Nat, t <= now, now <= MaxTime, Hid(r, t)
    PROVE  /\ Hid(Acknowledged(r), t)
           /\ \A u \in Nat : Hid(Upserted(r, u), t) /\ Hid(Swept(r, u), t) /\ Hid(Closed(r, u), t)
           /\ \A d \in HideSpans : Hid(SuppressedUntil(r, now + d), t)
BY AlertConstants
   DEF Hid, Acknowledged, Closed, SuppressedUntil, Upserted, Swept, Row, Stamp

LEMMA SuppressHides ==
    ASSUME NEW r \in Row, NEW t \in Nat, NEW now \in Nat, t <= now, NEW d \in HideSpans
    PROVE  Hid(SuppressedUntil(r, now + d), t)
BY AlertConstants DEF Hid, Acknowledged, SuppressedUntil, Row

(* What a request of the operator, a purge, or time makes of a row. *)
LEMMA OperatorRow ==
    ASSUME IInv, NEW a \in Alerts, NEW h \in Handlers,
           \/ \E b \in Alerts : Acknowledge(b) \/ Suppress(b) \/ Close(b)
           \/ Cleanup \/ Tick \/ UNCHANGED vars
    PROVE  /\ pass' = pass
           /\ \/ rows'[a] = rows[a] \/ rows'[a] = NoRow
              \/ /\ rows[a] # NoRow
                 /\ \/ rows'[a] = Acknowledged(rows[a])
                    \/ \E d \in HideSpans : rows'[a] = SuppressedUntil(rows[a], clock + d)
                    \/ \E t \in Nat : rows'[a] = Closed(rows[a], t)
<1>0. rows \in [Alerts -> Row \cup {NoRow}] /\ clock \in Nat
  BY DEF IInv, TypeOK
<1>1. ASSUME NEW b \in Alerts, Suppress(b)
      PROVE  rows'[a] = rows[a] \/ /\ rows[a] # NoRow
                                   /\ \E d \in HideSpans : rows'[a] = SuppressedUntil(rows[a], clock + d)
  BY <1>0, <1>1 DEF Suppress
<1>2. ASSUME NEW b \in Alerts, Acknowledge(b)
      PROVE  rows'[a] = rows[a] \/ (rows[a] # NoRow /\ rows'[a] = Acknowledged(rows[a]))
  BY <1>0, <1>2 DEF Acknowledge
<1>5. ASSUME NEW b \in Alerts, Close(b)
      PROVE  rows'[a] = rows[a]
             \/ (rows[a] # NoRow /\ \E t \in Nat : rows'[a] = Closed(rows[a], t))
  <2>1. PICK t \in 0..clock : rows' = [rows EXCEPT ![b] = Closed(rows[b], t)]
    BY <1>5 DEF Close
  <2> QED BY <1>0, <1>5, <2>1 DEF Close
<1>3. ASSUME Cleanup \/ Tick \/ UNCHANGED vars PROVE rows'[a] = rows[a] \/ rows'[a] = NoRow
  BY <1>3 DEF Cleanup, Tick, vars
<1>4. pass' = pass
  BY DEF Acknowledge, Suppress, Close, Cleanup, Tick, vars
<1> QED BY <1>1, <1>2, <1>3, <1>4, <1>5

(* While the sweep goes on, whatever is active was observed, is still to be
   swept or was suppressed; after the sweep of a pass that observed nothing,
   nothing is active. *)
SweptBut(h) ==
    \A a \in Alerts :
       /\ pass[h].pc = "sweeping" =>
             \/ rows[a] = NoRow \/ ~rows[a].active \/ Hid(rows[a], pass[h].now)
             \/ a \in pass[h].snap \/ a \in pass[h].todo
       /\ pass[h].pc = "answering" => rows[a] = NoRow \/ ~rows[a].active

LEMMA SweptButStep ==
    ASSUME NEW page, Handlers = {page}, IsFiniteSet(Alerts), Cardinality(Alerts) <= SweepLimit,
           IInv, SweptBut(page), [Next]_vars
    PROVE  SweptBut(page)'
<1>0. /\ rows \in [Alerts -> Row \cup {NoRow}] /\ clock \in Nat /\ NoRow \notin Row
      /\ pass \in [Handlers -> Pass] /\ pass[page] \in Pass /\ pass[page].now \in Nat
      /\ pass[page].now <= clock /\ clock <= MaxTime
  BY AlertConstants DEF IInv, TypeOK, NowReached, Pass
<1>1. ASSUME \/ \E holding \in SUBSET Alerts : Observe(page, holding)
             \/ StartUpsert(page) \/ UpsertOne(page) \/ Answer(page) \/ Fail(page)
      PROVE  SweptBut(page)'
  <2>1. StartUpsert(page) \/ UpsertOne(page) => pass'[page].pc = "upserting"
    BY <1>0 DEF StartUpsert, UpsertOne, Locals, Pass
  <2> QED BY <1>0, <1>1, <2>1, StartOrEnd DEF SweptBut
<1>2. ASSUME SweepAll(page) PROVE SweptBut(page)'
  <2>1. pass'[page].pc = "answering"
    BY <1>0, <1>2 DEF SweepAll, Pass
  <2>2. \A a \in Alerts : rows'[a] = NoRow \/ ~rows'[a].active
    BY <1>0, <1>2 DEF SweepAll, Swept, Row
  <2> QED BY <2>1, <2>2 DEF SweptBut
<1>3. ASSUME SelectStale(page) PROVE SweptBut(page)'
  <2>1. pass' = [pass EXCEPT ![page].pc = "sweeping", ![page].todo = SweepableRows \ pass[page].snap]
    <3>1. SweepableRows \in SUBSET Alerts
      BY DEF SweepableRows
    <3>2. Limited(SweepableRows, SweepLimit) \subseteq {SweepableRows}
      BY <3>1, LimitedAll, AlertConstants
    <3> QED BY <1>3, <3>2 DEF SelectStale
  <2>2. /\ pass'[page].pc = "sweeping" /\ pass'[page].snap = pass[page].snap
        /\ pass'[page].todo = SweepableRows \ pass[page].snap /\ pass'[page].now = pass[page].now
        /\ rows' = rows
    BY <1>0, <1>3, <2>1 DEF SelectStale, Pass
  <2>3. \A a \in Alerts : rows[a] = NoRow \/ ~rows[a].active \/ a \in SweepableRows
                          \/ Hid(rows[a], pass[page].now)
    BY <1>0 DEF SweepableRows, Visible, Suppressed, Hid, Row, Stamp
  <2> QED BY <2>2, <2>3 DEF SweptBut
<1>4. ASSUME SweepOne(page) PROVE SweptBut(page)'
  <2>1. PICK b \in pass[page].todo :
           /\ rows' = [rows EXCEPT ![b] = IF rows[b] = NoRow THEN NoRow ELSE Swept(rows[b], pass[page].now)]
           /\ pass' = [pass EXCEPT ![page].todo = pass[page].todo \ {b}]
    BY <1>4 DEF SweepOne
  <2>2. /\ pass[page].pc = "sweeping" /\ pass'[page].pc = "sweeping" /\ pass'[page].now = pass[page].now
        /\ pass'[page].snap = pass[page].snap /\ pass'[page].todo = pass[page].todo \ {b}
    BY <1>0, <1>4, <2>1 DEF SweepOne, Pass
  <2>3. \A a \in Alerts \ {b} : rows'[a] = rows[a]
    BY <1>0, <2>1
  <2>4. b \in Alerts => rows'[b] = NoRow \/ ~rows'[b].active
    BY <1>0, <2>1 DEF Swept, Row
  <2> QED BY <2>2, <2>3, <2>4 DEF SweptBut
<1>5. ASSUME \/ \E b \in Alerts : Acknowledge(b) \/ Suppress(b) \/ Close(b)
             \/ Cleanup \/ Tick \/ UNCHANGED vars
      PROVE  SweptBut(page)'
  <2> SUFFICES ASSUME NEW a \in Alerts, rows'[a] # NoRow, rows'[a].active
               PROVE  /\ pass'[page].pc = "sweeping" =>
                            \/ Hid(rows'[a], pass'[page].now)
                            \/ a \in pass'[page].snap \/ a \in pass'[page].todo
                      /\ pass'[page].pc # "answering"
    BY DEF SweptBut
  <2>1. pass' = pass /\ rows[a] # NoRow
    BY <1>0, <1>5, OperatorRow
  <2>2. rows[a] \in Row /\ rows[a].active
    <3>1. rows[a] \in Row
      BY <1>0, <2>1
    <3> QED BY <1>5, <2>1, <3>1, OperatorRow DEF Acknowledged, SuppressedUntil, Closed, Row
  <2>3. Hid(rows[a], pass[page].now) => Hid(rows'[a], pass[page].now)
    BY <1>0, <1>5, <2>1, <2>2, OperatorRow, HidStays
  <2> QED BY <2>1, <2>2, <2>3 DEF SweptBut
<1> QED BY <1>1, <1>2, <1>3, <1>4, <1>5 DEF Next, Step, PassStep

(* A pass that ran and is done has answered. *)
LEMMA AnswersByAnswer ==
    ASSUME NEW page, Handlers = {page}, IInv, [Next]_vars, Answers(page)
    PROVE  Answer(page)
<1>0. pass \in [Handlers -> Pass] /\ pass[page] \in Pass
  BY DEF IInv, TypeOK
<1>1. ASSUME \/ \E b \in Alerts : Acknowledge(b) \/ Suppress(b) \/ Close(b)
             \/ Cleanup \/ Tick \/ UNCHANGED vars
      PROVE  pass' = pass
  BY <1>1 DEF Acknowledge, Suppress, Close, Cleanup, Tick, vars
<1>2. ASSUME \/ \E holding \in SUBSET Alerts : Observe(page, holding)
             \/ Fail(page)
      PROVE  pass'[page].pc # "done"
  BY <1>2, StartOrEnd
<1>3. ASSUME StartUpsert(page) PROVE pass'[page].pc # "done"
  BY <1>0, <1>3 DEF StartUpsert, Locals
<1>4. ASSUME UpsertOne(page) \/ SweepAll(page) \/ SelectStale(page) \/ SweepOne(page)
      PROVE  pass'[page].pc # "done"
  BY <1>0, <1>4 DEF UpsertOne, SweepAll, SelectStale, SweepOne, Pass
<1>5. pass[page].pc # "done" /\ pass'[page].pc = "done"
  BY DEF Answers
<1> QED BY <1>1, <1>2, <1>3, <1>4, <1>5 DEF Next, Step, PassStep

(* With one page open a response shows only what its own pass observed, or what
   was suppressed when the sweep chose its rows. *)
THEOREM OnlyObservedShown ==
    ASSUME NEW page, Handlers = {page}, IsFiniteSet(Alerts), Cardinality(Alerts) <= SweepLimit
    PROVE  Spec => ShowsOnlyObserved
<1>1. Init => SweptBut(page)
  BY DEF Init, IdlePass, Locals, SweptBut
<1>2. IInv /\ SweptBut(page) /\ [Next]_vars => SweptBut(page)'
  BY SweptButStep
<1> DEFINE Shows == \A h \in Handlers : Answers(h) =>
                       \A a \in pass'[h].shown : a \in pass[h].snap \/ HiddenDuring(h, a)
<1>3. IInv /\ SweptBut(page) /\ [Next]_vars => [Shows]_vars
  <2> SUFFICES ASSUME IInv, SweptBut(page), Next, Answers(page), NEW a \in pass'[page].shown
               PROVE  a \in pass[page].snap \/ HiddenDuring(page, a)
    OBVIOUS
  <2>0. /\ rows \in [Alerts -> Row \cup {NoRow}] /\ clock \in Nat
        /\ pass \in [Handlers -> Pass] /\ pass[page] \in Pass /\ pass[page].now \in Nat
        /\ pass[page].now <= clock
    BY DEF IInv, TypeOK, NowReached, Pass
  <2>1. Answer(page)
    BY AnswersByAnswer
  <2>2. a \in Alerts /\ Visible(rows[a], clock)
    <3>1. PICK includeAck \in BOOLEAN :
             \E T \in Limited({b \in Alerts : Visible(rows[b], clock) /\ (includeAck \/ ~rows[b].acked)}, ShowLimit) :
             \E S \in Deduped(T) : pass' = [pass EXCEPT ![page] = Locals("done", {}, 0, {}, S)]
      BY <2>1 DEF Answer
    <3>2. PICK S : /\ S \subseteq {b \in Alerts : Visible(rows[b], clock)}
                   /\ pass' = [pass EXCEPT ![page] = Locals("done", {}, 0, {}, S)]
      BY <3>1 DEF Limited, Deduped
    <3>3. pass'[page].shown = S
      BY <2>0, <3>2 DEF Locals
    <3> QED BY <3>2, <3>3
  <2>3. pass[page].todo = {} \/ pass[page].pc = "answering"
    BY <2>1 DEF Answer
  <2> QED BY <2>0, <2>1, <2>2, <2>3 DEF SweptBut, Answer, Visible, Hid, HiddenDuring
<1> QED BY <1>1, <1>2, <1>3, InitIInv, NextIInv, PTL DEF Spec, ShowsOnlyObserved

(* What the pass has written of what it observed is active, unless it was
   acknowledged, suppressed or purged meanwhile; a pass that goes straight to
   its response has observed nothing. *)
WrittenHeld(h) ==
    /\ \A a \in pass[h].snap :
          Writing(h) => \/ rows[a] = NoRow \/ rows[a].acked \/ rows[a].active
                        \/ Hid(rows[a], pass[h].now)
                        \/ pass[h].pc = "upserting" /\ a \in pass[h].todo
    /\ pass[h].pc = "answering" => pass[h].snap = {}

LEMMA UpsertShows ==
    ASSUME NEW r \in Row \cup {NoRow}, NEW t \in Nat
    PROVE  Upserted(r, t).active \/ Hid(Upserted(r, t), t)
<1>1. CASE r = NoRow
  BY <1>1 DEF Upserted, FreshRow
<1>2. CASE r # NoRow /\ ~Suppressed(r, t)
  BY <1>2 DEF Upserted, ActiveAfter
<1>3. CASE r # NoRow /\ Suppressed(r, t)
  BY <1>3, AlertConstants DEF Upserted, Suppressed, Hid, Row, Stamp
<1> QED BY <1>1, <1>2, <1>3

LEMMA WrittenHeldStep ==
    ASSUME NEW page, Handlers = {page}, IInv, SweepsUnobserved, WrittenHeld(page), [Next]_vars
    PROVE  WrittenHeld(page)'
<1>0. /\ rows \in [Alerts -> Row \cup {NoRow}] /\ clock \in Nat /\ NoRow \notin Row
      /\ pass \in [Handlers -> Pass] /\ pass[page] \in Pass /\ pass[page].now \in Nat
      /\ pass[page].snap \subseteq Alerts /\ pass[page].now <= clock /\ clock <= MaxTime
  BY AlertConstants DEF IInv, TypeOK, NowReached, Pass
<1>1. ASSUME (\E holding \in SUBSET Alerts : Observe(page, holding)) \/ Answer(page) \/ Fail(page)
      PROVE  WrittenHeld(page)'
  BY <1>1, StartOrEnd DEF WrittenHeld, Writing
<1>2. ASSUME StartUpsert(page) PROVE WrittenHeld(page)'
  BY <1>0, <1>2 DEF StartUpsert, Locals, WrittenHeld, Writing
<1>3. ASSUME UpsertOne(page) PROVE WrittenHeld(page)'
  <2>1. PICK b \in pass[page].todo :
           /\ rows' = [rows EXCEPT ![b] = Upserted(rows[b], pass[page].now)]
           /\ pass' = [pass EXCEPT ![page].todo = pass[page].todo \ {b}]
    BY <1>3 DEF UpsertOne
  <2>2. /\ pass[page].pc = "upserting" /\ pass'[page].pc = "upserting" /\ pass'[page].now = pass[page].now
        /\ pass'[page].snap = pass[page].snap /\ pass'[page].todo = pass[page].todo \ {b}
    BY <1>0, <1>3, <2>1 DEF UpsertOne, Pass
  <2>3. \A a \in Alerts \ {b} : rows'[a] = rows[a]
    BY <1>0, <2>1
  <2>4. b \in Alerts => rows'[b].active \/ Hid(rows'[b], pass[page].now)
    BY <1>0, <2>1, UpsertShows
  <2> QED BY <1>0, <2>2, <2>3, <2>4 DEF WrittenHeld, Writing
<1>4. ASSUME SweepAll(page) PROVE WrittenHeld(page)'
  BY <1>0, <1>4 DEF SweepAll, WrittenHeld, Writing, Pass
<1>5. ASSUME SelectStale(page) PROVE WrittenHeld(page)'
  <2>1. /\ pass[page].pc = "upserting" /\ pass[page].todo = {} /\ rows' = rows
        /\ pass'[page].pc = "sweeping" /\ pass'[page].now = pass[page].now
        /\ pass'[page].snap = pass[page].snap
    BY <1>0, <1>5 DEF SelectStale, Pass
  <2> QED BY <2>1 DEF WrittenHeld, Writing
<1>6. ASSUME SweepOne(page) PROVE WrittenHeld(page)'
  <2>1. PICK b \in pass[page].todo :
           /\ rows' = [rows EXCEPT ![b] = IF rows[b] = NoRow THEN NoRow ELSE Swept(rows[b], pass[page].now)]
           /\ pass' = [pass EXCEPT ![page].todo = pass[page].todo \ {b}]
    BY <1>6 DEF SweepOne
  <2>2. /\ pass[page].pc = "sweeping" /\ pass'[page].pc = "sweeping" /\ pass'[page].now = pass[page].now
        /\ pass'[page].snap = pass[page].snap
    BY <1>0, <1>6, <2>1 DEF SweepOne, Pass
  <2>3. b \notin pass[page].snap
    BY <2>2 DEF SweepsUnobserved
  <2>4. \A a \in pass[page].snap : rows'[a] = rows[a]
    BY <1>0, <2>1, <2>3
  <2> QED BY <2>2, <2>4 DEF WrittenHeld, Writing
<1>7. ASSUME \/ \E b \in Alerts : Acknowledge(b) \/ Suppress(b) \/ Close(b)
             \/ Cleanup \/ Tick \/ UNCHANGED vars
      PROVE  WrittenHeld(page)'
  <2>1. pass' = pass
    BY <1>7 DEF Acknowledge, Suppress, Close, Cleanup, Tick, vars
  <2>2. ASSUME NEW a \in pass[page].snap
        PROVE  rows'[a] = rows[a] \/ rows'[a] = NoRow \/ rows'[a].acked
    <3>1. a \in Alerts
      BY <1>0
    <3>2. \/ rows'[a] = rows[a] \/ rows'[a] = NoRow
          \/ /\ rows[a] \in Row
             /\ \/ rows'[a] = Acknowledged(rows[a])
                \/ \E d \in HideSpans : rows'[a] = SuppressedUntil(rows[a], clock + d)
                \/ \E t \in Nat : rows'[a] = Closed(rows[a], t)
      BY <1>0, <1>7, <3>1, OperatorRow
    <3> QED BY <3>2 DEF Acknowledged, SuppressedUntil, Closed, Row
  <2> QED BY <2>1, <2>2 DEF WrittenHeld, Writing
<1> QED BY <1>1, <1>2, <1>3, <1>4, <1>5, <1>6, <1>7 DEF Next, Step, PassStep

(* With one page open everything the pass observed is in its response, itself or
   another alert with its key, unless it was acknowledged, suppressed or purged. *)
THEOREM AllObservedShown ==
    ASSUME NEW page, Handlers = {page}, IsFiniteSet(Alerts), Cardinality(Alerts) <= ShowLimit
    PROVE  Spec => ShowsAllObserved
<1>1. Init => SweepsUnobserved /\ WrittenHeld(page)
  BY DEF Init, IdlePass, Locals, SweepsUnobserved, WrittenHeld, Writing
<1>2. IInv /\ SweepsUnobserved /\ WrittenHeld(page) /\ [Next]_vars => SweepsUnobserved' /\ WrittenHeld(page)'
  BY SweepStep, WrittenHeldStep
<1> DEFINE Shows == \A h \in Handlers : Answers(h) =>
                       \A a \in pass[h].snap :
                          \/ rows[a] = NoRow \/ rows[a].acked \/ HiddenDuring(h, a)
                          \/ \E b \in pass'[h].shown : KeyOf[b] = KeyOf[a]
<1>3. IInv /\ WrittenHeld(page) /\ [Next]_vars => [Shows]_vars
  <2> SUFFICES ASSUME IInv, WrittenHeld(page), Next, Answers(page), NEW a \in pass[page].snap,
                      rows[a] # NoRow, ~rows[a].acked, ~HiddenDuring(page, a)
               PROVE  \E b \in pass'[page].shown : KeyOf[b] = KeyOf[a]
    OBVIOUS
  <2>0. /\ rows \in [Alerts -> Row \cup {NoRow}] /\ clock \in Nat
        /\ pass \in [Handlers -> Pass] /\ pass[page] \in Pass /\ pass[page].now \in Nat
        /\ pass[page].now <= clock /\ a \in Alerts /\ rows[a] \in Row
    BY DEF IInv, TypeOK, NowReached, Pass
  <2>1. Answer(page)
    BY AnswersByAnswer
  <2>2. Visible(rows[a], clock) /\ ~rows[a].acked
    <3>1. rows[a].active
      BY <2>1 DEF Answer, WrittenHeld, Writing, Hid, HiddenDuring
    <3>2. ~Suppressed(rows[a], clock)
      BY <2>0 DEF Suppressed, HiddenDuring, Row, Stamp
    <3> QED BY <3>1, <3>2 DEF Visible
  <2>3. PICK includeAck \in BOOLEAN :
           \E T \in Limited({b \in Alerts : Visible(rows[b], clock) /\ (includeAck \/ ~rows[b].acked)}, ShowLimit) :
           \E S \in Deduped(T) : pass' = [pass EXCEPT ![page] = Locals("done", {}, 0, {}, S)]
    BY <2>1 DEF Answer
  <2> DEFINE Shown == {b \in Alerts : Visible(rows[b], clock) /\ (includeAck \/ ~rows[b].acked)}
  <2>4. Shown \in SUBSET Alerts /\ a \in Shown
    BY <2>0, <2>2
  <2>5. Limited(Shown, ShowLimit) \subseteq {Shown}
    BY <2>4, LimitedAll, AlertConstants
  <2>6. PICK S \in Deduped(Shown) : pass' = [pass EXCEPT ![page] = Locals("done", {}, 0, {}, S)]
    BY <2>3, <2>5
  <2>7. pass'[page].shown = S
    BY <2>0, <2>6 DEF Locals
  <2> QED BY <2>4, <2>6, <2>7, DedupedKeys
<1> QED BY <1>1, <1>2, <1>3, InitIInv, NextIInv, PTL DEF Spec, ShowsAllObserved
=============================================================================
