----------------------------- MODULE AlertStore -----------------------------
(***************************************************************************)
(* The alert_records table of internal/storage/storage.go and the HTTP     *)
(* handlers of internal/agent/alerts_api.go that read and write it.        *)
(*                                                                         *)
(* A GET of the unified alerts is a "pass": it observes the conditions     *)
(* that hold, upserts one row per observed alert, sweeps the active rows   *)
(* it did not observe and answers with what is left.  net/http runs each   *)
(* request in a goroutine of its own and the store opens no transaction,   *)
(* so the SQL statements of several passes interleave with each other and  *)
(* with the acknowledge, suppress, close and cleanup requests.  One SQL    *)
(* statement is one atomic step (SQLite serialises the writers).           *)
(*                                                                         *)
(* An alert is identified by its fingerprint.  The text columns (title,    *)
(* evidence, labels) and last_seen, which only orders a report's list, are *)
(* left out, and of acknowledged_at only whether it is empty is kept.      *)
(***************************************************************************)
EXTENDS Integers, FiniteSets

CONSTANTS
    Alerts,      \* the fingerprints that can occur
    Handlers,    \* the goroutines that may run a pass at the same time
    SourceOf,    \* which collector an alert comes from
    KeyOf,       \* alertDedupeKey: alerts with one key are shown as one
    HideSpans,   \* suppression lengths a request may ask for; 0 stands for one
                 \* that is over at once (duration_hours too large for int64)
    Retention,   \* alert_history_retention_days; 0 when a tick of the clock is longer
    SweepLimit,  \* the LIMIT of the sweep's SELECT (1000 in the code)
    ShowLimit,   \* the LIMIT of the response's SELECT (300 in the code)
    MaxTime,     \* bound on the clock
    Forever,     \* the year 9999 that CloseAlert writes
    NoTime,      \* the empty string in a timestamp column
    NoRow        \* the fingerprint has no row

(* The collectors; "port-changes" are the device-intelligence alerts made from
   device events. *)
Sources == {"internal", "prometheus", "device-intelligence", "port-changes", "expected-state"}

(* Timestamps are clock readings, "" is none of them.  The state "active" stands
   for every state a collector reports: all but "closed". *)
Stamp == Nat \cup {NoTime}

Row == [active : BOOLEAN, state : {"active", "closed"},
        acked : BOOLEAN, ackedAt : BOOLEAN,
        first : Nat, cleared : Stamp, until : Stamp]

Pass == [pc : {"idle", "observed", "upserting", "sweeping", "answering", "done"},
         snap : SUBSET Alerts, now : Nat, todo : SUBSET Alerts, shown : SUBSET Alerts]

ASSUME AlertConstants ==
    /\ SourceOf \in [Alerts -> Sources]
    /\ HideSpans \subseteq Nat
    /\ Retention \in Nat /\ SweepLimit \in Nat /\ ShowLimit \in Nat
    /\ MaxTime \in Nat /\ Forever \in Nat /\ Forever > MaxTime
    /\ NoTime \notin Int
    /\ NoRow \notin Row

VARIABLES
    clock,  \* wall-clock time
    rows,   \* the table
    pass    \* per handler, the local variables of the request it serves

vars == <<clock, rows, pass>>

-----------------------------------------------------------------------------
(* What one row says at time t. *)

Suppressed(r, t) == r.until # NoTime /\ r.until > t

(* The WHERE of AlertRecords(activeOnly = true). *)
Visible(r, t) == r # NoRow /\ r.active /\ ~Suppressed(r, t)

Locals(pc, snap, now, todo, shown) ==
    [pc |-> pc, snap |-> snap, now |-> now, todo |-> todo, shown |-> shown]

IdlePass == Locals("idle", {}, 0, {}, {})

Init ==
    /\ clock = 0
    /\ rows = [a \in Alerts |-> NoRow]
    /\ pass = [h \in Handlers |-> IdlePass]

-----------------------------------------------------------------------------
(* The single-row statements, as functions of the old row and of "now". *)

FreshRowUnstamped(t) ==
    [active |-> TRUE, state |-> "active", acked |-> FALSE, ackedAt |-> FALSE,
     first |-> NoTime, cleared |-> NoTime, until |-> NoTime]

FreshRow(t) ==
    [active |-> TRUE, state |-> "active", acked |-> FALSE, ackedAt |-> FALSE,
     first |-> t, cleared |-> NoTime, until |-> NoTime]

(* The columns INSERT ... ON CONFLICT DO UPDATE computes: every right-hand
   side reads the old row.  A row that is inactive loses its acknowledgement;
   one that is suppressed keeps its activity and its clear time. *)
AckForgotten(r) == FALSE
StillAcked(r) == r.acked
AckAfter(r) == r.active /\ r.acked

NeverRevived(r, t) == r.until = NoTime \/ r.active
ActiveAfter(r, t) == Suppressed(r, t) => r.active

ClearedAfter(r, t) == IF Suppressed(r, t) THEN r.cleared ELSE NoTime

FirstSeenAgain(r, t) == t
FirstSeenAfter(r, t) == r.first

Upserted(r, t) ==
    IF r = NoRow THEN FreshRow(t)
    ELSE [active |-> ActiveAfter(r, t), state |-> "active",
          acked |-> AckAfter(r), ackedAt |-> r.active /\ r.ackedAt,
          first |-> FirstSeenAfter(r, t), cleared |-> ClearedAfter(r, t), until |-> r.until]

Stamped(old, t) == IF old = NoTime THEN t ELSE old

Swept(r, t) == [r EXCEPT !.active = FALSE, !.cleared = Stamped(r.cleared, t)]

Acknowledged(r) == [r EXCEPT !.acked = TRUE, !.ackedAt = TRUE]

SuppressedUntil(r, u) == [Acknowledged(r) EXCEPT !.until = u]

ClosedUntimed(r, t) ==
    [Acknowledged(r) EXCEPT !.active = FALSE, !.state = "closed", !.until = Forever]

Closed(r, t) ==
    [Acknowledged(r) EXCEPT !.active = FALSE, !.state = "closed",
                               !.cleared = Stamped(r.cleared, t), !.until = Forever]

-----------------------------------------------------------------------------
(* Selections over sets of alerts. *)

(* dedupeAlertRecords keeps one record per key; an internal record beats one
   of another source, and between equals the texts decide, which the model
   leaves open. *)
Deduped(S) ==
    {T \in SUBSET S :
        /\ {KeyOf[a] : a \in T} = {KeyOf[a] : a \in S}
        /\ \A a, b \in T : KeyOf[a] = KeyOf[b] => a = b
        /\ \A a \in T, b \in S :
              KeyOf[a] = KeyOf[b] /\ SourceOf[b] = "internal" => SourceOf[a] = "internal"}

(* ORDER BY acknowledged ASC, first_seen DESC. *)
ListedBefore(r, s) ==
    \/ ~r.acked /\ s.acked
    \/ r.acked = s.acked /\ r.first > s.first

(* The LIMIT keeps the head of that order; ties may fall either way. *)
Limited(S, limit) ==
    {T \in SUBSET S :
        /\ Cardinality(T) = IF Cardinality(S) < limit THEN Cardinality(S) ELSE limit
        /\ \A a \in S \ T, b \in T : ~ListedBefore(rows[a], rows[b])}

-----------------------------------------------------------------------------
(* Time passes. *)
Tick == clock < MaxTime /\ clock' = clock + 1 /\ UNCHANGED <<rows, pass>>

-----------------------------------------------------------------------------
(* One pass of GET /api/v1/alerts/unified. *)

From(source, holding) == {a \in holding : SourceOf[a] = source}

(* What each collector may return when the conditions in "holding" hold.  One
   that fails contributes nothing and fails nothing: Prometheus has 3 seconds
   to answer, the device alerts need a query of their own, the port changes
   one more after it, and the expectations a third. *)
FromPrometheus(holding) == {{}, From("prometheus", holding)}

FromDevices(holding) ==
    {{}, From("device-intelligence", holding),
     From("device-intelligence", holding) \cup From("port-changes", holding)}

FromExpectations(holding) == {{}, From("expected-state", holding)}

(* currentAlertRecords; the health evaluation that fails fails the pass. *)
Observe(h, holding) ==
    /\ pass[h].pc \in {"idle", "done"}
    /\ \E P \in FromPrometheus(holding), D \in FromDevices(holding), E \in FromExpectations(holding) :
       \E S \in Deduped(From("internal", holding) \cup P \cup D \cup E) :
          pass' = [pass EXCEPT ![h] = Locals("observed", S, 0, {}, {})]
    /\ UNCHANGED <<clock, rows>>

(* UpsertAlertRecords reads the clock once, for every statement it runs. *)
StartUpsert(h) ==
    /\ pass[h].pc = "observed"
    /\ pass' = [pass EXCEPT ![h] = Locals("upserting", pass[h].snap, clock, pass[h].snap, {})]
    /\ UNCHANGED <<clock, rows>>

UpsertOne(h) ==
    /\ pass[h].pc = "upserting"
    /\ \E a \in pass[h].todo :
          /\ rows' = [rows EXCEPT ![a] = Upserted(rows[a], pass[h].now)]
          /\ pass' = [pass EXCEPT ![h].todo = pass[h].todo \ {a}]
    /\ UNCHANGED clock

(* Nothing observed: one UPDATE over every active row, the suppressed ones too. *)
SweepAll(h) ==
    /\ pass[h].pc = "upserting" /\ pass[h].snap = {}
    /\ rows' = [a \in Alerts |->
                   IF rows[a] # NoRow /\ rows[a].active THEN Swept(rows[a], pass[h].now)
                   ELSE rows[a]]
    /\ pass' = [pass EXCEPT ![h].pc = "answering"]
    /\ UNCHANGED clock

(* Something observed: SELECT the visible rows now, UPDATE them one by one later. *)
OpenRows == {a \in Alerts : Visible(rows[a], clock) /\ ~rows[a].acked}
SweepableRows == {a \in Alerts : Visible(rows[a], clock)}

SelectStale(h) ==
    /\ pass[h].pc = "upserting" /\ pass[h].todo = {} /\ pass[h].snap # {}
    /\ \E T \in Limited(SweepableRows, SweepLimit) :
          pass' = [pass EXCEPT ![h].pc = "sweeping", ![h].todo = T \ pass[h].snap]
    /\ UNCHANGED <<clock, rows>>

SweepOne(h) ==
    /\ pass[h].pc = "sweeping"
    /\ \E a \in pass[h].todo :
          /\ rows' = [rows EXCEPT ![a] = IF rows[a] = NoRow THEN NoRow
                                         ELSE Swept(rows[a], pass[h].now)]
          /\ pass' = [pass EXCEPT ![h].todo = pass[h].todo \ {a}]
    /\ UNCHANGED clock

Answer(h) ==
    /\ pass[h].pc = "answering" \/ (pass[h].pc = "sweeping" /\ pass[h].todo = {})
    /\ \E includeAck \in BOOLEAN :
       \E T \in Limited({a \in Alerts : Visible(rows[a], clock) /\ (includeAck \/ ~rows[a].acked)},
                        ShowLimit) :
       \E S \in Deduped(T) :
          pass' = [pass EXCEPT ![h] = Locals("done", {}, 0, {}, S)]
    /\ UNCHANGED <<clock, rows>>

(* A statement that fails ends the pass with a 500 and so does a crash of the
   process; the statements already run stay. *)
Fail(h) ==
    /\ pass[h].pc \notin {"idle", "done"}
    /\ pass' = [pass EXCEPT ![h] = IdlePass]
    /\ UNCHANGED <<clock, rows>>

PassStep(h) ==
    \/ StartUpsert(h)
    \/ UpsertOne(h)
    \/ SweepAll(h)
    \/ SelectStale(h)
    \/ SweepOne(h)
    \/ Answer(h)

-----------------------------------------------------------------------------
(* The operator's requests; each is one statement.  An unknown fingerprint is
   a 404 that changes nothing.  The term of a suppression and the age of what is
   purged are hours and days: they count from the statement. *)

Acknowledge(a) ==
    /\ rows[a] # NoRow
    /\ rows' = [rows EXCEPT ![a] = Acknowledged(rows[a])]
    /\ UNCHANGED <<clock, pass>>

Suppress(a) ==
    /\ rows[a] # NoRow
    /\ \E d \in HideSpans :
          rows' = [rows EXCEPT ![a] = SuppressedUntil(rows[a], clock + d)]
    /\ UNCHANGED <<clock, pass>>

(* CloseAlert reads the clock before its statement, which may wait for others:
   the time it writes is that of any earlier moment. *)
Close(a) ==
    /\ rows[a] # NoRow
    /\ \E t \in 0..clock : rows' = [rows EXCEPT ![a] = Closed(rows[a], t)]
    /\ UNCHANGED <<clock, pass>>

Outdated(r) ==
    /\ r # NoRow /\ ~r.active
    /\ r.cleared # NoTime /\ r.cleared < clock - Retention

(* The alert half of POST /api/v1/reports/cleanup. *)
Cleanup ==
    /\ \E a \in Alerts : Outdated(rows[a])
    /\ rows' = [a \in Alerts |-> IF Outdated(rows[a]) THEN NoRow ELSE rows[a]]
    /\ UNCHANGED <<clock, pass>>

-----------------------------------------------------------------------------
(* Everything but the start of a pass. *)
Step ==
    \/ \E a \in Alerts : Acknowledge(a) \/ Suppress(a) \/ Close(a)
    \/ \E h \in Handlers : PassStep(h) \/ Fail(h)
    \/ Cleanup
    \/ Tick

(* What the collectors find is not the store's business: any set of alerts. *)
Next ==
    \/ \E h \in Handlers : \E holding \in SUBSET Alerts : Observe(h, holding)
    \/ Step

Spec == Init /\ [][Next]_vars

-----------------------------------------------------------------------------
(* The properties. *)

(* The type of the table and of the handlers' locals. *)
TypeOK ==
    /\ clock \in Nat
    /\ rows \in [Alerts -> Row \cup {NoRow}]
    /\ pass \in [Handlers -> Pass]

(* The columns of a row agree, whichever statements of whichever requests
   wrote it and however late: a row is active exactly when it has no clear
   time, acknowledged exactly when it has an acknowledgement time, a closed
   row is inactive, acknowledged and hidden for good or for a term the
   operator chose, and what is hidden while active is acknowledged. *)
Consistent(r, t) ==
    /\ r.active <=> r.cleared = NoTime
    /\ r.acked <=> r.ackedAt
    /\ r.state = "closed" => ~r.active /\ r.acked /\ r.until # NoTime
    /\ r.active /\ Suppressed(r, t) => r.acked

RowsConsistent == \A a \in Alerts : rows[a] # NoRow => Consistent(rows[a], clock)

(* What an operator sees of a row at time t. *)
StatusOf(r, t) ==
    IF r = NoRow THEN "none"
    ELSE IF Suppressed(r, t) THEN (IF r.active THEN "muted" ELSE "hidden")
    ELSE IF ~r.active THEN "cleared"
    ELSE IF r.acked THEN "acknowledged" ELSE "open"

StatusMap == [a \in Alerts |-> StatusOf(rows[a], clock)]

Lifecycle == INSTANCE AlertLifecycle WITH status <- StatusMap

(* The interleaved statements of any number of passes and requests implement
   the life cycle: no race un-acknowledges a shown alert, brings a hidden one
   back before its term or re-opens a cleared one as acknowledged. *)
ImplementsLifecycle == Lifecycle!Spec

Answers(h) == pass[h].pc \in {"answering", "sweeping"} /\ pass'[h].pc = "done"

(* The row was suppressed for some of the time the pass of h has run. *)
HiddenDuring(h, a) == rows[a].until # NoTime /\ rows[a].until >= pass[h].now

(* One page open: a response shows only what its own pass observed, except an
   alert that was suppressed when the sweep selected its rows and is not any
   more when the response does. *)
ShowsOnlyObserved ==
    [][\A h \in Handlers : Answers(h) =>
          \A a \in pass'[h].shown : a \in pass[h].snap \/ HiddenDuring(h, a)]_vars

(* One page open: what the pass observed is in the response, itself or another
   alert with its dedupe key, unless it is acknowledged, was suppressed while
   the pass ran or was purged. *)
ShowsAllObserved ==
    [][\A h \in Handlers : Answers(h) =>
          \A a \in pass[h].snap :
             \/ rows[a] = NoRow \/ rows[a].acked \/ HiddenDuring(h, a)
             \/ \E b \in pass'[h].shown : KeyOf[b] = KeyOf[a]]_vars

ClearedTooSoon(r) == r # NoRow /\ r.cleared # NoTime /\ r.cleared < r.first

(* One page open: only a request to close an alert may put the time it was
   cleared before the time it was first seen, namely one that waited while the
   row was purged and inserted again.  Passes never do, although closing and
   sweeping stamp different readings of the clock and a pass uses one reading
   for all it writes. *)
OnlyCloseClearsTooSoon ==
    [][\A a \in Alerts : ClearedTooSoon(rows'[a]) =>
          \/ ClearedTooSoon(rows[a])
          \/ rows[a] # NoRow /\ \E t \in 0..clock : rows'[a] = Closed(rows[a], t)]_vars
=============================================================================
