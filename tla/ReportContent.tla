---------------------------- MODULE ReportContent ----------------------------
(***************************************************************************)
(* What a report says of a site: report.go makes findings of the verdicts, *)
(* the alerts and the rows of the period, groups them, sorts them, sums up *)
(* the alerts, rates five domains and names the one to look at first.      *)
(*                                                                         *)
(* Texts are reduced to what the code looks for in them: the topic that    *)
(* decides the group of a finding, the domains whose terms occur in it, and*)
(* whether its title says that something failed or cannot be reached.      *)
(***************************************************************************)
EXTENDS HealthEvaluation

Ext == INSTANCE SequencesExt

CONSTANTS
    AlertKinds,   \* alerts as the report tells them apart
    RowKinds,     \* rows of the period, likewise
    CheckConcerns,\* the domains the text of an advanced check concerns
    MaxRows       \* bound: alerts and rows of a report

VARIABLES alerts, rows

rvars == <<view, alerts, rows>>

-----------------------------------------------------------------------------
(* Findings. *)

Rank(severity) == CASE severity = "critical" -> 3 [] severity = "warning" -> 2
                    [] severity = "info" -> 1 [] OTHER -> 0
Worse(s, t) == IF Rank(s) > Rank(t) THEN s ELSE t

(* normalizeFindingArea *)
Area(area) == CASE area \in {"http", "tls", "service"} -> "service"
                [] area \in {"wan", "speedtest", "internet"} -> "wan"
                [] area \in {"ping", "gateway", "lan"} -> "lan"
                [] OTHER -> area

Finding(severity, area, topic) == [severity |-> severity, area |-> Area(area), topic |-> topic]

(* periodProblems: an advanced row that is a problem has no word in its line
   that makes it critical. *)
Problem(row) == row.failed \/ row.error \/ row.severity \in {"warning", "critical"}
LineSeverity(row) ==
    IF row.failed /\ row.area \in {"ping", "dns", "http"} THEN "critical" ELSE "warning"

OfVerdict(x) == Finding(x.severity, x.category, x.code)
OfAlert(a) == Finding(a.severity, "alert", a.topic)
OfRow(row) == Finding(LineSeverity(row), row.area, row.topic)

(* What is told of a site: each verdict, each alert and each row that is a
   problem, whatever of them comes first. *)
Told(h) ==
    {<<"verdicts", x>> : x \in h.verdicts \ {AllWell}} \cup
    {<<"alerts", i>> : i \in DOMAIN alerts} \cup
    {<<"rows", i>> : i \in {j \in DOMAIN rows : Problem(rows[j])}}
FindingOf(told) ==
    CASE told[1] = "verdicts" -> OfVerdict(told[2])
      [] told[1] = "alerts" -> OfAlert(alerts[told[2]])
      [] told[1] = "rows" -> OfRow(rows[told[2]])

(* groupFindings *)
Key(f) == <<f.area, f.topic>>
CountOnce(n) == n
Count(n) == n + 1
Joined(groups, f) ==
    LET old == groups[Key(f)]
    IN  IF Key(f) \in DOMAIN groups
        THEN [groups EXCEPT ![Key(f)] = [severity |-> Worse(f.severity, old.severity),
                                         count |-> Count(old.count)]]
        ELSE [k \in DOMAIN groups \cup {Key(f)} |->
                 IF k = Key(f) THEN [severity |-> f.severity, count |-> 1] ELSE groups[k]]
Grouped(h) ==
    Ext!FoldSet(LAMBDA told, groups : Joined(groups, FindingOf(told)), [k \in {} |-> {}], Told(h))

(* prioritizedFindings; what is left to the titles is left open. *)
RankedBefore(g, h) ==
    \/ Rank(g.severity) > Rank(h.severity)
    \/ Rank(g.severity) = Rank(h.severity) /\ g.count > h.count
(* The groups that may be the first row. *)
Leading(groups) ==
    {k \in DOMAIN groups : \A l \in DOMAIN groups : ~RankedBefore(groups[l], groups[k])}

-----------------------------------------------------------------------------
(* alertLifecycleSummary, and the bar whose segments it sizes. *)

Counted(kinds) == Cardinality({i \in DOMAIN alerts : alerts[i] \in kinds})
BarHidden == {a \in AlertKinds : a.hidden}
BarAcked == {a \in AlertKinds : ~a.hidden /\ a.active /\ a.acked}
BarActive == {a \in AlertKinds : ~a.hidden /\ a.active /\ ~a.acked}
BarClosed == {a \in AlertKinds : ~a.hidden /\ ~a.active}

(* lifecycleBar: the segment that completes the total ends where the bar does.
   Widths are in points times the total, of which a segment has its share. *)
BarWidth == 527
SegmentWidth(bar, n) ==
    IF bar.used + n >= Len(alerts) THEN BarWidth * Len(alerts) - bar.offset ELSE BarWidth * n
WithSegment(bar, n) ==
    IF n = 0 THEN bar
    ELSE [used |-> bar.used + n, offset |-> bar.offset + SegmentWidth(bar, n),
          widths |-> Append(bar.widths, SegmentWidth(bar, n))]
Bar ==
    LET none == [used |-> 0, offset |-> 0, widths |-> <<>>]
        acked == WithSegment(WithSegment(none, Counted(BarActive)), Counted(BarAcked))
    IN  WithSegment(WithSegment(acked, Counted(BarClosed)), Counted(BarHidden))

-----------------------------------------------------------------------------
(* The triage board.  What the terms of each domain find. *)

RatedDomains == {"gateway", "wan", "dns", "service", "inventory"}

ASSUME ChecksConcern == CheckConcerns \in [Checks -> SUBSET RatedDomains]

Concerns(x) ==
    CASE x.code = "check" -> CheckConcerns[x.about]
      [] x.code \in {"upstream_packet_loss", "internet_unreachable", "ping_target_down",
                     "ping_threshold"} -> {"gateway", "wan"}
      [] OTHER -> {x.category}

(* The title of such a verdict says "failed" or "unreachable". *)
Dire(x) == x.code \in {"dns_lookup_failed", "internet_unreachable", "check"}

(* The newest speed test; rows are in the order of time, the newest first. *)
SpeedtestFailed ==
    LET tests == {i \in DOMAIN rows : rows[i].area = "wan"}
    IN  tests # {} /\ rows[LeastOf(tests)].failed

(* A domain's evidence, as the severities it names and whether it sounds dire. *)
Evidence(h, d) ==
    {[severity |-> x.severity, dire |-> Dire(x)] :
        x \in {y \in h.verdicts \ {AllWell} : d \in Concerns(y)}} \cup
    {[severity |-> a.severity, dire |-> FALSE] :
        a \in {b \in Ext!ToSet(alerts) : d \in b.concerns}} \cup
    {[severity |-> row.severity, dire |-> FALSE] :
        row \in {r \in Ext!ToSet(rows) : r.area = "advanced" /\ Problem(r) /\ d \in r.concerns}} \cup
    {[severity |-> "info", dire |-> TRUE] : e \in {d} \cap IF SpeedtestFailed THEN {"wan"} ELSE {}}

TriageByScore(score, evidence) ==
    IF score < 50 THEN "critical" ELSE IF score < 80 THEN "warning" ELSE "ok"

TriageStatus(score, evidence) ==
    IF score < 50 \/ \E e \in evidence : e.severity = "critical" \/ e.dire THEN "critical"
    ELSE IF score < 80 \/ \E e \in evidence : e.severity = "warning" THEN "warning" ELSE "ok"
Triage(h) == [d \in RatedDomains |-> TriageStatus(h.scores[d], Evidence(h, d))]

-----------------------------------------------------------------------------
(* primaryDomain: the name it gives, a domain's or one of its own. *)

Lowest(h) == LeastOf({h.scores[d] : d \in RatedDomains})
Weakest(h) ==
    CHOOSE d \in RatedDomains : h.scores[d] = Lowest(h)
PrimaryByScores(h) == IF Lowest(h) < 85 THEN Weakest(h) ELSE "Healthy"

PrimaryDomain(h) ==
    IF h.overall > 0 /\ h.overall < Lowest(h) - 5 THEN "Alerts/thresholds"
    ELSE IF Lowest(h) < 85 THEN Weakest(h)
    ELSE IF h.overall >= 85 THEN "Healthy" ELSE "Alerts/thresholds"

-----------------------------------------------------------------------------
(* The site goes on, and the period gets another alert or another row. *)

CInit == HInit /\ alerts = <<>> /\ rows = <<>>

AlertRecorded == \E a \in AlertKinds : alerts' = Append(alerts, a) /\ UNCHANGED <<view, rows>>
RowRecorded == \E row \in RowKinds : rows' = <<row>> \o rows /\ UNCHANGED <<view, alerts>>

CNext ==
    \/ HNext /\ UNCHANGED <<alerts, rows>>
    \/ (AlertRecorded \/ RowRecorded) /\ Len(alerts') + Len(rows') <= MaxRows

CSpec == CInit /\ [][CNext]_rvars

-----------------------------------------------------------------------------
(* Grouping loses nothing and hides nothing: each thing said is counted in the
   group of its key, with the worst severity said there, and if anything said
   is critical then so is the first of the groups that are shown.  Each alert
   is in one segment of the bar, and the segments fill it. *)
NothingLeftOut ==
    LET told == Told(Health(view))
        groups == Grouped(Health(view))
        within(k) == {t \in told : Key(FindingOf(t)) = k}
        ranks(S) == {Rank(FindingOf(t).severity) : t \in S}
    IN  /\ DOMAIN groups = {Key(FindingOf(t)) : t \in told}
        /\ \A k \in DOMAIN groups :
              /\ groups[k].count = Cardinality(within(k))
              /\ Rank(groups[k].severity) = MostOf(ranks(within(k)))
        /\ \A k \in Leading(groups) : Rank(groups[k].severity) = MostOf(ranks(told))
        /\ Bar.used = Len(alerts) /\ Bar.offset = BarWidth * Len(alerts)
        /\ \A i \in DOMAIN Bar.widths : Bar.widths[i] > 0

(* A verdict that concerns a domain is never milder on the triage board than in
   the health it comes from, and each verdict of Evaluate, the inventory and the
   thresholds concerns one: the words that are looked for and the words of the
   verdicts agree. *)
TriageNeverMilder ==
    LET h == Health(view)  triage == Triage(h)
    IN  \A x \in h.verdicts \ {AllWell} :
           /\ x.category # "advanced" => Concerns(x) \cap RatedDomains # {}
           /\ \A d \in Concerns(x) : x.severity # "info" => Rank(triage[d]) >= Rank(x.severity)

(* A report whose headline is that all is well is one of a site where nothing
   is wrong but that a few of many services are down, or that a few of many
   lookups failed when Evaluate looked and the thresholds knew of none, although
   the headline looks at the scores alone.  (One service of seven that is down,
   or that has no valid certificate, leaves every score at 85 or more, and so
   does one lookup of four through the system's resolver if the query for the
   thresholds fails or finds a later sample; an advanced check that warns lowers
   the score of a healthy site only.) *)
HeadlineIsHonest ==
    LET h == Health(view)
        http == Among(view.http, view.near)
        failing == Sampled(http) \ Up(http)
        dns == Among(view.dns, view.near)
        asked == Sampled(dns) \cap SystemLookups
        unresolved == asked \ Up(dns)
        excused(x) == x.code \in {"service_down", "tls_invalid"} /\ x.about \in failing
        overtaken(x) == /\ x.code \in {"local_dns_problem", "dns_general_outage"}
                        /\ Sampled(Later(view).dns) = Up(Later(view).dns)
    IN  PrimaryDomain(h) = "Healthy" /\ h.status # "healthy" =>
           /\ failing \cup unresolved # {}
           /\ 100 * Cardinality(failing) <= 15 * Cardinality(Sampled(http))
           /\ 4 * Cardinality(unresolved) <= Cardinality(asked)
           /\ \A x \in h.verdicts : x.severity \in {"warning", "critical"} =>
                 excused(x) \/ overtaken(x) \/ (x.category = "advanced" /\ x.severity = "warning")
=============================================================================
