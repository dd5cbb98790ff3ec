-------------------------- MODULE HealthEvaluation --------------------------
(***************************************************************************)
(* The health of a site, as verdict.Evaluate computes it from the latest   *)
(* samples and as the agent then changes it: for the device inventory, for *)
(* the configured thresholds and for the advanced checks.                  *)
(*                                                                         *)
(* A view is what the queries of one evaluation find in the tables: the    *)
(* latest sample of each target and the earlier values of each target, the *)
(* number of new and of missing devices and the latest severity of each    *)
(* advanced check.  Pings, lookups and requests are asked for twice, once  *)
(* for Evaluate and then for the thresholds.  Evaluate reads fewer rows    *)
(* than the thresholds do, but of one type of target: the sample of a      *)
(* target that is not probed any more may be among the rows of the one     *)
(* (near), of the other (far) or of both.  Samples may be saved in between *)
(* (since), and a query for the thresholds may fail (failed), which skips  *)
(* its part.  A ratio of floating point numbers is compared by multiplying *)
(* out.  Texts are left out; a verdict is its severity, category and code  *)
(* and what it is about.                                                   *)
(***************************************************************************)
EXTENDS Integers, Sequences, FiniteSets, Functions

CONSTANTS
    Hosts,        \* the internet ping targets
    Lookups,      \* resolver, domain and record type of the DNS checks
    SystemLookups,\* those through the system's resolver
    Services,     \* the HTTP targets
    Checks,       \* the advanced checks that are switched on
    Global,       \* the global thresholds
    PerTarget,    \* those of single targets
    PingSamples, DNSSamples, HTTPSamples,  \* what a probe may find
    Pasts,        \* the earlier values a target may have
    Timeout,      \* of a request, in milliseconds
    Gateway, Nothing

(* ThresholdSet, without the speed limits that mergeThreshold leaves alone. *)
Limits == {"lossWarning", "lossCritical", "latencyWarning", "latencyCritical",
           "latencyRelative", "dnsWarning", "dnsCritical", "httpWarning", "httpCritical",
           "httpRelative", "tlsWarning", "tlsCritical"}

Targets == Hosts \cup {Gateway} \cup Lookups \cup Services

ASSUME HealthConstants ==
    /\ Gateway \notin Hosts /\ SystemLookups \subseteq Lookups
    /\ Global \in [Limits -> Nat]
    /\ DOMAIN PerTarget \subseteq Targets
    /\ \A t \in DOMAIN PerTarget : PerTarget[t] \in [Limits -> Nat]
    /\ Nothing \notin PingSamples \cup DNSSamples \cup HTTPSamples

(* What the runners store.  A ping is three probes, and what is not up lost them
   all.  A request that got an answer had a certificate that was accepted, and
   it ends with its time-out. *)
ASSUME SampleTypes ==
    /\ IsFiniteSet(Hosts) /\ IsFiniteSet(Lookups) /\ IsFiniteSet(Services) /\ IsFiniteSet(Checks)
    /\ Timeout \in Nat /\ Pasts \subseteq Seq(Nat)
    /\ PingSamples \subseteq [up : BOOLEAN, loss : {0, 33, 67, 100}, latency : Nat]
    /\ \A r \in PingSamples : r.up <=> r.loss < 100
    /\ DNSSamples \subseteq [up : BOOLEAN, duration : Nat]
    /\ HTTPSamples \subseteq [up : BOOLEAN, duration : 0..Timeout, tls : BOOLEAN, days : Nat]
    /\ \A r \in HTTPSamples : r.up => r.tls

VARIABLE view

Verdict(severity, category, code, about) ==
    [severity |-> severity, category |-> category, code |-> code, about |-> about]

(* The targets of a kind that have a sample, and the samples some rows hold. *)
Sampled(samples) == {t \in DOMAIN samples : samples[t] # Nothing}
Among(samples, targets) ==
    [t \in DOMAIN samples |-> IF t \in targets THEN samples[t] ELSE Nothing]
ViewOf(v, targets) == [v EXCEPT !.ping = Among(@, targets), !.dns = Among(@, targets),
                                !.http = Among(@, targets)]

(* What the thresholds find of a kind of sample. *)
Renewed(samples, since) ==
    [t \in DOMAIN samples |-> IF since[t] # Nothing THEN since[t] ELSE samples[t]]
Answered(v, kind, samples) ==
    IF kind \in v.failed THEN Among(samples, {}) ELSE Renewed(Among(samples, v.far), v.since[kind])
Later(v) == [v EXCEPT !.ping = Answered(v, "ping", @), !.dns = Answered(v, "dns", @),
                      !.http = Answered(v, "http", @)]

-----------------------------------------------------------------------------
(* summarize *)

LeastOf(S) == CHOOSE n \in S : \A m \in S : n <= m
MostOf(S) == CHOOSE n \in S : \A m \in S : n >= m

Up(samples) == {t \in Sampled(samples) : samples[t].up}
Internet(v) == [h \in Hosts |-> v.ping[h]]
MaxLoss(v) == MostOf({v.ping[h].loss : h \in Sampled(Internet(v))} \cup {0})
MaxDuration(v) == MostOf({v.http[s].duration : s \in Sampled(v.http)} \cup {0})
TLSDays(v) == {n \in {v.http[s].days : s \in Sampled(v.http)} : n > 0}

(* The share of lookups that succeed; all of them, if there are none. *)
Share(samples, keys) ==
    LET asked == Sampled(samples) \cap keys
    IN  IF asked = {} THEN [ok |-> 1, of |-> 1]
        ELSE [ok |-> Cardinality(Up(samples) \cap keys), of |-> Cardinality(asked)]
SystemDNS(v) == Share(v.dns, SystemLookups)
PublicDNS(v) == Share(v.dns, Lookups \ SystemLookups)
Below(share, percent) == share.ok * 100 < percent * share.of

-----------------------------------------------------------------------------
(* rules *)

GatewayUnstable(g) == ~g.up \/ g.loss > 1 \/ g.latency > 20

Reported(verdict, condition) == IF condition THEN {verdict} ELSE {}

PingRules(v) ==
    LET g == v.ping[Gateway]
    IN  Reported(Verdict("critical", "gateway", "local_gateway_unstable", Gateway),
                 g # Nothing /\ GatewayUnstable(g)) \cup
        Reported(Verdict("warning", "wan", "upstream_packet_loss", ""),
                 g # Nothing /\ g.up /\ g.loss = 0 /\ MaxLoss(v) > 3) \cup
        Reported(Verdict("critical", "wan", "internet_unreachable", ""),
                 Sampled(Internet(v)) # {} /\ Up(Internet(v)) = {})

DNSRules(v) ==
    Reported(Verdict("warning", "dns", "local_dns_problem", ""),
             Below(SystemDNS(v), 90) /\ ~Below(PublicDNS(v), 95)) \cup
    Reported(Verdict("critical", "dns", "dns_general_outage", ""),
             Below(SystemDNS(v), 90) /\ Below(PublicDNS(v), 90))

ServiceRules(v) ==
    UNION {LET r == v.http[s] IN
           Reported(Verdict("warning", "service", "service_down", s), ~r.up) \cup
           Reported(Verdict("warning", "service", "service_slow", s), r.up /\ r.duration > 3000) \cup
           Reported(Verdict("critical", "service", "tls_invalid", s), ~r.tls) \cup
           Reported(Verdict("warning", "service", "tls_expiring", s), r.tls /\ r.days \in 1..14) :
           s \in Sampled(v.http)}

AllWell == Verdict("info", "overall", "healthy", "")

Rules(v) ==
    LET problems == PingRules(v) \cup DNSRules(v) \cup ServiceRules(v)
    IN  IF problems = {} THEN {AllWell} ELSE problems

-----------------------------------------------------------------------------
(* score *)

AtMost(a, b) == IF a < b THEN a ELSE b
Clamp(n) == IF n < 0 THEN 0 ELSE AtMost(n, 100)

WANScore(v) ==
    LET internet == Internet(v)
        up == Cardinality(Up(internet))
        all == Cardinality(Sampled(internet))
        score == IF all = 0 THEN 100
                 ELSE IF up < all THEN Clamp((up * 80) \div all) ELSE Clamp(100 - MaxLoss(v) * 10)
    IN  IF \E x \in PingRules(v) : x.severity = "critical" /\ x.category = "wan"
        THEN AtMost(score, 20) ELSE score

GatewayScore(v) ==
    LET g == v.ping[Gateway]
    IN  CASE g = Nothing -> 100
          [] g # Nothing /\ ~g.up -> 0
          [] g # Nothing /\ g.up /\ g.loss > 0 -> Clamp(100 - g.loss * 30)
          [] OTHER -> IF g.latency > 20 THEN 70 ELSE 100

DNSScore(v) ==
    LET s == SystemDNS(v) p == PublicDNS(v)
    IN  Clamp((60 * s.ok * p.of + 40 * p.ok * s.of) \div (s.of * p.of))

ServiceScore(v) ==
    LET all == Cardinality(Sampled(v.http))
        score == IF all = 0 THEN 100 ELSE Clamp((100 * Cardinality(Up(v.http))) \div all)
        timely == IF MaxDuration(v) > 3000 THEN AtMost(score, 70) ELSE score
    IN  IF TLSDays(v) # {} /\ LeastOf(TLSDays(v)) <= 14 THEN AtMost(timely, 80) ELSE timely

AverageOfChecks(s) == (s.wan + s.dns + s.gateway + s.service) \div 4
Average(s) == (s.wan + s.dns + s.gateway + s.service + s.inventory) \div 5

-----------------------------------------------------------------------------
(* Evaluate, and what evaluateHealth makes of its result. *)

Has(severity, verdicts) == \E x \in verdicts : x.severity = severity

StatusOfVerdicts(verdicts) ==
    IF Has("critical", verdicts) THEN "critical"
    ELSE IF Has("warning", verdicts) THEN "warning" ELSE "healthy"

Evaluate(v) ==
    LET scores == [wan |-> WANScore(v), dns |-> DNSScore(v), gateway |-> GatewayScore(v),
                   service |-> ServiceScore(v), inventory |-> 100]
    IN  [status |-> StatusOfVerdicts(Rules(v)), verdicts |-> Rules(v),
         scores |-> scores, overall |-> Average(scores)]

(* removeHealthyVerdict, and append *)
Appended(verdicts, more) == verdicts \cup more
Added(verdicts, more) == {x \in verdicts : x.code # "healthy"} \cup more
(* A status is raised by what is added, never lowered. *)
SetByWorst(status, more) ==
    IF Has("critical", more) THEN "critical" ELSE IF Has("warning", more) THEN "warning" ELSE status
Raised(status, more) ==
    IF Has("critical", more) THEN "critical"
    ELSE IF Has("warning", more) /\ status = "healthy" THEN "warning" ELSE status

(* applyDeviceInventoryHealth *)
WithInventory(h, v) ==
    LET more == Reported(Verdict("info", "inventory", "new_device_detected", ""), v.new > 0) \cup
                Reported(Verdict("warning", "inventory", "known_device_missing", ""), v.missing > 0)
        scores == [h.scores EXCEPT !.inventory =
                     IF v.missing > 0 THEN AtMost(@, 70) ELSE AtMost(@, 90)]
    IN  IF more = {} THEN h
        ELSE [status |-> Raised(h.status, more), verdicts |-> Added(h.verdicts, more),
              scores |-> scores, overall |-> Average(scores)]

-----------------------------------------------------------------------------
(* The thresholds. *)

(* mergeThreshold: an override of zero overrides nothing. *)
Merged(base, override) == [l \in Limits |-> IF override[l] # 0 THEN override[l] ELSE base[l]]
ThresholdFor(t) == IF t \in DOMAIN PerTarget THEN Merged(Global, PerTarget[t]) ELSE Global

Reached(limit, value) == limit > 0 /\ value >= limit

(* The severity a value has by two limits, if it reaches one of them. *)
Grade(set, warning, critical, value) ==
    IF Reached(set[critical], value) THEN {"critical"}
    ELSE IF Reached(set[warning], value) THEN {"warning"} ELSE {}

(* trimmedAverage leaves out what is more than three times the average. *)
Kept(past) == {i \in DOMAIN past : past[i] * Len(past) <= 3 * SumFunction(past)}
AboveBaseline(value, past, percent) ==
    /\ percent > 0 /\ Len(past) >= 5
    /\ value * 100 * Cardinality(Kept(past)) > SumFunctionOnSet(past, Kept(past)) * (100 + percent)

PingThresholdsOfUp(v) ==
    UNION {{Verdict(grade, "wan", "ping_threshold", t) :
              grade \in Grade(ThresholdFor(t), "lossWarning", "lossCritical", v.ping[t].loss)} :
           t \in Up(v.ping)}
PingThresholds(v) ==
    UNION {LET r == v.ping[t]  set == ThresholdFor(t)
               grades == Grade(set, "lossWarning", "lossCritical", r.loss) \cup
                         Grade(set, "latencyWarning", "latencyCritical", r.latency)
           IN  IF ~r.up THEN {Verdict("critical", "wan", "ping_target_down", t)}
               ELSE {Verdict(grade, "wan", "ping_threshold", t) : grade \in grades} \cup
                    Reported(Verdict("warning", "wan", "ping_threshold", t),
                             AboveBaseline(r.latency, v.past[t], set["latencyRelative"])) :
           t \in Sampled(v.ping)}

DNSThresholds(v) ==
    UNION {LET grades == Grade(ThresholdFor(t), "dnsWarning", "dnsCritical", v.dns[t].duration)
           IN  IF ~v.dns[t].up THEN {Verdict("warning", "dns", "dns_lookup_failed", t)}
               ELSE {Verdict(grade, "dns", "dns_threshold", t) : grade \in grades} :
           t \in Sampled(v.dns)}

(* A response slower than its baseline has the severity its duration has, or a
   warning. *)
SlowGrade(r, past, set) ==
    LET grades == Grade(set, "httpWarning", "httpCritical", r.duration)
    IN  IF grades = {} /\ AboveBaseline(r.duration, past, set["httpRelative"])
        THEN {"warning"} ELSE grades

ExpiryGrade(r, set) ==
    LET within(limit) == set[limit] > 0 /\ r.days <= set[limit]
    IN  IF ~r.tls \/ r.days <= 0 THEN {}
        ELSE IF within("tlsCritical") THEN {"critical"}
        ELSE IF within("tlsWarning") THEN {"warning"} ELSE {}

HTTPThresholds(v) ==
    UNION {LET r == v.http[t]  set == ThresholdFor(t)
           IN  {Verdict(grade, "service", "http_threshold", t) :
                   grade \in SlowGrade(r, v.past[t], set)} \cup
               {Verdict(grade, "service", "tls_expiry_threshold", t) : grade \in ExpiryGrade(r, set)} :
           t \in Sampled(v.http)}

(* applyThresholdHealth *)
WithThresholds(h, v) ==
    LET more == PingThresholds(v) \cup DNSThresholds(v) \cup HTTPThresholds(v)
        status == Raised(h.status, more)
    IN  IF more = {} THEN h
        ELSE [h EXCEPT !.status = status, !.verdicts = Added(@, more),
                       !.overall = AtMost(@, IF status = "critical" THEN 60 ELSE 80)]

(* applyAdvancedHealth.  A warning lowers the score only of a site that was
   healthy so far. *)
WithAdvanced(h, v) ==
    LET raised == {c \in Checks : v.checks[c] \in {"warning", "critical"}}
        more == {Verdict(v.checks[c], "advanced", "check", c) : c \in raised}
    IN  IF more = {} THEN h
        ELSE [h EXCEPT !.status = Raised(@, more), !.verdicts = Added(@, more),
                       !.overall = IF Has("critical", more) THEN AtMost(@, 60)
                                   ELSE IF h.status = "healthy" THEN AtMost(@, 80) ELSE @]

(* evaluateHealth *)
Health(v) ==
    LET rules == Evaluate(ViewOf(v, v.near))
    IN  WithAdvanced(WithThresholds(WithInventory(rules, v), Later(v)), v)

-----------------------------------------------------------------------------
(* What may happen to a view from one evaluation to another. *)

Pinged == Hosts \cup {Gateway}

NoneSince == [ping |-> [t \in Pinged |-> Nothing], dns |-> [t \in Lookups |-> Nothing],
              http |-> [t \in Services |-> Nothing]]

Unprobed == [ping |-> [t \in Pinged |-> Nothing], dns |-> [t \in Lookups |-> Nothing],
             http |-> [t \in Services |-> Nothing], past |-> [t \in Targets |-> <<>>],
             checks |-> [c \in Checks |-> "info"], new |-> 0, missing |-> 0,
             near |-> {}, far |-> {}, since |-> NoneSince, failed |-> {}]

HInit == view = Unprobed

(* The rows of a target that were saved since: the last one and those before it. *)
Newest(t, past) == [view EXCEPT !.past[t] = past, !.near = @ \cup {t}, !.far = @ \cup {t}]

PingSaved == \E t \in Pinged, r \in PingSamples, past \in Pasts :
                view' = [Newest(t, past) EXCEPT !.ping[t] = r]
DNSSaved == \E t \in Lookups, r \in DNSSamples :
               view' = [Newest(t, <<>>) EXCEPT !.dns[t] = r]
HTTPSaved == \E t \in Services, r \in HTTPSamples, past \in Pasts :
                view' = [Newest(t, past) EXCEPT !.http[t] = r]

(* Newer rows of other targets fill a window.  No row of another target is of
   the gateway's type.  The earlier values are rows of the larger window.  The
   rows of lookups and of services are the newest of one table both times. *)
LeavesNear == \E t \in view.near \ {Gateway} :
                 view' = ViewOf([view EXCEPT !.near = @ \ {t}], (view.near \ {t}) \cup view.far)
LeavesFar == \E t \in view.far \ (view.near \cap (Lookups \cup Services)) :
                view' = ViewOf([view EXCEPT !.far = @ \ {t}, !.past[t] = <<>>],
                               view.near \cup (view.far \ {t}))

(* A sample is saved after Evaluate's query and before the one for the thresholds,
   which may fail; the next evaluation is undisturbed. *)
PingSince == \E t \in Pinged, r \in PingSamples, past \in Pasts :
                view' = [view EXCEPT !.since.ping[t] = r, !.past[t] = past]
DNSSince == \E t \in Lookups, r \in DNSSamples : view' = [view EXCEPT !.since.dns[t] = r]
HTTPSince == \E t \in Services, r \in HTTPSamples, past \in Pasts :
                view' = [view EXCEPT !.since.http[t] = r, !.past[t] = past]
QueryFails == \E kind \in {"ping", "dns", "http"} : view' = [view EXCEPT !.failed = @ \cup {kind}]

SavedSince(since) == Sampled(since.ping) \cup Sampled(since.dns) \cup Sampled(since.http)
EvaluatedAnew ==
    view' = [view EXCEPT !.ping = Renewed(@, view.since.ping), !.dns = Renewed(@, view.since.dns),
                         !.http = Renewed(@, view.since.http),
                         !.near = @ \cup SavedSince(view.since), !.far = @ \cup SavedSince(view.since),
                         !.since = NoneSince, !.failed = {}]

(* A query for devices or for advanced checks that fails is as one that finds
   nothing of note. *)
AdvancedSaved == \E c \in Checks, severity \in {"info", "warning", "critical"} :
                    view' = [view EXCEPT !.checks[c] = severity]
DevicesCounted == \E new, missing \in 0..1 :
                     view' = [view EXCEPT !.new = new, !.missing = missing]

HNext == \/ PingSaved \/ DNSSaved \/ HTTPSaved \/ LeavesNear \/ LeavesFar
         \/ PingSince \/ DNSSince \/ HTTPSince \/ QueryFails \/ EvaluatedAnew
         \/ AdvancedSaved \/ DevicesCounted

HSpec == HInit /\ [][HNext]_view

-----------------------------------------------------------------------------
(* The status is the worst severity of the verdicts that are shown with it,
   although four stages add verdicts and each adjusts the status by itself,
   and the site is called healthy in no verdict next to a problem. *)
StatusIsWorst ==
    LET h == Health(view)
    IN  /\ h.status = StatusOfVerdicts(h.verdicts)
        /\ AllWell \in h.verdicts => h.verdicts = {AllWell}

(* The scores of Evaluate, the inventory, the thresholds and the advanced
   checks are lowered by different rules; whatever any of them reports, a site
   scores 100 only if nothing was reported at all. *)
FullScoreMeansHealthy ==
    LET h == Health(view) IN h.overall = 100 => h.verdicts = {AllWell}

(* A target that is found down is reported, whatever the other targets, the
   limits and the advanced checks say, and whatever Evaluate found before: an
   address that does not answer as critical, a lookup or a service at least as a
   warning.  (Services are judged by Evaluate, the others by the thresholds.) *)
FailureIsReported ==
    LET h == Health(view)
        down(samples) == Sampled(samples) \ Up(samples)
    IN  /\ down(Later(view).ping) # {} => h.status = "critical"
        /\ down(Later(view).dns) \cup down(Among(view.http, view.near)) # {} => h.status # "healthy"

NotBetter(s, r) ==
    /\ s # Nothing /\ r # Nothing
    /\ s.up => /\ r.up
               /\ \A field \in DOMAIN r \cap {"loss", "latency", "duration"} : s[field] >= r[field]
    /\ "tls" \in DOMAIN r => (s.tls => r.tls) /\ (s.days = r.days \/ s.days \in 1..r.days)
(* Samples that are in every respect as bad or worse, with nothing else
   changed and nothing that disturbs the evaluation, never heal the site,
   although they make some verdicts go: a general fault hides the local one, a
   lost gateway the lossy uplink; and worse pings never make it less than critical.  (A lookup that fails is a lesser problem
   than one that is slow, and a certificate that ends within the day, with 0
   days left, is none.) *)
WorseningNeverHeals ==
    [][LET kinds == {"ping", "dns", "http"}
           was == Health(view).status
           now == Health(view').status
       IN  /\ view.since = NoneSince /\ view.failed = {}
           /\ \A field \in DOMAIN view \ kinds : view'[field] = view[field]
           /\ \A kind \in kinds : \A t \in DOMAIN view[kind] :
                 view'[kind][t] = view[kind][t] \/ NotBetter(view'[kind][t], view[kind][t])
           => /\ now = "healthy" => was = "healthy"
              /\ view'.ping # view.ping /\ was = "critical" => now = "critical"]_view
=============================================================================
