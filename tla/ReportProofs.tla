---------------------------- MODULE ReportProofs ----------------------------
(***************************************************************************)
(* What a report makes of the health of a site, and how it is set, for all *)
(* targets, samples, alerts and rows, and for tables of any length.        *)
(*                                                                         *)
(* The headline looks at scores: the bounds of HealthProofs say what they  *)
(* hide.  The words of a verdict and the words the triage board looks for  *)
(* agree.  What is told is finite, and the groups it is joined to, one     *)
(* after the other, keep count of it.  The layout is composed of parts of  *)
(* which each keeps what is known of the cursor.                           *)
(***************************************************************************)
EXTENDS HealthProofs, ReportContent, ReportLayout

-----------------------------------------------------------------------------
(* The headline of a report.  While the score for lookups is good, a quarter of
   those through the system's resolver failed at most, and one did if a rule says
   so. *)
LEMMA FewUnresolved ==
    ASSUME NEW w, Samples(w)
    PROVE  LET asked == Sampled(w.dns) \cap SystemLookups
               unresolved == asked \ Up(w.dns)
           IN  /\ DNSScore(w) >= 85 => 4 * Cardinality(unresolved) <= Cardinality(asked)
               /\ DNSRules(w) # {} => unresolved # {}
<1> DEFINE up == Up(w.dns) \cap SystemLookups
           asked == Sampled(w.dns) \cap SystemLookups
           unresolved == asked \ Up(w.dns)
<1>1. /\ Cardinality(up) \in Nat /\ Cardinality(asked) \in Nat
      /\ Cardinality(unresolved) = Cardinality(asked) - Cardinality(up)
      /\ unresolved = {} => up = asked
  <2>1. IsFiniteSet(Lookups) /\ DOMAIN w.dns \subseteq Lookups
    BY SampleTypes DEF Samples
  <2>2. asked \in SUBSET Lookups /\ up \in SUBSET asked /\ unresolved = asked \ up
    <3>1. Sampled(w.dns) \subseteq Lookups /\ Up(w.dns) \subseteq Sampled(w.dns)
      BY <2>1 DEF Sampled, Up
    <3> QED BY <3>1
  <2>3. IsFiniteSet(asked) /\ asked \cap up = up
    BY <2>1, <2>2, FS_Subset
  <2>4. Cardinality(unresolved) = Cardinality(asked) - Cardinality(up)
    <3> HIDE DEF asked, up, unresolved
    <3> QED BY <2>2, <2>3, FS_Difference
  <2>5. Cardinality(up) \in Nat /\ Cardinality(asked) \in Nat
    BY <2>1, UpAmongSampled
  <2> QED BY <2>2, <2>4, <2>5
<1>2. /\ DNSScore(w) >= 85 => 4 * (SystemDNS(w).of - SystemDNS(w).ok) <= SystemDNS(w).of
      /\ DNSRules(w) # {} => SystemDNS(w).ok < SystemDNS(w).of
  BY DNSScored
<1>3. CASE asked = {}
  <2>1. SystemDNS(w).ok = 1 /\ SystemDNS(w).of = 1
    BY <1>3 DEF SystemDNS, Share
  <2>2. Cardinality(unresolved) = 0 /\ Cardinality(asked) = 0
    <3>1. unresolved = {}
      BY <1>3
    <3> HIDE DEF unresolved
    <3> QED BY <1>3, <3>1, FS_EmptySet
  <2> HIDE DEF asked, unresolved
  <2> QED BY <1>2, <2>1, <2>2 DEF asked, unresolved
<1>4. CASE asked # {}
  <2>1. SystemDNS(w).ok = Cardinality(up) /\ SystemDNS(w).of = Cardinality(asked)
    BY <1>4 DEF SystemDNS, Share
  <2>2. /\ DNSScore(w) >= 85 => 4 * Cardinality(unresolved) <= Cardinality(asked)
        /\ DNSRules(w) # {} => unresolved # {}
    <3> HIDE DEF up, asked, unresolved
    <3> QED BY <1>1, <1>2, <2>1
  <2> QED BY <2>2
<1> QED BY <1>3, <1>4

(* It says "Healthy" where every domain and the whole have a good score. *)
LEMMA HeadlineScores ==
    ASSUME NEW h, Scored(h), PrimaryDomain(h) = "Healthy"
    PROVE  h.overall >= 85 /\ \A d \in RatedDomains : h.scores[d] >= 85
<1> DEFINE S == {h.scores[d] : d \in RatedDomains}
<1>1. S \subseteq Nat /\ S # {}
  BY DEF Scored, RatedDomains
<1> HIDE DEF S
<1>2. LeastOf(S) \in S /\ \A n \in S : LeastOf(S) <= n
  BY <1>1, LeastIsLeast
<1>3. Lowest(h) = LeastOf(S)
  BY DEF Lowest, S
<1>4. \A d \in RatedDomains : h.scores[d] \in S
  BY DEF S
<1>5. Weakest(h) \in RatedDomains
  <2>1. \E d \in RatedDomains : h.scores[d] = Lowest(h)
    BY <1>2, <1>3 DEF S
  <2> QED BY <2>1 DEF Weakest
<1>6. Weakest(h) # "Healthy"
  BY <1>5 DEF RatedDomains
<1>7. ~(Lowest(h) < 85) /\ h.overall >= 85
  BY <1>6 DEF PrimaryDomain
<1>8. \A n \in S : n >= 85
  <2>1. LeastOf(S) \in Nat /\ ~(LeastOf(S) < 85)
    BY <1>1, <1>2, <1>3, <1>7
  <2>2. ASSUME NEW n \in S PROVE n \in Nat /\ LeastOf(S) <= n
    BY <1>1, <1>2
  <2> QED BY <2>1, <2>2
<1> QED BY <1>4, <1>7, <1>8

(* Under the headline "Healthy" nothing is wrong but that a few of many services
   are down, or without a valid certificate, or that the thresholds knew of no
   failed lookup where Evaluate found a few. *)
LEMMA HeadlineHolds ==
    ASSUME NEW v, Typed(v), PrimaryDomain(Health(v)) = "Healthy"
    PROVE  LET http == Among(v.http, v.near)
               failing == Sampled(http) \ Up(http)
               dns == Among(v.dns, v.near)
               asked == Sampled(dns) \cap SystemLookups
               unresolved == asked \ Up(dns)
           IN  /\ 100 * Cardinality(failing) <= 15 * Cardinality(Sampled(http))
               /\ 4 * Cardinality(unresolved) <= Cardinality(asked)
               /\ \A x \in Health(v).verdicts : x.severity \in {"warning", "critical"} =>
                     \/ x.code \in {"service_down", "tls_invalid"} /\ x.about \in failing
                     \/ /\ x.code \in {"local_dns_problem", "dns_general_outage"}
                        /\ Sampled(Later(v).dns) = Up(Later(v).dns)
                     \/ x.category = "advanced" /\ x.severity = "warning"
               /\ failing \cup unresolved = {} => Health(v).status = "healthy"
<1> DEFINE w == ViewOf(v, v.near)
           http == Among(v.http, v.near)
           failing == Sampled(http) \ Up(http)
           dns == Among(v.dns, v.near)
           asked == Sampled(dns) \cap SystemLookups
           unresolved == asked \ Up(dns)
           bad(x) == x.severity \in {"warning", "critical"}
           excused(x) == x.code \in {"service_down", "tls_invalid"} /\ x.about \in failing
           overtaken(x) == /\ x.code \in {"local_dns_problem", "dns_general_outage"}
                           /\ Sampled(Later(v).dns) = Up(Later(v).dns)
<1>1. /\ Scored(Health(v)) /\ Health(v).scores = Third(v).scores
      /\ \/ Health(v) = Third(v)
         \/ Health(v).overall <= 80
         \/ /\ Third(v).status # "healthy" /\ Health(v).overall = Third(v).overall
            /\ \A x \in Health(v).verdicts :
                  x \in Third(v).verdicts \/ (x.category = "advanced" /\ x.severity = "warning")
  BY Stages, ChecksLower
<1>2. Health(v).overall >= 85 /\ \A d \in RatedDomains : Health(v).scores[d] >= 85
  BY <1>1, HeadlineScores
<1>3. /\ Health(v).overall = Third(v).overall
      /\ Health(v) = Third(v) \/ Third(v).status # "healthy"
      /\ \A x \in Health(v).verdicts :
            x \in Third(v).verdicts \/ (x.category = "advanced" /\ x.severity = "warning")
  <2>1. ~(Health(v).overall <= 80)
    BY <1>1, <1>2 DEF Scored
  <2> QED BY <1>1, <2>1
<1>4. ~(Third(v).overall <= 80)
  BY <1>1, <1>2, <1>3 DEF Scored
<1>5. Third(v) = Second(v) /\ DNSThresholds(Later(v)) = {}
  BY <1>4, Stages, ThresholdsLower DEF Third
<1>6. /\ \A f \in {"wan", "dns", "gateway", "service"} : First(v).scores[f] >= 85
      /\ \A x \in Second(v).verdicts : x \in First(v).verdicts \/ x.severity = "info"
  <2>1. \A d \in RatedDomains : Second(v).scores[d] >= 85
    BY <1>1, <1>2, <1>5, ThresholdsLower
  <2>2. /\ \A f \in {"wan", "dns", "gateway", "service"} : Second(v).scores[f] = First(v).scores[f]
        /\ \/ Second(v) = First(v)
           \/ Second(v).scores.inventory >= 85 =>
                 \A x \in Second(v).verdicts : x \in First(v).verdicts \/ x.severity = "info"
    BY Stages, InventoryLowers DEF Second
  <2> QED BY <2>1, <2>2 DEF RatedDomains
<1>7. Samples(w) /\ w.http = http /\ w.dns = dns
  BY SamplesAmong DEF ViewOf, Typed
<1>8. /\ First(v).verdicts = Rules(w)
      /\ WANScore(w) >= 85 /\ DNSScore(w) >= 85 /\ GatewayScore(w) >= 85 /\ ServiceScore(w) >= 85
  <2>1. /\ First(v).scores = [wan |-> WANScore(w), dns |-> DNSScore(w), gateway |-> GatewayScore(w),
                              service |-> ServiceScore(w), inventory |-> 100]
        /\ First(v).verdicts = Rules(w)
    BY <1>7, RulesScored DEF First
  <2> HIDE DEF w
  <2> QED BY <1>6, <2>1
<1>9. PingRules(w) = {}
  BY <1>7, <1>8, WANScored, GatewayScored
<1>10. /\ 4 * Cardinality(unresolved) <= Cardinality(asked)
       /\ DNSRules(w) # {} => unresolved # {}
  BY <1>7, <1>8, FewUnresolved
<1>11. ASSUME NEW x \in DNSRules(w) PROVE overtaken(x)
  <2>1. x.code \in {"local_dns_problem", "dns_general_outage"}
    <3>1. \/ x = Verdict("warning", "dns", "local_dns_problem", "")
          \/ x = Verdict("critical", "dns", "dns_general_outage", "")
      BY <1>11 DEF DNSRules, Reported
    <3>2. ASSUME x = Verdict("warning", "dns", "local_dns_problem", "")
          PROVE  x.code = "local_dns_problem"
      BY <3>2 DEF Verdict
    <3>3. ASSUME x = Verdict("critical", "dns", "dns_general_outage", "")
          PROVE  x.code = "dns_general_outage"
      BY <3>3 DEF Verdict
    <3> QED BY <3>1, <3>2, <3>3
  <2>2. Sampled(Later(v).dns) = Up(Later(v).dns)
    <3>1. \A t \in Sampled(Later(v).dns) : Later(v).dns[t].up
      BY <1>5 DEF DNSThresholds
    <3> QED BY <3>1 DEF Up
  <2> QED BY <2>1, <2>2
<1>12. /\ 100 * Cardinality(failing) <= 15 * Cardinality(Sampled(http))
       /\ \A x \in ServiceRules(w) : excused(x)
  BY <1>7, <1>8, ServiceScored
<1>13. ASSUME NEW x \in First(v).verdicts, bad(x)
       PROVE  /\ excused(x) \/ overtaken(x)
              /\ failing \cup unresolved # {}
  <2>1. x \in DNSRules(w) \/ x \in ServiceRules(w)
    BY <1>8, <1>9, <1>13, AllWellIsInfo DEF Rules
  <2> HIDE DEF w, unresolved
  <2> QED BY <1>10, <1>11, <1>12, <2>1
<1>14. \A x \in Third(v).verdicts :
          bad(x) => /\ excused(x) \/ overtaken(x)
                    /\ failing \cup unresolved # {}
  <2> HIDE DEF w, unresolved
  <2> QED BY <1>5, <1>6, <1>13
<1>15. failing \cup unresolved = {} => Third(v).status = "healthy"
  BY <1>14, Stages DEF Sound, StatusOfVerdicts, Has
<1> HIDE DEF failing, asked, unresolved
<1> QED BY <1>3, <1>10, <1>12, <1>14, <1>15 DEF failing, asked, unresolved

LEMMA ContentTyped == CSpec => []ViewIsTyped
<1>1. CInit => ViewIsTyped
  BY BlankTyped DEF CInit
<1>2. ViewIsTyped /\ [CNext]_rvars => ViewIsTyped'
  <2>1. [CNext]_rvars => [HNext]_view
    BY DEF CNext, AlertRecorded, RowRecorded, rvars
  <2> QED BY <2>1, ViewStaysTyped
<1> QED BY <1>1, <1>2, PTL DEF CSpec

(* The headline looks at the scores alone, and still says that all is well of no
   site where something else is wrong. *)
THEOREM HeadlineStaysHonest == CSpec => []HeadlineIsHonest
<1>1. ViewIsTyped => HeadlineIsHonest
  BY HeadlineHolds DEF ViewIsTyped, HeadlineIsHonest
<1> QED BY <1>1, ContentTyped, PTL

-----------------------------------------------------------------------------
(* The triage board.  The words of a verdict are among those it looks for. *)
Uplink == {"upstream_packet_loss", "internet_unreachable", "ping_target_down", "ping_threshold"}
Worded(x) ==
    \/ x.category \in {"gateway", "dns", "service", "inventory"} /\ x.code \notin Uplink \cup {"check"}
    \/ x.category = "wan" /\ x.code \in Uplink
    \/ x.category = "advanced" /\ x.code = "check" /\ x.about \in Checks

LEMMA VerdictFields ==
    \A severity, category, code, about :
       LET x == Verdict(severity, category, code, about)
       IN  x.severity = severity /\ x.category = category /\ x.code = code /\ x.about = about
BY DEF Verdict

LEMMA RulesWorded == ASSUME NEW v, NEW x \in Rules(v), x # AllWell PROVE Worded(x)
<1>1. CASE x \in PingRules(v)
  BY <1>1, PingRulesAre DEF Worded, Uplink
<1>2. CASE x \in DNSRules(v)
  <2>1. \/ x = Verdict("warning", "dns", "local_dns_problem", "")
        \/ x = Verdict("critical", "dns", "dns_general_outage", "")
    BY <1>2 DEF DNSRules, Reported
  <2>2. ASSUME x = Verdict("warning", "dns", "local_dns_problem", "")
        PROVE  x.category = "dns" /\ x.code = "local_dns_problem"
    BY <2>2 DEF Verdict
  <2>3. ASSUME x = Verdict("critical", "dns", "dns_general_outage", "")
        PROVE  x.category = "dns" /\ x.code = "dns_general_outage"
    BY <2>3 DEF Verdict
  <2> QED BY <2>1, <2>2, <2>3 DEF Worded, Uplink
<1>3. CASE x \in ServiceRules(v)
  BY <1>3, ServiceRulesAre DEF Worded, Uplink
<1> QED BY <1>1, <1>2, <1>3 DEF Rules

LEMMA InventoryWorded ==
    ASSUME NEW h, NEW v, Fields \subseteq DOMAIN h, NEW x \in WithInventory(h, v).verdicts, x \notin h.verdicts
    PROVE  Worded(x)
<1> DEFINE fresh == Verdict("info", "inventory", "new_device_detected", "")
           gone == Verdict("warning", "inventory", "known_device_missing", "")
<1>1. x \in {fresh, gone}
  <2> HIDE DEF fresh, gone
  <2>1. WithInventory(h, v).verdicts \subseteq h.verdicts \cup {fresh, gone}
    BY DEF WithInventory, Added, Reported, fresh, gone
  <2> QED BY <2>1
<1>2. x.category = "inventory" /\ (x.code = "new_device_detected" \/ x.code = "known_device_missing")
  <2>1. fresh.category = "inventory" /\ fresh.code = "new_device_detected"
    BY DEF Verdict
  <2>2. gone.category = "inventory" /\ gone.code = "known_device_missing"
    BY DEF Verdict
  <2> HIDE DEF fresh, gone
  <2> QED BY <1>1, <2>1, <2>2
<1> QED BY <1>2 DEF Worded, Uplink

LEMMA ThresholdsWorded ==
    ASSUME NEW h, NEW v, Fields \subseteq DOMAIN h, NEW x \in WithThresholds(h, v).verdicts, x \notin h.verdicts
    PROVE  Worded(x)
<1> DEFINE more == PingThresholds(v) \cup DNSThresholds(v) \cup HTTPThresholds(v)
<1>1. x \in more
  <2> HIDE DEF more
  <2>1. WithThresholds(h, v).verdicts \subseteq h.verdicts \cup more
    BY DEF WithThresholds, Added, Fields, more
  <2> QED BY <2>1
<1>2. ASSUME x \in PingThresholds(v)
      PROVE  x.category = "wan" /\ x.code \in {"ping_target_down", "ping_threshold"}
  <2>1. \E grade, t : \/ x = Verdict("critical", "wan", "ping_target_down", t)
                      \/ x = Verdict(grade, "wan", "ping_threshold", t)
    BY <1>2 DEF PingThresholds, Reported
  <2> QED BY <2>1, VerdictFields
<1>3. ASSUME x \in DNSThresholds(v)
      PROVE  x.category = "dns" /\ x.code \in {"dns_lookup_failed", "dns_threshold"}
  <2>1. \E grade, t : \/ x = Verdict("warning", "dns", "dns_lookup_failed", t)
                      \/ x = Verdict(grade, "dns", "dns_threshold", t)
    BY <1>3 DEF DNSThresholds
  <2> QED BY <2>1, VerdictFields
<1>4. ASSUME x \in HTTPThresholds(v)
      PROVE  x.category = "service" /\ x.code \in {"http_threshold", "tls_expiry_threshold"}
  <2>1. \E grade, t : \/ x = Verdict(grade, "service", "http_threshold", t)
                      \/ x = Verdict(grade, "service", "tls_expiry_threshold", t)
    BY <1>4 DEF HTTPThresholds
  <2> QED BY <2>1, VerdictFields
<1> QED BY <1>1, <1>2, <1>3, <1>4 DEF Worded, Uplink

LEMMA ChecksWorded ==
    ASSUME NEW h, NEW v, Fields \subseteq DOMAIN h, NEW x \in WithAdvanced(h, v).verdicts, x \notin h.verdicts
    PROVE  Worded(x)
<1> DEFINE more == {Verdict(v.checks[c], "advanced", "check", c) :
                       c \in {d \in Checks : v.checks[d] \in {"warning", "critical"}}}
<1>1. x \in more
  <2> HIDE DEF more
  <2>1. WithAdvanced(h, v).verdicts \subseteq h.verdicts \cup more
    BY DEF WithAdvanced, Added, Fields, more
  <2> QED BY <2>1
<1>2. PICK c \in Checks : x = Verdict(v.checks[c], "advanced", "check", c)
  BY <1>1
<1> QED BY <1>2, VerdictFields DEF Worded

LEMMA HealthWorded == ASSUME NEW v, NEW x \in Health(v).verdicts, x # AllWell PROVE Worded(x)
<1>1. Fields \subseteq DOMAIN First(v) /\ Sound(First(v))
  BY RulesSound DEF First
<1>2. Fields \subseteq DOMAIN Second(v) /\ Sound(Second(v))
  BY <1>1, InventorySound DEF Second
<1>3. Fields \subseteq DOMAIN Third(v)
  BY <1>2, ThresholdsSound DEF Third
<1>4. CASE x \in First(v).verdicts
  <2>1. First(v).verdicts = Rules(ViewOf(v, v.near))
    BY DEF First, Evaluate
  <2> QED BY <1>4, <2>1, RulesWorded
<1>5. CASE x \in Second(v).verdicts /\ x \notin First(v).verdicts
  BY <1>1, <1>5, InventoryWorded DEF Second
<1>6. CASE x \in Third(v).verdicts /\ x \notin Second(v).verdicts
  BY <1>2, <1>6, ThresholdsWorded DEF Third
<1>7. CASE x \notin Third(v).verdicts
  <2>1. x \in WithAdvanced(Third(v), v).verdicts
    BY DEF Health, First, Second, Third
  <2> QED BY <1>3, <1>7, <2>1, ChecksWorded
<1> QED BY <1>4, <1>5, <1>6, <1>7

(* A verdict that concerns a domain is never milder on the triage board than in
   the health it comes from, and each verdict of the first three stages concerns
   one of the domains that are rated. *)
THEOREM TriageKeepsSeverity == CSpec => []TriageNeverMilder
<1>1. ASSUME NEW x, Worded(x)
      PROVE  /\ Concerns(x) \subseteq RatedDomains
             /\ x.category # "advanced" => Concerns(x) \cap RatedDomains # {}
  BY <1>1, ChecksConcern DEF Worded, Uplink, Concerns, RatedDomains
<1>2. ASSUME NEW h, NEW x \in h.verdicts \ {AllWell}, NEW d \in RatedDomains, d \in Concerns(x),
             x.severity # "info"
      PROVE  Rank(Triage(h)[d]) >= Rank(x.severity)
  <2> DEFINE e == [severity |-> x.severity, dire |-> Dire(x)]
             t == TriageStatus(h.scores[d], Evidence(h, d))
  <2>1. e \in Evidence(h, d)
    BY <1>2 DEF Evidence
  <2>2. x.severity = "critical" => t = "critical"
    BY <2>1 DEF TriageStatus
  <2>3. x.severity = "warning" => t \in {"critical", "warning"}
    BY <2>1 DEF TriageStatus
  <2>4. Triage(h)[d] = t
    BY <1>2 DEF Triage
  <2> HIDE DEF t
  <2>5. Rank(t) >= 0 /\ Rank("critical") = 3 /\ Rank("warning") = 2
    BY DEF Rank
  <2>6. x.severity \notin {"critical", "warning", "info"} => Rank(x.severity) = 0
    BY DEF Rank
  <2> QED BY <1>2, <2>2, <2>3, <2>4, <2>5, <2>6
<1>3. ViewIsTyped => TriageNeverMilder
  BY <1>1, <1>2, HealthWorded DEF TriageNeverMilder, ViewIsTyped
<1> QED BY <1>3, ContentTyped, PTL

-----------------------------------------------------------------------------
(* The findings.  What is told of a site is finite, as what can be said is. *)
LEMMA ImageFinite ==
    ASSUME NEW f, IsFiniteSet(DOMAIN f)
    PROVE  IsFiniteSet({f[x] : x \in DOMAIN f})
<1> DEFINE T == {f[x] : x \in DOMAIN f}
           g == [x \in DOMAIN f |-> f[x]]
<1>1. g \in Surjection(DOMAIN f, T)
  BY DEF Surjection
<1> HIDE DEF g, T
<1>2. IsFiniteSet(T)
  BY <1>1, FS_Surjection
<1> QED BY <1>2 DEF T

Severities == {"info", "warning", "critical"}
Categories == {"gateway", "wan", "dns", "service", "inventory", "advanced"}
RuleCodes == {"local_gateway_unstable", "upstream_packet_loss", "internet_unreachable", "local_dns_problem",
              "dns_general_outage", "service_down", "service_slow", "tls_invalid", "tls_expiring"}
OtherCodes == {"new_device_detected", "known_device_missing", "ping_target_down", "ping_threshold",
               "dns_lookup_failed", "dns_threshold", "http_threshold", "tls_expiry_threshold", "check"}
Subjects == Targets \cup Checks \cup {""}

(* A verdict that can be said. *)
Sayable(x) ==
    \E severity \in Severities, category \in Categories, code \in RuleCodes \cup OtherCodes,
       about \in Subjects : x = Verdict(severity, category, code, about)

LEMMA SayableFinite ==
    ASSUME NEW S, \A x \in S : Sayable(x)
    PROVE  IsFiniteSet(S)
<1> DEFINE codes == RuleCodes \cup OtherCodes
           all == (Severities \X Categories) \X (codes \X Subjects)
           f == [p \in all |-> Verdict(p[1][1], p[1][2], p[2][1], p[2][2])]
<1>1. IsFiniteSet(Severities) /\ IsFiniteSet(Categories) /\ IsFiniteSet(codes)
  <2>1. \A a, T : IsFiniteSet(T) => IsFiniteSet(T \cup {a})
    BY FS_AddElement
  <2>2. IsFiniteSet(Severities)
    <3>1. Severities = (({} \cup {"info"}) \cup {"warning"}) \cup {"critical"}
      BY DEF Severities
    <3> QED BY <2>1, <3>1, FS_EmptySet, Zenon
  <2>3. IsFiniteSet(Categories)
    <3>1. Categories = ((((({} \cup {"gateway"}) \cup {"wan"}) \cup {"dns"}) \cup {"service"}) \cup {"inventory"})
                       \cup {"advanced"}
      BY DEF Categories
    <3> QED BY <2>1, <3>1, FS_EmptySet, Zenon
  <2>4. IsFiniteSet(RuleCodes)
    <3>1. RuleCodes = (((((((({} \cup {"local_gateway_unstable"}) \cup {"upstream_packet_loss"})
                       \cup {"internet_unreachable"}) \cup {"local_dns_problem"}) \cup {"dns_general_outage"})
                       \cup {"service_down"}) \cup {"service_slow"}) \cup {"tls_invalid"}) \cup {"tls_expiring"}
      BY DEF RuleCodes
    <3> QED BY <2>1, <3>1, FS_EmptySet, Zenon
  <2>5. IsFiniteSet(OtherCodes)
    <3>1. OtherCodes = (((((((({} \cup {"new_device_detected"}) \cup {"known_device_missing"})
                       \cup {"ping_target_down"}) \cup {"ping_threshold"}) \cup {"dns_lookup_failed"})
                       \cup {"dns_threshold"}) \cup {"http_threshold"}) \cup {"tls_expiry_threshold"}) \cup {"check"}
      BY DEF OtherCodes
    <3> QED BY <2>1, <3>1, FS_EmptySet, Zenon
  <2> QED BY <2>2, <2>3, <2>4, <2>5, FS_Union, Zenon
<1>2. IsFiniteSet(Subjects)
  <2>1. IsFiniteSet(Hosts \cup {Gateway}) /\ IsFiniteSet(Lookups) /\ IsFiniteSet(Services) /\ IsFiniteSet(Checks)
    BY SampleTypes, FS_AddElement
  <2>2. IsFiniteSet(((Hosts \cup {Gateway}) \cup Lookups) \cup Services)
    BY <2>1, FS_Union, Zenon
  <2>3. IsFiniteSet((Targets \cup Checks) \cup {""})
    <3>1. IsFiniteSet(Targets \cup Checks)
      BY <2>1, <2>2, FS_Union, Zenon DEF Targets
    <3> QED BY <3>1, FS_AddElement
  <2> QED BY <2>3 DEF Subjects
<1> HIDE DEF codes
<1>3. IsFiniteSet(all)
  BY <1>1, <1>2, FS_Product, Zenon
<1>4. IsFiniteSet({f[p] : p \in DOMAIN f})
  <2>1. DOMAIN f = all
    OBVIOUS
  <2> HIDE DEF f, all
  <2> QED BY <1>3, <2>1, ImageFinite
<1>5. S \subseteq {f[p] : p \in DOMAIN f}
  <2> SUFFICES ASSUME NEW x \in S
               PROVE  \E p \in DOMAIN f : x = f[p]
    OBVIOUS
  <2>1. PICK severity \in Severities, category \in Categories, code \in codes, about \in Subjects :
            x = Verdict(severity, category, code, about)
    BY DEF Sayable, codes
  <2>2. <<<<severity, category>>, <<code, about>>>> \in all
    BY <2>1
  <2>3. f[<<<<severity, category>>, <<code, about>>>>] = x
    BY <2>1, <2>2
  <2> QED BY <2>2, <2>3
<1> QED BY <1>4, <1>5, FS_Subset, Zenon

LEMMA Saying ==
    ASSUME NEW severity \in Severities, NEW category \in Categories, NEW code \in RuleCodes \cup OtherCodes,
           NEW about \in Subjects
    PROVE  Sayable(Verdict(severity, category, code, about))
BY DEF Sayable

LEMMA ReportedSayable ==
    ASSUME NEW x, Sayable(x), NEW condition
    PROVE  \A y \in Reported(x, condition) : Sayable(y)
BY DEF Reported

LEMMA RulesSayable ==
    ASSUME NEW v, Samples(v), NEW x \in PingRules(v) \cup DNSRules(v) \cup ServiceRules(v)
    PROVE  Sayable(x)
<1>1. Gateway \in Subjects /\ "" \in Subjects
  BY DEF Subjects, Targets
<1>2. CASE x \in PingRules(v)
  <2>1. /\ Sayable(Verdict("critical", "gateway", "local_gateway_unstable", Gateway))
        /\ Sayable(Verdict("warning", "wan", "upstream_packet_loss", ""))
        /\ Sayable(Verdict("critical", "wan", "internet_unreachable", ""))
    BY <1>1, Saying DEF Severities, Categories, RuleCodes
  <2> QED BY <1>2, <2>1, ReportedSayable DEF PingRules
<1>3. CASE x \in DNSRules(v)
  <2>1. /\ Sayable(Verdict("warning", "dns", "local_dns_problem", ""))
        /\ Sayable(Verdict("critical", "dns", "dns_general_outage", ""))
    BY <1>1, Saying DEF Severities, Categories, RuleCodes
  <2> QED BY <1>3, <2>1, ReportedSayable DEF DNSRules
<1>4. CASE x \in ServiceRules(v)
  <2>1. PICK s \in Sampled(v.http) :
           \/ x = Verdict("warning", "service", "service_down", s)
           \/ x = Verdict("warning", "service", "service_slow", s)
           \/ x = Verdict("critical", "service", "tls_invalid", s)
           \/ x = Verdict("warning", "service", "tls_expiring", s)
    BY <1>4 DEF ServiceRules, Reported
  <2>2. s \in Subjects
    BY DEF Subjects, Targets, Sampled, Samples
  <2>3. /\ Sayable(Verdict("warning", "service", "service_down", s))
        /\ Sayable(Verdict("warning", "service", "service_slow", s))
        /\ Sayable(Verdict("critical", "service", "tls_invalid", s))
        /\ Sayable(Verdict("warning", "service", "tls_expiring", s))
    BY <2>2, Saying DEF Severities, Categories, RuleCodes
  <2> QED BY <2>1, <2>3
<1> QED BY <1>2, <1>3, <1>4

LEMMA ThresholdsSayable ==
    ASSUME NEW v, Samples(v), NEW x \in PingThresholds(v) \cup DNSThresholds(v) \cup HTTPThresholds(v)
    PROVE  Sayable(x)
<1>1. \A t \in Targets : t \in Subjects
  BY DEF Subjects
<1>2. CASE x \in PingThresholds(v)
  <2>1. PICK t \in Sampled(v.ping) :
           \/ x = Verdict("critical", "wan", "ping_target_down", t)
           \/ \E grade \in {"warning", "critical"} : x = Verdict(grade, "wan", "ping_threshold", t)
    BY <1>2, GradeIs DEF PingThresholds, Reported
  <2>2. t \in Subjects
    BY <1>1 DEF Targets, Sampled, Samples, Pinged
  <2> QED BY <2>1, <2>2, Saying DEF Severities, Categories, OtherCodes
<1>3. CASE x \in DNSThresholds(v)
  <2>1. PICK t \in Sampled(v.dns) :
           \/ x = Verdict("warning", "dns", "dns_lookup_failed", t)
           \/ \E grade \in {"warning", "critical"} : x = Verdict(grade, "dns", "dns_threshold", t)
    BY <1>3, GradeIs DEF DNSThresholds
  <2>2. t \in Subjects
    BY <1>1 DEF Targets, Sampled, Samples
  <2> QED BY <2>1, <2>2, Saying DEF Severities, Categories, OtherCodes
<1>4. CASE x \in HTTPThresholds(v)
  <2>1. \A r, past, set : /\ SlowGrade(r, past, set) \subseteq {"warning", "critical"}
                          /\ ExpiryGrade(r, set) \subseteq {"warning", "critical"}
    BY GradeIs DEF SlowGrade, ExpiryGrade
  <2>2. PICK t \in Sampled(v.http) :
           \E grade \in {"warning", "critical"} : \/ x = Verdict(grade, "service", "http_threshold", t)
                                                  \/ x = Verdict(grade, "service", "tls_expiry_threshold", t)
    BY <1>4, <2>1 DEF HTTPThresholds
  <2>3. t \in Subjects
    BY <1>1 DEF Targets, Sampled, Samples
  <2> QED BY <2>2, <2>3, Saying DEF Severities, Categories, OtherCodes
<1> QED BY <1>2, <1>3, <1>4

LEMMA VerdictsFinite == ASSUME NEW v, Typed(v) PROVE IsFiniteSet(Health(v).verdicts)
<1>1. \A x \in RulesSay(v) : Sayable(x)
  BY SamplesAmong, RulesSayable DEF RulesSay
<1>2. \A x \in ThresholdsSay(v) : Sayable(x)
  BY SamplesLater, ThresholdsSayable DEF ThresholdsSay
<1>3. \A x \in InventorySays(v) : Sayable(x)
  <2>1. "" \in Subjects
    BY DEF Subjects
  <2>2. /\ Sayable(Verdict("info", "inventory", "new_device_detected", ""))
        /\ Sayable(Verdict("warning", "inventory", "known_device_missing", ""))
    BY <2>1, Saying DEF Severities, Categories, OtherCodes
  <2> QED BY <2>2, ReportedSayable DEF InventorySays
<1>4. \A x \in ChecksSay(v) : Sayable(x)
  <2> SUFFICES ASSUME NEW c \in Checks, v.checks[c] \in {"warning", "critical"}
               PROVE  Sayable(Verdict(v.checks[c], "advanced", "check", c))
    BY DEF ChecksSay
  <2> QED BY Saying DEF Severities, Categories, OtherCodes, Subjects
<1>5. IsFiniteSet(Said(v))
  BY <1>1, <1>2, <1>3, <1>4, SayableFinite DEF Said
<1>6. Health(v).verdicts = IF Said(v) = {} THEN {AllWell} ELSE Said(v)
  BY HealthSays DEF Says
<1> QED BY <1>5, <1>6, FS_Singleton

LEMMA ToldFinite ==
    ASSUME ViewIsTyped, alerts \in Seq(AlertKinds), rows \in Seq(RowKinds)
    PROVE  IsFiniteSet(Told(Health(view)))
<1> DEFINE said == Health(view).verdicts
           what == (said \cup DOMAIN alerts) \cup DOMAIN rows
           kinds == {"verdicts", "alerts", "rows"}
<1>1. IsFiniteSet(said)
  BY VerdictsFinite DEF ViewIsTyped
<1>2. IsFiniteSet(DOMAIN alerts) /\ IsFiniteSet(DOMAIN rows)
  <2>1. /\ DOMAIN alerts = 1..Len(alerts) /\ Len(alerts) \in Int
        /\ DOMAIN rows = 1..Len(rows) /\ Len(rows) \in Int
    OBVIOUS
  <2> QED BY <2>1, FS_Interval
<1>3. IsFiniteSet(kinds)
  <2>1. kinds = (({} \cup {"verdicts"}) \cup {"alerts"}) \cup {"rows"}
    OBVIOUS
  <2>2. \A a, T : IsFiniteSet(T) => IsFiniteSet(T \cup {a})
    BY FS_AddElement
  <2> QED BY <2>1, <2>2, FS_EmptySet, Zenon
<1> HIDE DEF said
<1>4. IsFiniteSet(what)
  BY <1>1, <1>2, FS_Union, Zenon
<1>5. Told(Health(view)) \subseteq kinds \X what
  BY DEF Told, said
<1> HIDE DEF kinds, what
<1>6. IsFiniteSet(kinds \X what)
  BY <1>3, <1>4, FS_Product
<1> QED BY <1>5, <1>6, FS_Subset

-----------------------------------------------------------------------------
(* Grouping goes through what is told one by one, in an order that is left
   open.  As with the sums, the recursion of FoldSet has a solution. *)
NoGroups == [k \in {} |-> {}]
Grouping(T, g) ==
    g = [s \in SUBSET T |-> IF s = {} THEN NoGroups
                            ELSE LET t == CHOOSE x \in s : TRUE IN Joined(g[s \ {t}], FindingOf(t))]

LEMMA GroupingExists ==
    ASSUME NEW T, IsFiniteSet(T)
    PROVE  \E g : Grouping(T, g)
<1> DEFINE small(n) == {s \in SUBSET T : Cardinality(s) <= n}
           next(g, n) == [s \in small(n) |-> IF s = {} THEN NoGroups
                            ELSE LET t == CHOOSE x \in s : TRUE IN Joined(g[s \ {t}], FindingOf(t))]
           fails == {n \in Nat : ~\E g : g = next(g, n)}
<1>1. \A s \in SUBSET T : IsFiniteSet(s) /\ Cardinality(s) \in Nat
  BY FS_Subset, FS_CardinalityType
<1>2. \A s \in SUBSET T : s # {} =>
         LET t == CHOOSE x \in s : TRUE
         IN  s \ {t} \in SUBSET T /\ Cardinality(s \ {t}) = Cardinality(s) - 1
  BY <1>1, FS_RemoveElement
<1>3. fails = {}
  <2> SUFFICES ASSUME fails # {} PROVE FALSE
    OBVIOUS
  <2>1. PICK n \in fails : \A m \in fails : n <= m
    <3> HIDE DEF next
    <3>1. fails \subseteq Nat OBVIOUS
    <3> HIDE DEF fails
    <3> QED BY <3>1, LeastExists
  <2>2. n \in Nat /\ ~\E g : g = next(g, n)
    BY <2>1
  <2>3. n # 0
    <3>1. \A s \in small(0) : s = {}
      BY <1>1, FS_EmptySet
    <3>2. [s \in small(0) |-> NoGroups] = next([s \in small(0) |-> NoGroups], 0)
      BY <3>1
    <3> QED BY <2>2, <3>2
  <2>4. PICK g : g = next(g, n - 1)
    <3>1. n - 1 \in Nat
      BY <2>2, <2>3
    <3>2. n - 1 \notin fails
      <4> HIDE DEF fails
      <4> QED BY <2>1, <2>2, <3>1
    <3> HIDE DEF next
    <3> QED BY <3>1, <3>2
  <2>5. \A s \in small(n) : s # {} =>
           LET t == CHOOSE x \in s : TRUE IN next(g, n)[s \ {t}] = g[s \ {t}]
    <3> SUFFICES ASSUME NEW s \in small(n), s # {}
                 PROVE  LET t == CHOOSE x \in s : TRUE IN next(g, n)[s \ {t}] = g[s \ {t}]
      OBVIOUS
    <3> DEFINE u == s \ {CHOOSE x \in s : TRUE}
    <3>1. u \in small(n - 1) /\ u \in small(n)
      BY <1>1, <1>2, <2>2
    <3> HIDE DEF u
    <3>2. g[u] = IF u = {} THEN NoGroups
                 ELSE LET t == CHOOSE x \in u : TRUE IN Joined(g[u \ {t}], FindingOf(t))
      BY <2>4, <3>1
    <3>3. next(g, n)[u] = g[u]
      BY <3>1, <3>2
    <3> QED BY <3>3 DEF u
  <2>6. next(g, n) = next(next(g, n), n)
    <3> DEFINE h == next(g, n)
    <3>1. \A s \in small(n) : s # {} =>
             LET t == CHOOSE x \in s : TRUE IN h[s \ {t}] = g[s \ {t}]
      BY <2>5
    <3>2. h = next(g, n) OBVIOUS
    <3> HIDE DEF h
    <3>3. next(g, n) = next(h, n)
      BY <3>1
    <3> QED BY <3>2, <3>3
  <2> QED BY <2>2, <2>6
<1>4. small(Cardinality(T)) = SUBSET T
  BY <1>1, FS_Subset, FS_CardinalityType
<1>5. Cardinality(T) \in Nat
  BY FS_CardinalityType
<1>6. PICK g : g = next(g, Cardinality(T))
  BY <1>3, <1>5
<1>7. Grouping(T, g)
  BY <1>4, <1>6 DEF Grouping
<1> QED BY <1>7

(* The groups of some of what is told: a group for each key, that counts what
   has the key and has the worst of its severities. *)
Within(S, k) == {t \in S : Key(FindingOf(t)) = k}
RankOf(t) == Rank(FindingOf(t).severity)
GroupOf(group, S) ==
    /\ group.count = Cardinality(S)
    /\ \E t \in S : Rank(group.severity) = RankOf(t)
    /\ \A t \in S : RankOf(t) <= Rank(group.severity)
GroupsOf(groups, S) ==
    /\ DOMAIN groups = {Key(FindingOf(t)) : t \in S}
    /\ \A k \in DOMAIN groups : GroupOf(groups[k], Within(S, k))

LEMMA RankIs == \A severity : Rank(severity) \in 0..3
BY DEF Rank

LEMMA OneMore ==
    ASSUME NEW S, IsFiniteSet(S), NEW t, t \notin S, NEW group, GroupOf(group, S)
    PROVE  GroupOf([severity |-> Worse(FindingOf(t).severity, group.severity), count |-> Count(group.count)],
                   S \cup {t})
<1> DEFINE f == FindingOf(t).severity
           worse == Worse(f, group.severity)
           new == [severity |-> worse, count |-> Count(group.count)]
<1>1. Cardinality(S \cup {t}) = Count(group.count)
  BY FS_AddElement DEF GroupOf, Count
<1>2. /\ Rank(worse) >= Rank(f) /\ Rank(worse) >= Rank(group.severity)
      /\ Rank(worse) = Rank(f) \/ Rank(worse) = Rank(group.severity)
  BY RankIs DEF Worse
<1>3. \E u \in S \cup {t} : Rank(worse) = RankOf(u)
  BY <1>2 DEF GroupOf, RankOf
<1>4. \A u \in S \cup {t} : RankOf(u) <= Rank(worse)
  BY <1>2, RankIs DEF GroupOf, RankOf
<1>5. new.severity = worse /\ new.count = Count(group.count)
  OBVIOUS
<1> HIDE DEF new, worse
<1>6. GroupOf(new, S \cup {t})
  BY <1>1, <1>3, <1>4, <1>5 DEF GroupOf
<1> QED BY <1>6 DEF new, worse

LEMMA FirstOfGroup ==
    ASSUME NEW t
    PROVE  GroupOf([severity |-> FindingOf(t).severity, count |-> 1], {t})
BY FS_Singleton, RankIs DEF GroupOf, RankOf

LEMMA JoinedGroups ==
    ASSUME NEW S, IsFiniteSet(S), NEW t, t \notin S, NEW groups, GroupsOf(groups, S)
    PROVE  GroupsOf(Joined(groups, FindingOf(t)), S \cup {t})
<1> DEFINE f == FindingOf(t)
           joined == Joined(groups, f)
           all == S \cup {t}
<1>1. /\ Within(all, Key(f)) = Within(S, Key(f)) \cup {t}
      /\ \A k : k # Key(f) => Within(all, k) = Within(S, k)
  BY DEF Within
<1>2. {Key(FindingOf(u)) : u \in all} = DOMAIN groups \cup {Key(f)}
  BY DEF GroupsOf
<1>3. CASE Key(f) \in DOMAIN groups
  <2> DEFINE old == groups[Key(f)]
             new == [severity |-> Worse(f.severity, old.severity), count |-> Count(old.count)]
  <2>1. joined = [groups EXCEPT ![Key(f)] = new]
    BY <1>3 DEF Joined
  <2>2. GroupOf(new, Within(S, Key(f)) \cup {t})
    <3>1. IsFiniteSet(Within(S, Key(f))) /\ t \notin Within(S, Key(f))
      BY FS_Subset DEF Within
    <3>2. GroupOf(old, Within(S, Key(f)))
      BY <1>3 DEF GroupsOf
    <3> QED BY <3>1, <3>2, OneMore
  <2> HIDE DEF new, joined
  <2>3. DOMAIN joined = DOMAIN groups /\ joined[Key(f)] = new
        /\ \A k \in DOMAIN groups : k # Key(f) => joined[k] = groups[k]
    BY <1>3, <2>1
  <2>4. GroupsOf(joined, all)
    BY <1>1, <1>2, <1>3, <2>2, <2>3 DEF GroupsOf
  <2> QED BY <2>4 DEF joined
<1>4. CASE Key(f) \notin DOMAIN groups
  <2> DEFINE new == [severity |-> f.severity, count |-> 1]
  <2>1. joined = [k \in DOMAIN groups \cup {Key(f)} |-> IF k = Key(f) THEN new ELSE groups[k]]
    BY <1>4 DEF Joined
  <2>2. GroupOf(new, Within(S, Key(f)) \cup {t})
    <3>1. Within(S, Key(f)) \cup {t} = {t}
      BY <1>4 DEF Within, GroupsOf
    <3> QED BY <3>1, FirstOfGroup
  <2> HIDE DEF new, joined
  <2>3. DOMAIN joined = DOMAIN groups \cup {Key(f)} /\ joined[Key(f)] = new
        /\ \A k \in DOMAIN groups : k # Key(f) => joined[k] = groups[k]
    BY <1>4, <2>1
  <2>4. GroupsOf(joined, all)
    BY <1>1, <1>2, <1>4, <2>2, <2>3 DEF GroupsOf
  <2> QED BY <2>4 DEF joined
<1> QED BY <1>3, <1>4

LEMMA GroupedRight ==
    ASSUME NEW h, IsFiniteSet(Told(h))
    PROVE  GroupsOf(Grouped(h), Told(h))
<1> DEFINE T == Told(h)
           g == CHOOSE f : Grouping(T, f)
           fails == {n \in Nat : \E s \in SUBSET T : Cardinality(s) = n /\ ~GroupsOf(g[s], s)}
<1>1. Grouped(h) = g[T]
  BY DEF Grouped, Ext!FoldSet, Ext!MapThenFoldSet, Grouping, NoGroups
<1>2. Grouping(T, g)
  BY GroupingExists
<1> HIDE DEF g
<1>3. \A s \in SUBSET T : IsFiniteSet(s) /\ Cardinality(s) \in Nat
  BY FS_Subset, FS_CardinalityType
<1>4. fails = {}
  <2> SUFFICES ASSUME fails # {} PROVE FALSE
    OBVIOUS
  <2>1. PICK n \in fails : \A m \in fails : n <= m
    <3>1. fails \subseteq Nat OBVIOUS
    <3> HIDE DEF fails
    <3> QED BY <3>1, LeastExists
  <2>2. PICK s \in SUBSET T : Cardinality(s) = n /\ ~GroupsOf(g[s], s)
    BY <2>1
  <2> DEFINE t == CHOOSE x \in s : TRUE
  <2>3. g[s] = IF s = {} THEN NoGroups ELSE Joined(g[s \ {t}], FindingOf(t))
    BY <1>2 DEF Grouping
  <2>4. s # {} /\ t \in s
    BY <2>2, <2>3 DEF GroupsOf, NoGroups
  <2> HIDE DEF t
  <2>5. s \ {t} \in SUBSET T /\ Cardinality(s \ {t}) = n - 1 /\ n \in Nat
    BY <1>3, <2>2, <2>4, FS_RemoveElement
  <2>6. n - 1 \in Nat /\ n - 1 \notin fails
    BY <1>3, <2>1, <2>5
  <2>7. GroupsOf(g[s \ {t}], s \ {t})
    BY <2>5, <2>6
  <2>8. GroupsOf(g[s], (s \ {t}) \cup {t})
    BY <1>3, <2>3, <2>4, <2>5, <2>7, JoinedGroups
  <2>9. (s \ {t}) \cup {t} = s
    BY <2>4
  <2> QED BY <2>2, <2>8, <2>9
<1>5. GroupsOf(g[T], T)
  BY <1>3, <1>4
<1> QED BY <1>1, <1>5

(* So the groups lose nothing and hide nothing. *)
LEMMA GroupsTell ==
    ASSUME NEW groups, NEW told, GroupsOf(groups, told)
    PROVE  LET ranks(S) == {Rank(FindingOf(t).severity) : t \in S}
           IN  /\ \A k \in DOMAIN groups :
                     /\ groups[k].count = Cardinality(Within(told, k))
                     /\ Rank(groups[k].severity) = MostOf(ranks(Within(told, k)))
               /\ \A k \in Leading(groups) : Rank(groups[k].severity) = MostOf(ranks(told))
<1> DEFINE ranks(S) == {Rank(FindingOf(t).severity) : t \in S}
<1>1. ASSUME NEW S, S # {}
      PROVE  /\ \E t \in S : MostOf(ranks(S)) = RankOf(t)
             /\ \A t \in S : RankOf(t) <= MostOf(ranks(S))
  <2>1. ranks(S) \in SUBSET (0..3) /\ ranks(S) # {}
    BY <1>1, RankIs
  <2>2. MostOf(ranks(S)) \in ranks(S) /\ \A m \in ranks(S) : m <= MostOf(ranks(S))
    <3> HIDE DEF ranks
    <3> QED BY <2>1, MostIsGreatest
  <2> QED BY <2>2 DEF RankOf
<1>2. ASSUME NEW k \in DOMAIN groups
      PROVE  /\ groups[k].count = Cardinality(Within(told, k))
             /\ Rank(groups[k].severity) = MostOf(ranks(Within(told, k)))
  <2> DEFINE S == Within(told, k)
             most == MostOf(ranks(S))
  <2>1. GroupOf(groups[k], S)
    BY DEF GroupsOf
  <2>2. PICK t \in S : Rank(groups[k].severity) = RankOf(t)
    BY <2>1 DEF GroupOf
  <2>3. PICK u \in S : most = RankOf(u)
    BY <1>1, <2>2
  <2>4. RankOf(t) <= most
    BY <1>1, <2>2
  <2> HIDE DEF most, S
  <2>5. RankOf(u) <= Rank(groups[k].severity)
    BY <2>1 DEF GroupOf
  <2>6. Rank(groups[k].severity) = most
    BY <2>2, <2>3, <2>4, <2>5, RankIs DEF RankOf
  <2> QED BY <2>1, <2>6 DEF GroupOf, S, most
<1>3. ASSUME NEW k \in Leading(groups)
      PROVE  Rank(groups[k].severity) = MostOf(ranks(told))
  <2> DEFINE most == MostOf(ranks(told))
  <2>1. k \in DOMAIN groups /\ \A l \in DOMAIN groups : ~RankedBefore(groups[l], groups[k])
    BY DEF Leading
  <2>2. PICK t \in Within(told, k) : Rank(groups[k].severity) = RankOf(t)
    BY <2>1 DEF GroupsOf, GroupOf
  <2>3. t \in told
    BY <2>2 DEF Within
  <2>4. RankOf(t) <= most
    BY <1>1, <2>3
  <2>5. PICK u \in told : most = RankOf(u)
    BY <1>1, <2>3
  <2> HIDE DEF most
  <2> DEFINE l == Key(FindingOf(u))
  <2>6. l \in DOMAIN groups /\ u \in Within(told, l)
    BY DEF GroupsOf, Within
  <2>7. RankOf(u) <= Rank(groups[l].severity)
    BY <2>6 DEF GroupsOf, GroupOf
  <2>8. ~(Rank(groups[l].severity) > Rank(groups[k].severity))
    BY <2>1, <2>6 DEF RankedBefore
  <2> HIDE DEF l
  <2>9. Rank(groups[k].severity) = most
    BY <2>2, <2>4, <2>5, <2>7, <2>8, RankIs DEF RankOf
  <2> QED BY <2>9 DEF most
<1> QED BY <1>2, <1>3

-----------------------------------------------------------------------------
(* The bar.  It is filled as far as alerts have been counted, and no segment is
   without width. *)
Filled(bar, n) ==
    /\ bar.used = n /\ bar.offset = BarWidth * n
    /\ bar.widths \in Seq(Nat) /\ \A i \in DOMAIN bar.widths : bar.widths[i] > 0

LEMMA SegmentFills ==
    ASSUME NEW bar, NEW used \in Nat, Filled(bar, used), NEW n \in Nat, Len(alerts) \in Nat,
           used + n <= Len(alerts)
    PROVE  Filled(WithSegment(bar, n), used + n)
<1> DEFINE width == SegmentWidth(bar, n)
<1>1. CASE n = 0
  BY <1>1 DEF WithSegment
<1>2. CASE n # 0
  <2>1. width = 527 * n
    <3>1. CASE used + n < Len(alerts)
      BY <3>1 DEF SegmentWidth, Filled, BarWidth
    <3>2. CASE used + n = Len(alerts)
      <4>1. width = 527 * Len(alerts) - 527 * used
        BY <3>2 DEF SegmentWidth, Filled, BarWidth
      <4>2. 527 * (used + n) - 527 * used = 527 * n
        OBVIOUS
      <4> QED BY <3>2, <4>1, <4>2
    <3> QED BY <3>1, <3>2
  <2>2. width \in Nat /\ width > 0
    BY <1>2, <2>1
  <2>3. 527 * used + width = 527 * (used + n)
    BY <2>1
  <2> DEFINE new == WithSegment(bar, n)
  <2>4. /\ new.used = bar.used + n /\ new.offset = bar.offset + width
        /\ new.widths = Append(bar.widths, width)
    BY <1>2 DEF WithSegment
  <2> HIDE DEF new, width
  <2>5. new.widths \in Seq(Nat) /\ \A i \in DOMAIN new.widths : new.widths[i] > 0
    BY <2>2, <2>4 DEF Filled
  <2>6. new.used = used + n /\ new.offset = 527 * (used + n)
    BY <2>3, <2>4 DEF Filled, BarWidth
  <2>7. Filled(new, used + n)
    BY <2>5, <2>6 DEF Filled, BarWidth
  <2> QED BY <2>7 DEF new
<1> QED BY <1>1, <1>2

(* Each alert is counted in one of the four segments. *)
Indices(kinds) == {i \in DOMAIN alerts : alerts[i] \in kinds}

LEMMA CountedIs == ASSUME IsFiniteSet(DOMAIN alerts), NEW kinds PROVE Counted(kinds) \in Nat
<1>1. IsFiniteSet(Indices(kinds))
  BY FS_Subset DEF Indices
<1> QED BY <1>1, FS_CardinalityType DEF Counted, Indices

LEMMA CountedApart ==
    ASSUME IsFiniteSet(DOMAIN alerts), NEW kinds, NEW others, kinds \cap others = {}
    PROVE  Counted(kinds \cup others) = Counted(kinds) + Counted(others)
<1>1. IsFiniteSet(Indices(kinds)) /\ IsFiniteSet(Indices(others))
  BY FS_Subset DEF Indices
<1>2. Indices(kinds) \cap Indices(others) = {} /\ Indices(kinds) \cup Indices(others) = Indices(kinds \cup others)
  BY DEF Indices
<1>3. Cardinality(Indices(kinds \cup others)) = Cardinality(Indices(kinds)) + Cardinality(Indices(others))
  <2>1. Cardinality({}) = 0
    BY FS_EmptySet
  <2>2. Cardinality(Indices(kinds)) \in Nat /\ Cardinality(Indices(others)) \in Nat
    BY <1>1, FS_CardinalityType
  <2>3. Cardinality(Indices(kinds \cup others)) =
           Cardinality(Indices(kinds)) + Cardinality(Indices(others)) - Cardinality({})
    BY <1>1, <1>2, FS_Union
  <2> QED BY <2>1, <2>2, <2>3
<1> QED BY <1>3 DEF Counted, Indices

LEMMA KindsApart ==
    /\ BarActive \cap BarAcked = {} /\ (BarActive \cup BarAcked) \cap BarClosed = {}
    /\ ((BarActive \cup BarAcked) \cup BarClosed) \cap BarHidden = {}
    /\ ((BarActive \cup BarAcked) \cup BarClosed) \cup BarHidden = AlertKinds
BY Zenon DEF BarActive, BarAcked, BarClosed, BarHidden

LEMMA UpTo == \A n \in Nat : IsFiniteSet(1..n) /\ Cardinality(1..n) = n
BY FS_Interval

LEMMA BarFull ==
    ASSUME alerts \in Seq(AlertKinds)
    PROVE  Filled(Bar, Len(alerts))
<1> DEFINE a == Counted(BarActive)
           b == Counted(BarAcked)
           c == Counted(BarClosed)
           d == Counted(BarHidden)
           all == Len(alerts)
<1>1. all \in Nat /\ DOMAIN alerts = 1..all /\ \A i \in 1..all : alerts[i] \in AlertKinds
  OBVIOUS
<1>2. IsFiniteSet(DOMAIN alerts) /\ Cardinality(1..all) = all
  BY <1>1, UpTo
<1>3. Counted(AlertKinds) = all
  <2>1. {i \in DOMAIN alerts : alerts[i] \in AlertKinds} = 1..all
    BY <1>1
  <2> QED BY <1>2, <2>1 DEF Counted
<1>4. a \in Nat /\ b \in Nat /\ c \in Nat /\ d \in Nat
  BY <1>2, CountedIs
<1>5. Counted(BarActive \cup BarAcked) = a + b
  BY <1>2, KindsApart, CountedApart
<1>6. Counted((BarActive \cup BarAcked) \cup BarClosed) = Counted(BarActive \cup BarAcked) + c
  BY <1>2, KindsApart, CountedApart
<1>7. Counted(AlertKinds) = Counted((BarActive \cup BarAcked) \cup BarClosed) + d
  BY <1>2, KindsApart, CountedApart
<1>8. ((a + b) + c) + d = all
  BY <1>3, <1>4, <1>5, <1>6, <1>7
<1> DEFINE none == [used |-> 0, offset |-> 0, widths |-> <<>>]
           one == WithSegment(none, a)
           two == WithSegment(one, b)
           three == WithSegment(two, c)
<1>9. /\ a + b \in Nat /\ (a + b) + c \in Nat
      /\ a <= all /\ a + b <= all /\ (a + b) + c <= all /\ ((a + b) + c) + d <= all
  <2> HIDE DEF a, b, c, d
  <2> QED BY <1>1, <1>4, <1>8
<1>10. Filled(none, 0)
  BY DEF Filled, BarWidth
<1>11. Bar = WithSegment(three, d)
  BY DEF Bar
<1> HIDE DEF none, a, b, c, d, all
<1>12. Filled(one, 0 + a) /\ 0 + a = a
  BY <1>1, <1>4, <1>9, <1>10, SegmentFills DEF all
<1> HIDE DEF one
<1>13. Filled(two, a + b)
  BY <1>1, <1>4, <1>9, <1>12, SegmentFills DEF all
<1> HIDE DEF two
<1>14. Filled(three, (a + b) + c)
  BY <1>1, <1>4, <1>9, <1>13, SegmentFills DEF all
<1> HIDE DEF three
<1>15. Filled(WithSegment(three, d), ((a + b) + c) + d)
  BY <1>1, <1>4, <1>9, <1>14, SegmentFills DEF all
<1> QED BY <1>8, <1>11, <1>15 DEF all

-----------------------------------------------------------------------------
(* Alerts and rows are of the kinds there are. *)
ContentIs == alerts \in Seq(AlertKinds) /\ rows \in Seq(RowKinds)

LEMMA ContentStays == CSpec => []ContentIs
<1>1. CInit => ContentIs
  BY DEF CInit, ContentIs
<1>2. ContentIs /\ [CNext]_rvars => ContentIs'
  <2> SUFFICES ASSUME ContentIs, [CNext]_rvars PROVE ContentIs'
    OBVIOUS
  <2>1. CASE AlertRecorded
    BY <2>1 DEF AlertRecorded, ContentIs
  <2>2. CASE RowRecorded
    <3>1. PICK row \in RowKinds : rows' = <<row>> \o rows
      BY <2>2 DEF RowRecorded
    <3> QED BY <2>2, <3>1 DEF RowRecorded, ContentIs
  <2>3. CASE UNCHANGED <<alerts, rows>>
    BY <2>3 DEF ContentIs
  <2> QED BY <2>1, <2>2, <2>3 DEF CNext, rvars
<1> QED BY <1>1, <1>2, PTL DEF CSpec

(* Whatever is told of a site, and in whatever order it is gone through: the
   groups count all of it, have the worst of its severities and begin with the
   worst of all; and whatever alerts there are, the segments of the bar count
   each of them once and fill it. *)
THEOREM ReportIsComplete == CSpec => []NothingLeftOut
<1>1. ViewIsTyped /\ ContentIs => NothingLeftOut
  <2> SUFFICES ASSUME ViewIsTyped, ContentIs PROVE NothingLeftOut
    OBVIOUS
  <2> DEFINE told == Told(Health(view))
             groups == Grouped(Health(view))
  <2>1. GroupsOf(groups, told)
    BY ToldFinite, GroupedRight DEF ContentIs
  <2>2. DOMAIN groups = {Key(FindingOf(t)) : t \in told}
    BY <2>1 DEF GroupsOf
  <2> HIDE DEF groups, told
  <2>3. LET ranks(S) == {Rank(FindingOf(t).severity) : t \in S}
        IN  /\ \A k \in DOMAIN groups :
                  /\ groups[k].count = Cardinality({t \in told : Key(FindingOf(t)) = k})
                  /\ Rank(groups[k].severity) = MostOf(ranks({t \in told : Key(FindingOf(t)) = k}))
            /\ \A k \in Leading(groups) : Rank(groups[k].severity) = MostOf(ranks(told))
    BY <2>1, GroupsTell DEF Within
  <2>4. /\ Bar.used = Len(alerts) /\ Bar.offset = BarWidth * Len(alerts)
        /\ \A i \in DOMAIN Bar.widths : Bar.widths[i] > 0
    BY BarFull DEF ContentIs, Filled
  <2> QED BY <2>2, <2>3, <2>4, Zenon DEF NothingLeftOut, groups, told
<1> QED BY <1>1, ContentTyped, ContentStays, PTL

-----------------------------------------------------------------------------
(* The layout.  What is known of the cursor between two parts: how far it is
   above the margin at least and at most, how far below what is drawn at least,
   and whether what was drawn last may be a heading. *)
States == [room : Int, most : Int, gap : Int, heads : BOOLEAN]
At(room, most, gap) == [room |-> room, most |-> most, gap |-> gap, heads |-> FALSE]
Under(room, most, gap) == [room |-> room, most |-> most, gap |-> gap, heads |-> TRUE]

Parts == [need : Nat, marks : SUBSET [bottom : Int, top : Int], down : Nat, heads : BOOLEAN]
Page == TopOfPage - Margin
HeadRoom == Sheet - TopOfPage

(* A part, set where a is known, goes onto the page and over nothing, parts no
   heading from what it heads unless that is in the last section, and b is known
   afterwards. *)
Carries(stage, a, part, b) ==
    LET stays == part.need = 0 \/ part.need <= a.room
        breaks == part.need > 0 /\ part.need > a.most
        room == IF breaks THEN Page ELSE IF stays THEN a.room ELSE part.need
        most == IF stays THEN a.most ELSE Page
        gap == IF breaks THEN HeadRoom ELSE a.gap
    IN  /\ part \in Parts /\ part.need <= Page
        /\ stage = "end" \/ ~a.heads \/ stays
        /\ \A m \in part.marks : /\ m.bottom + room >= 0 /\ m.top <= gap + Slack
                                 /\ b.gap <= m.bottom + part.down
        /\ b.room <= room - part.down /\ b.most >= most - part.down
        /\ b.gap <= gap + part.down /\ b.gap <= HeadRoom
        /\ part.heads \/ (a.heads /\ part.marks = {}) => b.heads \/ stage = "end"

CarriesAll(stage, a, parts, b) ==
    /\ parts \in Seq(Parts)
    /\ \E f \in [1..Len(parts) + 1 -> States] :
          /\ f[1] = a /\ f[Len(parts) + 1] = b
          /\ \A i \in 1..Len(parts) : Carries(stage, f[i], parts[i], f[i + 1])

LEMMA OnePart ==
    ASSUME NEW stage, NEW a \in States, NEW b \in States, NEW part, Carries(stage, a, part, b)
    PROVE  CarriesAll(stage, a, <<part>>, b)
<1> DEFINE f == [i \in 1..2 |-> IF i = 1 THEN a ELSE b]
<1>1. part \in Parts
  BY DEF Carries
<1>2. Len(<<part>>) = 1 /\ <<part>>[1] = part /\ <<part>> \in Seq(Parts)
  BY <1>1
<1>3. f \in [1..2 -> States] /\ f[1] = a /\ f[2] = b
  OBVIOUS
<1> HIDE DEF f
<1>4. \A i \in 1..1 : Carries(stage, f[i], <<part>>[i], f[i + 1])
  BY <1>2, <1>3
<1> QED BY <1>2, <1>3, <1>4 DEF CarriesAll

LEMMA MoreParts ==
    ASSUME NEW stage, NEW a, NEW b, NEW c, NEW s, NEW t,
           CarriesAll(stage, a, s, b), CarriesAll(stage, b, t, c)
    PROVE  CarriesAll(stage, a, s \o t, c)
<1>1. s \in Seq(Parts) /\ t \in Seq(Parts)
  BY DEF CarriesAll
<1> DEFINE m == Len(s)
           n == Len(t)
<1>2. m \in Nat /\ n \in Nat /\ Len(s \o t) = m + n /\ s \o t \in Seq(Parts)
  BY <1>1
<1>3. PICK f \in [1..m + 1 -> States] :
        /\ f[1] = a /\ f[m + 1] = b
        /\ \A i \in 1..m : Carries(stage, f[i], s[i], f[i + 1])
  BY DEF CarriesAll
<1>4. PICK g \in [1..n + 1 -> States] :
        /\ g[1] = b /\ g[n + 1] = c
        /\ \A i \in 1..n : Carries(stage, g[i], t[i], g[i + 1])
  BY DEF CarriesAll
<1>5. \A i \in 1..m + n : (s \o t)[i] = IF i <= m THEN s[i] ELSE t[i - m]
  BY <1>1
<1> DEFINE h == [i \in 1..(m + n) + 1 |-> IF i <= m THEN f[i] ELSE g[i - m]]
<1> HIDE DEF m, n
<1>6. h \in [1..(m + n) + 1 -> States] /\ h[1] = a /\ h[(m + n) + 1] = c
  <2>1. \A i \in 1..(m + n) + 1 : (i <= m => i \in 1..m + 1) /\ (~(i <= m) => i - m \in 1..n + 1)
    BY <1>2
  <2>2. h \in [1..(m + n) + 1 -> States]
    BY <1>3, <1>4, <2>1
  <2>3. 1 \in 1..(m + n) + 1 /\ (m + n) + 1 \in 1..(m + n) + 1
        /\ ~((m + n) + 1 <= m) /\ (m + n) + 1 - m = n + 1 /\ (~(1 <= m) => m = 0)
    BY <1>2
  <2> QED BY <1>2, <1>3, <1>4, <2>2, <2>3
<1>7. \A i \in 1..m + n : Carries(stage, h[i], (s \o t)[i], h[i + 1])
  <2> SUFFICES ASSUME NEW i \in 1..m + n PROVE Carries(stage, h[i], (s \o t)[i], h[i + 1])
    OBVIOUS
  <2>1. i \in 1..(m + n) + 1 /\ i + 1 \in 1..(m + n) + 1
    BY <1>2
  <2>2. CASE i <= m
    <3>1. h[i] = f[i] /\ (s \o t)[i] = s[i]
      BY <1>5, <2>1, <2>2
    <3>2. h[i + 1] = f[i + 1]
      <4>1. i + 1 <= m \/ i = m
        BY <1>2, <2>2
      <4>2. ~(m + 1 <= m) /\ m + 1 - m = 1
        BY <1>2
      <4> QED BY <1>3, <1>4, <2>1, <4>1, <4>2
    <3>3. i \in 1..m
      BY <1>2, <2>2
    <3> QED BY <1>3, <3>1, <3>2, <3>3
  <2>3. CASE ~(i <= m)
    <3>1. i - m \in 1..n /\ ~(i + 1 <= m) /\ (i + 1) - m = (i - m) + 1
      BY <1>2, <2>3
    <3>2. h[i] = g[i - m] /\ h[i + 1] = g[(i - m) + 1] /\ (s \o t)[i] = t[i - m]
      BY <1>5, <2>1, <2>3, <3>1
    <3> QED BY <1>4, <3>1, <3>2
  <2> QED BY <2>2, <2>3
<1> HIDE DEF h
<1> QED BY <1>2, <1>6, <1>7 DEF CarriesAll

LEMMA FirstPart ==
    ASSUME NEW stage, NEW a, NEW b, NEW s, CarriesAll(stage, a, s, b), s # <<>>
    PROVE  /\ Head(s) \in Parts /\ Tail(s) \in Seq(Parts) /\ a \in States
           /\ \E c \in States : Carries(stage, a, Head(s), c) /\ CarriesAll(stage, c, Tail(s), b)
<1>1. s \in Seq(Parts)
  BY DEF CarriesAll
<1> DEFINE n == Len(s)
<1>2. n \in Nat /\ n > 0
  BY <1>1
<1>3. PICK f \in [1..n + 1 -> States] :
        /\ f[1] = a /\ f[n + 1] = b
        /\ \A i \in 1..n : Carries(stage, f[i], s[i], f[i + 1])
  BY DEF CarriesAll
<1>4. /\ Head(s) = s[1] /\ Head(s) \in Parts /\ Tail(s) \in Seq(Parts) /\ Len(Tail(s)) = n - 1
      /\ \A i \in 1..n - 1 : Tail(s)[i] = s[i + 1]
  BY <1>1, <1>2
<1> DEFINE g == [i \in 1..(n - 1) + 1 |-> f[i + 1]]
<1> HIDE DEF n
<1>5. 1 \in 1..n /\ 1 \in 1..n + 1 /\ 2 \in 1..n + 1 /\ 1 + 1 = 2 /\ (n - 1) + 1 = n
  BY <1>2
<1>6. f[1] \in States /\ f[2] \in States /\ Carries(stage, f[1], s[1], f[2])
  BY <1>3, <1>5
<1>7. \A i \in 1..n : i + 1 \in 1..n + 1
  BY <1>2
<1>8. g \in [1..(n - 1) + 1 -> States] /\ g[1] = f[2] /\ g[(n - 1) + 1] = b
  <2>1. g \in [1..n -> States]
    BY <1>3, <1>5, <1>7
  <2>2. g[1] = f[2] /\ g[n] = f[n + 1]
    BY <1>2, <1>5
  <2> QED BY <1>3, <1>5, <2>1, <2>2
<1>9. \A i \in 1..n - 1 : Carries(stage, g[i], Tail(s)[i], g[i + 1])
  <2> SUFFICES ASSUME NEW i \in 1..n - 1 PROVE Carries(stage, g[i], Tail(s)[i], g[i + 1])
    OBVIOUS
  <2>1. i \in 1..n /\ i + 1 \in 1..n
    BY <1>2
  <2>2. g[i] = f[i + 1] /\ g[i + 1] = f[(i + 1) + 1]
    BY <1>5, <2>1
  <2> QED BY <1>3, <1>4, <2>1, <2>2
<1> HIDE DEF g
<1>10. CarriesAll(stage, f[2], Tail(s), b)
  BY <1>4, <1>8, <1>9 DEF CarriesAll
<1> QED BY <1>3, <1>4, <1>6, <1>10
(* Drawing a part does what Carries says. *)
Known(stage, a, y, free, heading) ==
    /\ y - Margin >= a.room /\ y - Margin <= a.most /\ y <= TopOfPage
    /\ free - y >= a.gap /\ a.gap <= HeadRoom
    /\ heading => a.heads \/ stage = "end"

LayoutType ==
    doc \in [stage : {"alerts", "details", "end"}, findings : Nat, todo : Seq(Parts), page : Int,
             y : Int, free : Int, heading : BOOLEAN,
             last : [bottom : Int, top : Int, free : Int, parted : BOOLEAN]]

(* The lowest lower edge and the highest upper edge of marks that are bounded. *)
LEMMA Edges ==
    ASSUME NEW marks \in SUBSET [bottom : Int, top : Int], marks # {}, NEW low \in Int, NEW high \in Int,
           \A m \in marks : m.bottom >= low /\ m.top <= high
    PROVE  /\ \E m \in marks : Min({n.bottom : n \in marks}) = m.bottom
           /\ \A m \in marks : Min({n.bottom : n \in marks}) <= m.bottom
           /\ \E m \in marks : Max({n.top : n \in marks}) = m.top
<1> DEFINE bottoms == {n.bottom : n \in marks}
           tops == {n.top : n \in marks}
           raised == {n.bottom - low : n \in marks}
           sunk == {high - n.top : n \in marks}
<1>1. \A m \in marks : m.bottom \in Int /\ m.top \in Int
  OBVIOUS
<1>2. \E x \in raised : \A y \in raised : x <= y
  <2>1. raised \subseteq Nat /\ raised # {}
    BY <1>1
  <2> HIDE DEF raised
  <2> QED BY <2>1, LeastExists
<1>3. \E x \in sunk : \A y \in sunk : x <= y
  <2>1. sunk \subseteq Nat /\ sunk # {}
    BY <1>1
  <2> HIDE DEF sunk
  <2> QED BY <2>1, LeastExists
<1>4. PICK l \in marks : \A n \in marks : l.bottom <= n.bottom
  <2>1. PICK l \in marks : \A n \in marks : l.bottom - low <= n.bottom - low
    BY <1>2
  <2> QED BY <1>1, <2>1
<1>5. PICK o \in marks : \A n \in marks : o.top >= n.top
  <2>1. PICK o \in marks : \A n \in marks : high - o.top <= high - n.top
    BY <1>3
  <2> QED BY <1>1, <2>1
<1>6. \E x \in bottoms : \A y \in bottoms : x <= y
  BY <1>4
<1>7. \E x \in tops : \A y \in tops : x >= y
  BY <1>5
<1>8. Min(bottoms) \in bottoms /\ \A y \in bottoms : Min(bottoms) <= y
  <2> HIDE DEF bottoms
  <2> QED BY <1>6 DEF Min
<1>9. Max(tops) \in tops
  <2> HIDE DEF tops
  <2> QED BY <1>7 DEF Max
<1> QED BY <1>8, <1>9

(* Where a part is set if the cursor was known, and what is known then. *)
LEMMA PartPlaced ==
    ASSUME NEW a \in States, NEW b \in States, NEW part \in Parts, Carries(doc.stage, a, part, b),
           doc.y \in Int, doc.free \in Int, doc.heading \in BOOLEAN,
           Known(doc.stage, a, doc.y, doc.free, doc.heading),
           NEW top \in Int, NEW above \in Int,
           top = (IF part.need > 0 /\ doc.y - part.need < Margin THEN TopOfPage ELSE doc.y),
           above = (IF part.need > 0 /\ doc.y - part.need < Margin THEN Sheet ELSE doc.free)
    PROVE  /\ b.room <= top - Margin - part.down /\ top - Margin - part.down <= b.most
           /\ b.gap <= (above - top) + part.down /\ b.gap <= HeadRoom /\ top - part.down <= TopOfPage
           /\ \A m \in part.marks : /\ m.bottom + (top - Margin) >= 0 /\ m.top <= (above - top) + Slack
                                    /\ b.gap <= m.bottom + part.down
           /\ (part.need > 0 /\ doc.y - part.need < Margin) /\ doc.heading => doc.stage = "end"
           /\ part.heads \/ (doc.heading /\ part.marks = {}) => b.heads \/ doc.stage = "end"
<1> DEFINE breaks == part.need > 0 /\ doc.y - part.need < Margin
           certain == part.need > 0 /\ part.need > a.most
           stays == part.need = 0 \/ part.need <= a.room
           low == IF certain THEN Page ELSE IF stays THEN a.room ELSE part.need
           high == IF stays THEN a.most ELSE Page
           gap == IF certain THEN HeadRoom ELSE a.gap
           room == top - Margin
<1>1. /\ doc.y - Margin >= a.room /\ doc.y - Margin <= a.most /\ doc.y <= TopOfPage
      /\ doc.free - doc.y >= a.gap /\ a.gap <= HeadRoom
      /\ doc.heading => a.heads \/ doc.stage = "end"
  BY DEF Known
<1>2. /\ part.need <= Page
      /\ doc.stage = "end" \/ ~a.heads \/ stays
      /\ \A m \in part.marks : /\ m.bottom + low >= 0 /\ m.top <= gap + Slack
                               /\ b.gap <= m.bottom + part.down
      /\ b.room <= low - part.down /\ b.most >= high - part.down
      /\ b.gap <= gap + part.down /\ b.gap <= HeadRoom
      /\ part.heads \/ (a.heads /\ part.marks = {}) => b.heads \/ doc.stage = "end"
  BY DEF Carries
<1>3. Margin = 84 /\ Page = 1516 /\ HeadRoom = 84 /\ TopOfPage = 1600 /\ Sheet = 1684 /\ Slack = 6
  BY DEF Margin, Page, HeadRoom, TopOfPage, Sheet, Slack, Pt
<1>4. /\ part.need \in Nat /\ part.down \in Nat /\ a.room \in Int /\ a.most \in Int /\ a.gap \in Int
      /\ b.room \in Int /\ b.most \in Int /\ b.gap \in Int
      /\ \A m \in part.marks : m.bottom \in Int /\ m.top \in Int
  BY DEF Parts, States
<1>5. low \in Int /\ high \in Int /\ gap \in Int /\ room \in Int
  BY <1>3, <1>4
<1>6. room >= low /\ room <= high /\ above - top >= gap /\ (breaks => ~stays)
  BY <1>1, <1>2, <1>3, <1>4
<1>7. breaks /\ doc.heading => doc.stage = "end"
  BY <1>1, <1>2, <1>6
<1>8. part.heads \/ (doc.heading /\ part.marks = {}) => b.heads \/ doc.stage = "end"
  BY <1>1, <1>2
<1>9. top - part.down <= TopOfPage
  BY <1>1, <1>3, <1>4
<1> HIDE DEF low, high, gap, stays, certain
<1>10. b.room <= room - part.down /\ room - part.down <= b.most /\ b.gap <= (above - top) + part.down
  BY <1>2, <1>4, <1>5, <1>6
<1>11. \A m \in part.marks : m.bottom + room >= 0 /\ m.top <= (above - top) + Slack
  BY <1>2, <1>3, <1>4, <1>5, <1>6
<1> QED BY <1>2, <1>7, <1>8, <1>9, <1>10, <1>11

LEMMA DrawingCarries ==
    ASSUME LayoutType, Draw, NEW a \in States, NEW b \in States, NEW part \in Parts,
           part = Head(doc.todo), Carries(doc.stage, a, part, b),
           Known(doc.stage, a, doc.y, doc.free, doc.heading), NothingOverlaps, HeadingKept
    PROVE  /\ NothingOverlaps' /\ HeadingKept' /\ (Tail(doc.todo) \in Seq(Parts) => LayoutType')
           /\ doc'.todo = Tail(doc.todo) /\ doc'.stage = doc.stage
           /\ Known(doc.stage, b, doc'.y, doc'.free, doc'.heading)
<1> DEFINE breaks == part.need > 0 /\ doc.y - part.need < Margin
           at == IF breaks THEN Fresh ELSE [y |-> doc.y, free |-> doc.free]
           drawn == part.marks # {}
           bottom == at.y + Min({m.bottom : m \in part.marks})
           top == at.y + Max({m.top : m \in part.marks})
           parted == breaks /\ doc.heading
           leads == part.heads \/ (doc.heading /\ ~drawn)
<1>1. /\ part.need \in Nat /\ part.down \in Nat /\ b.room \in Int /\ b.most \in Int /\ b.gap \in Int
      /\ doc.y \in Int /\ doc.free \in Int
      /\ \A m \in part.marks : m.bottom \in Int /\ m.top \in Int
  BY DEF LayoutType, Parts, States
<1>2. /\ part.marks \in SUBSET [bottom : Int, top : Int] /\ doc.heading \in BOOLEAN /\ breaks \in BOOLEAN
      /\ parted \in BOOLEAN /\ leads \in BOOLEAN
  BY DEF LayoutType, Parts
<1>3. /\ at.y \in Int /\ at.free \in Int
      /\ at.y = IF breaks THEN TopOfPage ELSE doc.y
      /\ at.free = IF breaks THEN Sheet ELSE doc.free
  BY <1>1 DEF Fresh, TopOfPage, Sheet, Pt
<1>4. doc' = [doc EXCEPT !.todo = Tail(@), !.page = IF breaks THEN @ + 1 ELSE @, !.y = at.y - part.down,
                         !.free = IF drawn THEN Least(at.free, bottom) ELSE at.free, !.heading = leads,
                         !.last = IF drawn THEN [bottom |-> bottom, top |-> top, free |-> at.free,
                                                 parted |-> parted]
                                  ELSE [@ EXCEPT !.parted = parted]]
  BY DEF Draw
<1> HIDE DEF at
<1>5. /\ b.room <= at.y - Margin - part.down /\ at.y - Margin - part.down <= b.most
      /\ b.gap <= (at.free - at.y) + part.down /\ b.gap <= HeadRoom /\ at.y - part.down <= TopOfPage
      /\ \A m \in part.marks : /\ m.bottom + (at.y - Margin) >= 0 /\ m.top <= (at.free - at.y) + Slack
                               /\ b.gap <= m.bottom + part.down
      /\ breaks /\ doc.heading => doc.stage = "end"
      /\ part.heads \/ (doc.heading /\ part.marks = {}) => b.heads \/ doc.stage = "end"
  BY <1>1, <1>2, <1>3, PartPlaced
<1>6. parted => doc.stage = "end"
  BY <1>5
<1>7. leads => b.heads \/ doc.stage = "end"
  BY <1>5
<1> HIDE DEF breaks, parted, leads, bottom, top
<1>8. /\ DOMAIN doc' = DOMAIN doc /\ doc' = [x \in DOMAIN doc |-> doc'[x]] /\ doc'.page \in Int
      /\ doc'.todo = Tail(doc.todo) /\ doc'.stage = doc.stage /\ doc'.findings = doc.findings
      /\ doc'.y = at.y - part.down
      /\ doc'.free = IF drawn THEN Least(at.free, bottom) ELSE at.free
      /\ doc'.heading = leads
      /\ doc'.last = IF drawn THEN [bottom |-> bottom, top |-> top, free |-> at.free, parted |-> parted]
                     ELSE [doc.last EXCEPT !.parted = parted]
  <2> DEFINE page == IF breaks THEN doc.page + 1 ELSE doc.page
             free == IF drawn THEN Least(at.free, bottom) ELSE at.free
             last == IF drawn THEN [bottom |-> bottom, top |-> top, free |-> at.free, parted |-> parted]
                     ELSE [doc.last EXCEPT !.parted = parted]
  <2>1. doc' = [doc EXCEPT !.todo = Tail(doc.todo), !.page = page, !.y = at.y - part.down,
                           !.free = free, !.heading = leads, !.last = last]
    BY <1>4
  <2>2. page \in Int
    BY DEF LayoutType
  <2>3. DOMAIN doc = {"stage", "findings", "todo", "page", "y", "free", "heading", "last"}
    BY DEF LayoutType
  <2> HIDE DEF page, free, last
  <2>4. /\ DOMAIN doc' = DOMAIN doc /\ doc' = [x \in DOMAIN doc |-> doc'[x]] /\ doc'.page = page
        /\ doc'.todo = Tail(doc.todo) /\ doc'.stage = doc.stage /\ doc'.findings = doc.findings
        /\ doc'.y = at.y - part.down /\ doc'.free = free /\ doc'.heading = leads /\ doc'.last = last
    BY <2>1, <2>3
  <2> QED BY <2>2, <2>4 DEF free, last
<1>9. Margin \in Int /\ Slack \in Int
  BY DEF Margin, Slack, Pt
<1>10. ASSUME drawn
      PROVE  /\ bottom \in Int /\ top \in Int /\ bottom >= Margin /\ top <= at.free + Slack
             /\ bottom - (at.y - part.down) >= b.gap
  <2> DEFINE low == 0 - (at.y - Margin)
             high == (at.free - at.y) + Slack
             lowest == Min({n.bottom : n \in part.marks})
             highest == Max({n.top : n \in part.marks})
  <2>1. low \in Int /\ high \in Int /\ \A m \in part.marks : m.bottom >= low /\ m.top <= high
    BY <1>1, <1>3, <1>5, <1>9
  <2>2. (\E m \in part.marks : lowest = m.bottom) /\ (\E m \in part.marks : highest = m.top)
    <3> HIDE DEF low, high
    <3> QED BY <1>2, <1>10, <2>1, Edges
  <2>3. bottom = at.y + lowest /\ top = at.y + highest
    BY DEF bottom, top
  <2> HIDE DEF lowest, highest
  <2>4. /\ lowest \in Int /\ highest \in Int /\ lowest >= low /\ highest <= high /\ b.gap <= lowest + part.down
    <3> HIDE DEF low, high
    <3> QED BY <1>1, <1>5, <2>1, <2>2
  <2> QED BY <1>1, <1>3, <1>9, <2>3, <2>4
<1>11. /\ doc'.last.parted = parted /\ doc'.last \in [bottom : Int, top : Int, free : Int, parted : BOOLEAN]
       /\ drawn => doc'.last.bottom = bottom /\ doc'.last.top = top /\ doc'.last.free = at.free
       /\ ~drawn => /\ doc'.last.bottom = doc.last.bottom /\ doc'.last.top = doc.last.top
                    /\ doc'.last.free = doc.last.free
  <2>1. doc.last \in [bottom : Int, top : Int, free : Int, parted : BOOLEAN]
    BY DEF LayoutType
  <2>2. CASE drawn
    BY <1>2, <1>3, <1>8, <1>10, <2>1, <2>2
  <2>3. CASE ~drawn
    BY <1>2, <1>8, <2>1, <2>3
  <2> QED BY <2>2, <2>3
<1>12. NothingOverlaps'
  BY <1>10, <1>11 DEF NothingOverlaps
<1>13. HeadingKept'
  BY <1>8, <1>6, <1>11 DEF HeadingKept
<1>14. doc'.y \in Int /\ doc'.free \in Int /\ doc'.heading \in BOOLEAN
  BY <1>1, <1>2, <1>3, <1>8, <1>10 DEF Least
<1>15. Tail(doc.todo) \in Seq(Parts) => LayoutType'
  BY <1>8, <1>11, <1>14 DEF LayoutType
<1>16. Known(doc.stage, b, doc'.y, doc'.free, doc'.heading)
  <2>1. doc'.heading => b.heads \/ doc.stage = "end"
    BY <1>8, <1>7
  <2>2. doc'.free - doc'.y >= b.gap
    BY <1>1, <1>3, <1>8, <1>5, <1>10 DEF Least
  <2>3. doc'.y - Margin >= b.room /\ doc'.y - Margin <= b.most
    BY <1>1, <1>3, <1>8, <1>5, <1>9
  <2> QED BY <1>8, <1>5, <2>1, <2>2, <2>3 DEF Known
<1> QED BY <1>8, <1>12, <1>13, <1>15, <1>16
(* A part by its numbers (nothing is drawn where the highest is below the lowest),
   and what these have to do with those of the cursor. *)
Measured(need, marks, low, high, down) ==
    /\ need \in Nat /\ low \in Int /\ high \in Int /\ down \in Nat
    /\ marks \in SUBSET [bottom : Int, top : Int]
    /\ \A m \in marks : m.bottom >= low /\ m.top <= high
    /\ low <= high => marks # {}

Is(part, need, low, high, down) ==
    /\ part \in Parts /\ Measured(need, part.marks, low, high, down)
    /\ part.need = need /\ part.down = down

Single(parts, need, low, high, down) ==
    \E part : parts = <<part>> /\ Is(part, need, low, high, down) /\ ~part.heads
SingleHeading(parts, need, low, high, down) ==
    \E part : parts = <<part>> /\ Is(part, need, low, high, down)

Goes(need, low, high, down, room, most, gap, room2, most2, gap2) ==
    LET stays == need = 0 \/ need <= room
        breaks == need > 0 /\ need > most
        least == IF breaks THEN Page ELSE IF stays THEN room ELSE need
        above == IF breaks THEN HeadRoom ELSE gap
    IN  /\ \A n \in {room, most, gap, room2, most2, gap2} : n \in Int
        /\ need <= Page /\ low + least >= 0 /\ high <= above + Slack /\ gap2 <= low + down
        /\ room2 <= least - down /\ most2 >= (IF stays THEN most ELSE Page) - down
        /\ gap2 <= above + down /\ gap2 <= HeadRoom
Stays(stage, need, low, high, room) == low <= high /\ (stage = "end" \/ need = 0 \/ need <= room)

LEMMA Numbers ==
    /\ Page = 1516 /\ HeadRoom = 84 /\ Slack = 6
    /\ Margin = 84 /\ TopOfPage = 1600 /\ Sheet = 1684
BY DEF Page, HeadRoom, Slack, Margin, TopOfPage, Sheet, Pt

LEMMA PartCarries ==
    ASSUME NEW stage, NEW part, NEW need, NEW low, NEW high, NEW down,
           NEW room, NEW most, NEW gap, NEW room2, NEW most2, NEW gap2,
           Is(part, need, low, high, down),
           Goes(need, low, high, down, room, most, gap, room2, most2, gap2),
           NEW a \in States, a.room = room, a.most = most, a.gap = gap,
           a.heads => Stays(stage, need, low, high, room),
           NEW b \in States, b.room = room2, b.most = most2, b.gap = gap2,
           part.heads => b.heads \/ stage = "end"
    PROVE  CarriesAll(stage, a, <<part>>, b)
<1> DEFINE least == IF need > 0 /\ need > most THEN Page ELSE IF need = 0 \/ need <= room THEN room ELSE need
           above == IF need > 0 /\ need > most THEN HeadRoom ELSE gap
<1>1. /\ part \in Parts /\ part.need = need /\ part.down = down /\ need \in Nat /\ down \in Nat
      /\ low \in Int /\ high \in Int
      /\ \A m \in part.marks : m.bottom \in Int /\ m.top \in Int /\ m.bottom >= low /\ m.top <= high
      /\ low <= high => part.marks # {}
  BY DEF Is, Measured, Parts
<1>2. room \in Int /\ most \in Int /\ gap \in Int /\ room2 \in Int /\ most2 \in Int /\ gap2 \in Int
  BY DEF Goes
<1>3. /\ need <= Page /\ low + least >= 0 /\ high <= above + Slack /\ gap2 <= low + down
      /\ room2 <= least - down /\ most2 >= (IF need = 0 \/ need <= room THEN most ELSE Page) - down
      /\ gap2 <= above + down /\ gap2 <= HeadRoom
  BY DEF Goes
<1>4. part.heads \/ (a.heads /\ part.marks = {}) => b.heads \/ stage = "end"
  BY <1>1 DEF Stays
<1>5. stage = "end" \/ ~a.heads \/ (part.need = 0 \/ part.need <= a.room)
  BY <1>1 DEF Stays
<1>6. least \in Int /\ above \in Int
  BY <1>1, <1>2, Numbers
<1> HIDE DEF least, above
<1>7. \A m \in part.marks : m.bottom + least >= 0 /\ m.top <= above + Slack /\ gap2 <= m.bottom + down
  BY <1>1, <1>2, <1>3, <1>6, Numbers
<1>8. Carries(stage, a, part, b)
  BY <1>1, <1>2, <1>3, <1>4, <1>5, <1>7 DEF Carries, least, above
<1> QED BY <1>8, OnePart

LEMMA Placing ==
    ASSUME NEW stage, NEW parts, NEW need, NEW low, NEW high, NEW down,
           NEW room, NEW most, NEW gap, NEW room2, NEW most2, NEW gap2,
           Goes(need, low, high, down, room, most, gap, room2, most2, gap2),
           Single(parts, need, low, high, down)
    PROVE  CarriesAll(stage, At(room, most, gap), parts, At(room2, most2, gap2))
<1>1. PICK part : parts = <<part>> /\ Is(part, need, low, high, down) /\ ~part.heads
  BY DEF Single
<1>2. room \in Int /\ most \in Int /\ gap \in Int /\ room2 \in Int /\ most2 \in Int /\ gap2 \in Int
  BY DEF Goes
<1> DEFINE a == At(room, most, gap)
           b == At(room2, most2, gap2)
<1>3. a \in States /\ a.room = room /\ a.most = most /\ a.gap = gap /\ ~a.heads
  BY <1>2 DEF At, Under, States
<1>4. b \in States /\ b.room = room2 /\ b.most = most2 /\ b.gap = gap2
  BY <1>2 DEF At, Under, States
<1> HIDE DEF a, b
<1>5. CarriesAll(stage, a, <<part>>, b)
  BY <1>1, <1>3, <1>4, PartCarries
<1> QED BY <1>1, <1>5 DEF a, b

LEMMA PlacingBelow ==
    ASSUME NEW stage, NEW parts, NEW need, NEW low, NEW high, NEW down,
           NEW room, NEW most, NEW gap, NEW room2, NEW most2, NEW gap2,
           Goes(need, low, high, down, room, most, gap, room2, most2, gap2),
           Single(parts, need, low, high, down), Stays(stage, need, low, high, room)
    PROVE  CarriesAll(stage, Under(room, most, gap), parts, At(room2, most2, gap2))
<1>1. PICK part : parts = <<part>> /\ Is(part, need, low, high, down) /\ ~part.heads
  BY DEF Single
<1>2. room \in Int /\ most \in Int /\ gap \in Int /\ room2 \in Int /\ most2 \in Int /\ gap2 \in Int
  BY DEF Goes
<1> DEFINE a == Under(room, most, gap)
           b == At(room2, most2, gap2)
<1>3. a \in States /\ a.room = room /\ a.most = most /\ a.gap = gap
  BY <1>2 DEF At, Under, States
<1>4. b \in States /\ b.room = room2 /\ b.most = most2 /\ b.gap = gap2
  BY <1>2 DEF At, Under, States
<1> HIDE DEF a, b
<1>5. CarriesAll(stage, a, <<part>>, b)
  BY <1>1, <1>3, <1>4, PartCarries
<1> QED BY <1>1, <1>5 DEF a, b

LEMMA PlacingHeading ==
    ASSUME NEW stage, NEW parts, NEW need, NEW low, NEW high, NEW down,
           NEW room, NEW most, NEW gap, NEW room2, NEW most2, NEW gap2,
           Goes(need, low, high, down, room, most, gap, room2, most2, gap2),
           SingleHeading(parts, need, low, high, down)
    PROVE  CarriesAll(stage, At(room, most, gap), parts, Under(room2, most2, gap2))
<1>1. PICK part : parts = <<part>> /\ Is(part, need, low, high, down)
  BY DEF SingleHeading
<1>2. room \in Int /\ most \in Int /\ gap \in Int /\ room2 \in Int /\ most2 \in Int /\ gap2 \in Int
  BY DEF Goes
<1> DEFINE a == At(room, most, gap)
           b == Under(room2, most2, gap2)
<1>3. a \in States /\ a.room = room /\ a.most = most /\ a.gap = gap /\ ~a.heads
  BY <1>2 DEF At, Under, States
<1>4. b \in States /\ b.room = room2 /\ b.most = most2 /\ b.gap = gap2 /\ b.heads
  BY <1>2 DEF At, Under, States
<1> HIDE DEF a, b
<1>5. CarriesAll(stage, a, <<part>>, b)
  BY <1>1, <1>3, <1>4, PartCarries
<1> QED BY <1>1, <1>5 DEF a, b

LEMMA PlacingAtEnd ==
    ASSUME NEW parts, NEW need, NEW low, NEW high, NEW down,
           NEW room, NEW most, NEW gap, NEW room2, NEW most2, NEW gap2,
           Goes(need, low, high, down, room, most, gap, room2, most2, gap2),
           SingleHeading(parts, need, low, high, down)
    PROVE  CarriesAll("end", At(room, most, gap), parts, At(room2, most2, gap2))
<1>1. PICK part : parts = <<part>> /\ Is(part, need, low, high, down)
  BY DEF SingleHeading
<1>2. room \in Int /\ most \in Int /\ gap \in Int /\ room2 \in Int /\ most2 \in Int /\ gap2 \in Int
  BY DEF Goes
<1> DEFINE a == At(room, most, gap)
           b == At(room2, most2, gap2)
<1>3. a \in States /\ a.room = room /\ a.most = most /\ a.gap = gap /\ ~a.heads
  BY <1>2 DEF At, Under, States
<1>4. b \in States /\ b.room = room2 /\ b.most = most2 /\ b.gap = gap2
  BY <1>2 DEF At, Under, States
<1> HIDE DEF a, b
<1>5. CarriesAll("end", a, <<part>>, b)
  BY <1>1, <1>3, <1>4, PartCarries
<1> QED BY <1>1, <1>5 DEF a, b

LEMMA SingleIs ==
    ASSUME NEW points, NEW marks, NEW low, NEW high, NEW descent, NEW need, NEW down,
           Measured(need, marks, low, high, down),
           need = Pt(points), down = Pt(descent), points \in Nat, descent \in Nat
    PROVE  Single(<<Part(points, marks, descent)>>, need, low, high, down)
<1> DEFINE part == Part(points, marks, descent)
<1>1. need \in Nat /\ down \in Nat /\ marks \in SUBSET [bottom : Int, top : Int]
  BY DEF Measured
<1>2. part \in Parts /\ part.need = need /\ part.marks = marks /\ part.down = down /\ ~part.heads
  BY <1>1 DEF Part, Parts
<1> HIDE DEF part
<1>3. Is(part, need, low, high, down)
  BY <1>2 DEF Is
<1>4. Single(<<part>>, need, low, high, down)
  BY <1>2, <1>3, Zenon DEF Single
<1> QED BY <1>4 DEF part

LEMMA SingleHeadingIs ==
    ASSUME NEW points, NEW marks, NEW low, NEW high, NEW descent, NEW need, NEW down,
           Measured(need, marks, low, high, down),
           need = Pt(points), down = Pt(descent), points \in Nat, descent \in Nat
    PROVE  SingleHeading(<<Heading(points, marks, descent)>>, need, low, high, down)
<1> DEFINE part == Heading(points, marks, descent)
<1>1. need \in Nat /\ down \in Nat /\ marks \in SUBSET [bottom : Int, top : Int]
  BY DEF Measured
<1>2. part \in Parts /\ part.need = need /\ part.marks = marks /\ part.down = down
  BY <1>1 DEF Heading, Parts
<1> HIDE DEF part
<1>3. Is(part, need, low, high, down)
  BY <1>2 DEF Is
<1>4. SingleHeading(<<part>>, need, low, high, down)
  BY <1>3, Zenon DEF SingleHeading
<1> QED BY <1>4 DEF part

(* The parts of fixed height. *)
LEMMA MastIs == Single(<<Part(0, {Box(30, 72)}, 56)>>, 0, -60, 84, 112)
<1> DEFINE marks == {Box(30, 72)}
<1>1. Box(30, 72) = [bottom |-> -60, top |-> 84]
  BY DEF Box, Pt
<1>2. Measured(0, marks, -60, 84, 112) /\ 0 = Pt(0) /\ 112 = Pt(56)
  BY <1>1 DEF Measured, Pt
<1> HIDE DEF marks
<1>3. Single(<<Part(0, marks, 56)>>, 0, -60, 84, 112)
  BY <1>2, SingleIs
<1> QED BY <1>3 DEF marks

LEMMA DatelineIs == Single(<<Part(0, {Text(0, 9)}, 18)>>, 0, 0, 13, 36)
<1> DEFINE marks == {Text(0, 9)}
<1>1. Text(0, 9) = [bottom |-> 0, top |-> 13]
  BY DEF Text, Pt
<1>2. Measured(0, marks, 0, 13, 36) /\ 0 = Pt(0) /\ 36 = Pt(18)
  BY <1>1 DEF Measured, Pt
<1> HIDE DEF marks
<1>3. Single(<<Part(0, marks, 18)>>, 0, 0, 13, 36)
  BY <1>2, SingleIs
<1> QED BY <1>3 DEF marks

LEMMA ScoreCardsIs == Single(ScoreCards, 240, -180, -12, 232)
<1> DEFINE marks == {Box(70, 64), Text(90, 12)}
<1>1. /\ Box(70, 64) = [bottom |-> -140, top |-> -12]
      /\ Text(90, 12) = [bottom |-> -180, top |-> -162]
  BY DEF Box, Text, Pt
<1>2. Measured(240, marks, -180, -12, 232) /\ 240 = Pt(120) /\ 232 = Pt(116)
  BY <1>1 DEF Measured, Pt
<1> HIDE DEF marks
<1>3. Single(<<Part(120, marks, 116)>>, 240, -180, -12, 232)
  BY <1>2, SingleIs
<1> QED BY <1>3 DEF ScoreCards, marks

LEMMA SectionIs == SingleHeading(Section, 80, -14, 22, 48)
<1> DEFINE marks == {Text(0, 15), Line(7)}
<1>1. /\ Text(0, 15) = [bottom |-> 0, top |-> 22]
      /\ Line(7) = [bottom |-> -14, top |-> -14]
  BY DEF Line, Text, Pt
<1>2. Measured(80, marks, -14, 22, 48) /\ 80 = Pt(40) /\ 48 = Pt(24)
  BY <1>1 DEF Measured, Pt
<1> HIDE DEF marks
<1>3. SingleHeading(<<Heading(40, marks, 24)>>, 80, -14, 22, 48)
  BY <1>2, SingleHeadingIs
<1> QED BY <1>3 DEF Section, marks

LEMMA ExecutiveSummaryIs == Single(ExecutiveSummary, 264, -172, -24, 208)
<1> DEFINE marks == {Box(86, 74)}
<1>1. Box(86, 74) = [bottom |-> -172, top |-> -24]
  BY DEF Box, Pt
<1>2. Measured(264, marks, -172, -24, 208) /\ 264 = Pt(132) /\ 208 = Pt(104)
  BY <1>1 DEF Measured, Pt
<1> HIDE DEF marks
<1>3. Single(<<Part(132, marks, 104)>>, 264, -172, -24, 208)
  BY <1>2, SingleIs
<1> QED BY <1>3 DEF ExecutiveSummary, marks

LEMMA ProblemRadarIs == Single(ProblemRadar, 460, -412, -16, 448)
<1> DEFINE marks == {Box(206, 198)}
<1>1. Box(206, 198) = [bottom |-> -412, top |-> -16]
  BY DEF Box, Pt
<1>2. Measured(460, marks, -412, -16, 448) /\ 460 = Pt(230) /\ 448 = Pt(224)
  BY <1>1 DEF Measured, Pt
<1> HIDE DEF marks
<1>3. Single(<<Part(230, marks, 224)>>, 460, -412, -16, 448)
  BY <1>2, SingleIs
<1> QED BY <1>3 DEF ProblemRadar, marks

LEMMA HealthImpactIs == Single(HealthImpact, 420, -336, -16, 368)
<1> DEFINE marks == {Box(168, 160)}
<1>1. Box(168, 160) = [bottom |-> -336, top |-> -16]
  BY DEF Box, Pt
<1>2. Measured(420, marks, -336, -16, 368) /\ 420 = Pt(210) /\ 368 = Pt(184)
  BY <1>1 DEF Measured, Pt
<1> HIDE DEF marks
<1>3. Single(<<Part(210, marks, 184)>>, 420, -336, -16, 368)
  BY <1>2, SingleIs
<1> QED BY <1>3 DEF HealthImpact, marks

LEMMA NetworkLoadIs == Single(NetworkLoad, 308, -248, 12, 292)
<1> DEFINE marks == {Text(0, 8), Box(72, 52), Box(92, 9), Box(108, 9), Box(124, 9)}
<1>1. /\ Text(0, 8) = [bottom |-> 0, top |-> 12]
      /\ Box(72, 52) = [bottom |-> -144, top |-> -40]
      /\ Box(92, 9) = [bottom |-> -184, top |-> -166]
      /\ Box(108, 9) = [bottom |-> -216, top |-> -198]
      /\ Box(124, 9) = [bottom |-> -248, top |-> -230]
  BY DEF Box, Text, Pt
<1>2. Measured(308, marks, -248, 12, 292) /\ 308 = Pt(154) /\ 292 = Pt(146)
  BY <1>1 DEF Measured, Pt
<1> HIDE DEF marks
<1>3. Single(<<Part(154, marks, 146)>>, 308, -248, 12, 292)
  BY <1>2, SingleIs
<1> QED BY <1>3 DEF NetworkLoad, marks

LEMMA TriageRowIs == Single(<<TriageRow>>, 108, -84, -8, 92)
<1> DEFINE marks == {Box(42, 38)}
<1>1. Box(42, 38) = [bottom |-> -84, top |-> -8]
  BY DEF Box, Pt
<1>2. Measured(108, marks, -84, -8, 92) /\ 108 = Pt(54) /\ 92 = Pt(46)
  BY <1>1 DEF Measured, Pt
<1> HIDE DEF marks
<1>3. Single(<<Part(54, marks, 46)>>, 108, -84, -8, 92)
  BY <1>2, SingleIs
<1> QED BY <1>3 DEF TriageRow, marks

LEMMA CalloutIs == Single(Callout, 0, -108, -16, 124)
<1> DEFINE marks == {Box(54, 46)}
<1>1. Box(54, 46) = [bottom |-> -108, top |-> -16]
  BY DEF Box, Pt
<1>2. Measured(0, marks, -108, -16, 124) /\ 0 = Pt(0) /\ 124 = Pt(62)
  BY <1>1 DEF Measured, Pt
<1> HIDE DEF marks
<1>3. Single(<<Part(0, marks, 62)>>, 0, -108, -16, 124)
  BY <1>2, SingleIs
<1> QED BY <1>3 DEF Callout, marks

LEMMA FindingRowIs == Single(<<FindingRow>>, 108, -88, -8, 96)
<1> DEFINE marks == {Box(44, 40)}
<1>1. Box(44, 40) = [bottom |-> -88, top |-> -8]
  BY DEF Box, Pt
<1>2. Measured(108, marks, -88, -8, 96) /\ 108 = Pt(54) /\ 96 = Pt(48)
  BY <1>1 DEF Measured, Pt
<1> HIDE DEF marks
<1>3. Single(<<Part(54, marks, 48)>>, 108, -88, -8, 96)
  BY <1>2, SingleIs
<1> QED BY <1>3 DEF FindingRow, marks

LEMMA MoreFindingsIs == Single(<<Part(0, {Text(0, 9)}, 16)>>, 0, 0, 13, 32)
<1> DEFINE marks == {Text(0, 9)}
<1>1. Text(0, 9) = [bottom |-> 0, top |-> 13]
  BY DEF Text, Pt
<1>2. Measured(0, marks, 0, 13, 32) /\ 0 = Pt(0) /\ 32 = Pt(16)
  BY <1>1 DEF Measured, Pt
<1> HIDE DEF marks
<1>3. Single(<<Part(0, marks, 16)>>, 0, 0, 13, 32)
  BY <1>2, SingleIs
<1> QED BY <1>3 DEF marks

LEMMA FaultMapIs == Single(FaultMap, 224, -152, -24, 188)
<1> DEFINE marks == {Box(76, 64)}
<1>1. Box(76, 64) = [bottom |-> -152, top |-> -24]
  BY DEF Box, Pt
<1>2. Measured(224, marks, -152, -24, 188) /\ 224 = Pt(112) /\ 188 = Pt(94)
  BY <1>1 DEF Measured, Pt
<1> HIDE DEF marks
<1>3. Single(<<Part(112, marks, 94)>>, 224, -152, -24, 188)
  BY <1>2, SingleIs
<1> QED BY <1>3 DEF FaultMap, marks

LEMMA AlertLifecycleIs == Single(AlertLifecycle, 192, -184, -8, 216)
<1> DEFINE marks == {Box(46, 42), Box(74, 12), Text(92, 8)}
<1>1. /\ Box(46, 42) = [bottom |-> -92, top |-> -8]
      /\ Box(74, 12) = [bottom |-> -148, top |-> -124]
      /\ Text(92, 8) = [bottom |-> -184, top |-> -172]
  BY DEF Box, Text, Pt
<1>2. Measured(192, marks, -184, -8, 216) /\ 192 = Pt(96) /\ 216 = Pt(108)
  BY <1>1 DEF Measured, Pt
<1> HIDE DEF marks
<1>3. Single(<<Part(96, marks, 108)>>, 192, -184, -8, 216)
  BY <1>2, SingleIs
<1> QED BY <1>3 DEF AlertLifecycle, marks

LEMMA MoreAlertsIs == Single(<<Part(0, {Text(0, 8)}, 14)>>, 0, 0, 12, 28)
<1> DEFINE marks == {Text(0, 8)}
<1>1. Text(0, 8) = [bottom |-> 0, top |-> 12]
  BY DEF Text, Pt
<1>2. Measured(0, marks, 0, 12, 28) /\ 0 = Pt(0) /\ 28 = Pt(14)
  BY <1>1 DEF Measured, Pt
<1> HIDE DEF marks
<1>3. Single(<<Part(0, marks, 14)>>, 0, 0, 12, 28)
  BY <1>2, SingleIs
<1> QED BY <1>3 DEF marks

LEMMA BlankIs ==
    ASSUME NEW points \in Nat, NEW n, n = Pt(points)
    PROVE  Single(Ensure(points), n, 2000, -2000, 0) /\ Single(Down(points), 0, 2000, -2000, n)
<1>1. /\ Measured(n, {}, 2000, -2000, 0) /\ Measured(0, {}, 2000, -2000, n)
      /\ 0 = Pt(0)
  BY DEF Measured, Pt
<1> QED BY <1>1, SingleIs DEF Ensure, Down

LEMMA ChartsAre ==
    ASSUME NEW points \in Nat, NEW n, n = Pt(points)
    PROVE  Single(Charts(points), n, -240, -32, 288)
<1> DEFINE marks == {Box(120, 104)}
<1>1. Box(120, 104) = [bottom |-> -240, top |-> -32] /\ n \in Nat
  BY DEF Box, Pt
<1>2. Measured(n, marks, -240, -32, 288) /\ 288 = Pt(144)
  BY <1>1 DEF Measured, Pt
<1> HIDE DEF marks
<1>3. Single(<<Part(points, marks, 144)>>, n, -240, -32, 288)
  BY <1>2, SingleIs
<1> QED BY <1>3 DEF Charts, marks

(* A part again and again. *)
LEMMA CarriedOnce ==
    ASSUME NEW stage, NEW a, NEW part, NEW b, CarriesAll(stage, a, <<part>>, b)
    PROVE  part \in Parts /\ Carries(stage, a, part, b)
<1>1. Len(<<part>>) = 1 /\ <<part>>[1] = part /\ 1 \in 1..1 /\ 1 + 1 = 2
  OBVIOUS
<1>2. PICK f \in [1..2 -> States] :
        f[1] = a /\ f[2] = b /\ \A i \in 1..1 : Carries(stage, f[i], <<part>>[i], f[i + 1])
  BY <1>1 DEF CarriesAll
<1>3. Carries(stage, a, part, b)
  BY <1>1, <1>2
<1> QED BY <1>3 DEF Carries

LEMMA Repeated ==
    ASSUME NEW stage, NEW part \in Parts, NEW n \in Nat, NEW f \in [1..n + 1 -> States],
           \A i \in 1..n : Carries(stage, f[i], part, f[i + 1])
    PROVE  CarriesAll(stage, f[1], Times(n, part), f[n + 1])
<1>1. /\ Times(n, part) \in Seq(Parts) /\ Len(Times(n, part)) = n
      /\ \A i \in 1..n : Times(n, part)[i] = part
  BY DEF Times
<1> QED BY <1>1 DEF CarriesAll

(* The sections, each from where the one before ends. *)
LEMMA HeaderCarries ==
    ASSUME NEW stage
    PROVE  CarriesAll(stage, At(1516, 1516, 84), Header, At(1368, 1368, 36))
<1>1. CarriesAll(stage, At(1516, 1516, 84), <<Part(0, {Box(30, 72)}, 56)>>, At(1404, 1404, 52))
  BY Numbers, MastIs, Placing DEF Goes
<1>2. CarriesAll(stage, At(1404, 1404, 52), <<Part(0, {Text(0, 9)}, 18)>>, At(1368, 1368, 36))
  BY Numbers, DatelineIs, Placing DEF Goes
<1>3. CarriesAll(stage, At(1516, 1516, 84), <<Part(0, {Box(30, 72)}, 56)>> \o <<Part(0, {Text(0, 9)}, 18)>>, At(1368, 1368, 36))
  BY <1>1, <1>2, MoreParts
<1>4. Header = <<Part(0, {Box(30, 72)}, 56)>> \o <<Part(0, {Text(0, 9)}, 18)>>
  BY DEF Header
<1> QED BY <1>3, <1>4

LEMMA OverviewCarries ==
    ASSUME NEW stage
    PROVE  CarriesAll(stage, At(1516, 1516, 84), Overview, At(384, 384, 36))
<1>1. CarriesAll(stage, At(1516, 1516, 84), Header, At(1368, 1368, 36))
  BY HeaderCarries
<1>2. CarriesAll(stage, At(1368, 1368, 36), ScoreCards, At(1136, 1136, 52))
  BY Numbers, ScoreCardsIs, Placing DEF Goes
<1>3. CarriesAll(stage, At(1136, 1136, 52), Section, Under(1088, 1088, 34))
  BY Numbers, SectionIs, PlacingHeading DEF Goes
<1>4. CarriesAll(stage, Under(1088, 1088, 34), ExecutiveSummary, At(880, 880, 36))
  BY Numbers, ExecutiveSummaryIs, PlacingBelow DEF Goes, Stays
<1>5. CarriesAll(stage, At(880, 880, 36), Section, Under(832, 832, 34))
  BY Numbers, SectionIs, PlacingHeading DEF Goes
<1>6. CarriesAll(stage, Under(832, 832, 34), ProblemRadar, At(384, 384, 36))
  BY Numbers, ProblemRadarIs, PlacingBelow DEF Goes, Stays
<1>7. CarriesAll(stage, At(1516, 1516, 84), Header \o ScoreCards, At(1136, 1136, 52))
  BY <1>1, <1>2, MoreParts
<1>8. CarriesAll(stage, At(1516, 1516, 84), Header \o ScoreCards \o Section, Under(1088, 1088, 34))
  BY <1>7, <1>3, MoreParts
<1>9. CarriesAll(stage, At(1516, 1516, 84), Header \o ScoreCards \o Section \o ExecutiveSummary, At(880, 880, 36))
  BY <1>8, <1>4, MoreParts
<1>10. CarriesAll(stage, At(1516, 1516, 84), Header \o ScoreCards \o Section \o ExecutiveSummary \o Section, Under(832, 832, 34))
  BY <1>9, <1>5, MoreParts
<1>11. CarriesAll(stage, At(1516, 1516, 84), Header \o ScoreCards \o Section \o ExecutiveSummary \o Section \o ProblemRadar, At(384, 384, 36))
  BY <1>10, <1>6, MoreParts
<1> QED BY <1>11 DEF Overview

LEMMA TriageBoardCarries ==
    ASSUME NEW stage
    PROVE  CarriesAll(stage, Under(712, 712, 34), TriageBoard, At(200, 200, 32))
<1> DEFINE head == <<Part(Domains * 48 + 18, {Text(0, 8)}, 14)>>
           f == [i \in 1..Domains + 1 |-> At(684 - 92 * (i - 1), 684 - 92 * (i - 1), 8)]
<1>1. CarriesAll(stage, Under(712, 712, 34), head, At(684, 684, 8))
  <2> DEFINE marks == {Text(0, 8)}
  <2>1. Text(0, 8) = [bottom |-> 0, top |-> 12]
    BY DEF Text, Pt
  <2>2. Measured(516, marks, 0, 12, 28) /\ 516 = Pt(Domains * 48 + 18) /\ 28 = Pt(14) /\ Domains * 48 + 18 \in Nat
    BY <2>1 DEF Measured, Pt, Domains
  <2> HIDE DEF marks
  <2>3. Single(<<Part(Domains * 48 + 18, marks, 14)>>, 516, 0, 12, 28)
    BY <2>2, SingleIs
  <2> QED BY <2>3, Numbers, PlacingBelow DEF Goes, Stays, marks
<1>2. \A i \in 1..Domains : CarriesAll(stage, f[i], <<TriageRow>>, f[i + 1])
  <2> SUFFICES ASSUME NEW i \in 1..5 PROVE CarriesAll(stage, f[i], <<TriageRow>>, f[i + 1])
    BY DEF Domains
  <2> DEFINE room == 684 - 92 * (i - 1)
  <2>1. room \in Int /\ room >= 108 /\ room <= 684 /\ 684 - 92 * (i + 1 - 1) = room - 92
    OBVIOUS
  <2>2. f[i] = At(room, room, 8) /\ f[i + 1] = At(room - 92, room - 92, 8)
    BY <2>1 DEF Domains
  <2> HIDE DEF room, f
  <2>3. Goes(108, -84, -8, 92, room, room, 8, room - 92, room - 92, 8)
    BY <2>1, Numbers DEF Goes
  <2>4. CarriesAll(stage, At(room, room, 8), <<TriageRow>>, At(room - 92, room - 92, 8))
    BY <2>3, TriageRowIs, Placing
  <2> QED BY <2>2, <2>4
<1>3. f \in [1..Domains + 1 -> States] /\ f[1] = At(684, 684, 8) /\ f[Domains + 1] = At(224, 224, 8)
  BY DEF Domains, At, States
<1> HIDE DEF f
<1>4. CarriesAll(stage, At(684, 684, 8), Times(Domains, TriageRow), At(224, 224, 8))
  <2>1. \A i \in 1..Domains : TriageRow \in Parts /\ Carries(stage, f[i], TriageRow, f[i + 1])
    BY <1>2, CarriedOnce
  <2>2. TriageRow \in Parts /\ Domains \in Nat
    BY <2>1 DEF Domains
  <2>3. f \in [1..Domains + 1 -> States] /\ \A i \in 1..Domains : Carries(stage, f[i], TriageRow, f[i + 1])
    BY <1>3, <2>1
  <2>4. CarriesAll(stage, f[1], Times(Domains, TriageRow), f[Domains + 1])
    BY <2>1, <2>2, <2>3, Repeated, Zenon
  <2> QED BY <1>3, <2>4
<1>5. CarriesAll(stage, At(224, 224, 8), Down(12), At(200, 200, 32))
  BY Numbers, BlankIs, Placing DEF Goes, Pt
<1>6. CarriesAll(stage, Under(712, 712, 34), head \o Times(Domains, TriageRow), At(224, 224, 8))
  BY <1>1, <1>4, MoreParts
<1> HIDE DEF head
<1>7. CarriesAll(stage, Under(712, 712, 34), head \o Times(Domains, TriageRow) \o Down(12), At(200, 200, 32))
  BY <1>5, <1>6, MoreParts
<1> QED BY <1>7 DEF TriageBoard, head

LEMMA CausesCarry ==
    ASSUME NEW stage
    PROVE  CarriesAll(stage, At(384, 384, 36), Causes, At(200, 200, 32))
<1>1. CarriesAll(stage, At(384, 384, 36), Ensure(270), At(1516, 1516, 84))
  BY Numbers, BlankIs, Placing DEF Goes, Pt
<1>2. CarriesAll(stage, At(1516, 1516, 84), Section, Under(1468, 1468, 34))
  BY Numbers, SectionIs, PlacingHeading DEF Goes
<1>3. CarriesAll(stage, Under(1468, 1468, 34), HealthImpact, At(1100, 1100, 32))
  BY Numbers, HealthImpactIs, PlacingBelow DEF Goes, Stays
<1>4. CarriesAll(stage, At(1100, 1100, 32), Section, Under(1052, 1052, 34))
  BY Numbers, SectionIs, PlacingHeading DEF Goes
<1>5. CarriesAll(stage, Under(1052, 1052, 34), NetworkLoad, At(760, 760, 44))
  BY Numbers, NetworkLoadIs, PlacingBelow DEF Goes, Stays
<1>6. CarriesAll(stage, At(760, 760, 44), Section, Under(712, 712, 34))
  BY Numbers, SectionIs, PlacingHeading DEF Goes
<1>7. CarriesAll(stage, Under(712, 712, 34), TriageBoard, At(200, 200, 32))
  BY TriageBoardCarries
<1>8. CarriesAll(stage, At(384, 384, 36), Ensure(270) \o Section, Under(1468, 1468, 34))
  BY <1>1, <1>2, MoreParts
<1>9. CarriesAll(stage, At(384, 384, 36), Ensure(270) \o Section \o HealthImpact, At(1100, 1100, 32))
  BY <1>8, <1>3, MoreParts
<1>10. CarriesAll(stage, At(384, 384, 36), Ensure(270) \o Section \o HealthImpact \o Section, Under(1052, 1052, 34))
  BY <1>9, <1>4, MoreParts
<1>11. CarriesAll(stage, At(384, 384, 36), Ensure(270) \o Section \o HealthImpact \o Section \o NetworkLoad, At(760, 760, 44))
  BY <1>10, <1>5, MoreParts
<1>12. CarriesAll(stage, At(384, 384, 36), Ensure(270) \o Section \o HealthImpact \o Section \o NetworkLoad \o Section, Under(712, 712, 34))
  BY <1>11, <1>6, MoreParts
<1>13. CarriesAll(stage, At(384, 384, 36), Ensure(270) \o Section \o HealthImpact \o Section \o NetworkLoad \o Section \o TriageBoard, At(200, 200, 32))
  BY <1>12, <1>7, MoreParts
<1> QED BY <1>13 DEF Causes

LEMMA CoursesCarry ==
    ASSUME NEW stage
    PROVE  CarriesAll(stage, At(36, 1280, 36), Courses, At(-28, 1516, 48))
<1>1. CarriesAll(stage, At(36, 1280, 36), Ensure(288), At(576, 1516, 36))
  BY Numbers, BlankIs, Placing DEF Goes, Pt
<1>2. CarriesAll(stage, At(576, 1516, 36), Section, Under(528, 1468, 34))
  BY Numbers, SectionIs, PlacingHeading DEF Goes
<1>3. CarriesAll(stage, Under(528, 1468, 34), Charts(240), At(240, 1180, 48))
  BY Numbers, ChartsAre, PlacingBelow DEF Goes, Stays, Pt
<1>4. CarriesAll(stage, At(240, 1180, 48), Charts(130), At(-28, 1516, 48))
  BY Numbers, ChartsAre, Placing DEF Goes, Pt
<1>5. CarriesAll(stage, At(36, 1280, 36), Ensure(288) \o Section, Under(528, 1468, 34))
  BY <1>1, <1>2, MoreParts
<1>6. CarriesAll(stage, Under(528, 1468, 34), Charts(240) \o Charts(130), At(-28, 1516, 48))
  BY <1>3, <1>4, MoreParts
<1>7. CarriesAll(stage, At(36, 1280, 36), Ensure(288) \o Section \o (Charts(240) \o Charts(130)), At(-28, 1516, 48))
  BY <1>5, <1>6, MoreParts
<1> QED BY <1>7 DEF Courses, Trends

(* However many findings there are, as many rows as fit; what is left of the page
   is then either nearly nothing or more than half of it. *)
LEMMA FindingsCarry ==
    ASSUME NEW stage, NEW n \in Nat
    PROVE  \E room \in Int :
             /\ room <= 56 \/ room >= 812
             /\ room >= 28 /\ room <= 1420
             /\ CarriesAll(stage, Under(152, 152, 34), Findings(n), At(room, room, 8))
<1> DEFINE left(i) == IF i = 1 THEN 56 ELSE 1516 - 96 * (i - 1)
           f == [i \in 1..Shown + 1 |-> IF i = 1 THEN Under(152, 152, 34)
                                        ELSE At(left(i - 1), left(i - 1), 8)]
<1>1. \A i \in 1..Shown : FindingRow \in Parts /\ Carries(stage, f[i], FindingRow, f[i + 1])
  <2> SUFFICES ASSUME NEW i \in 1..8 PROVE CarriesAll(stage, f[i], <<FindingRow>>, f[i + 1])
    BY CarriedOnce DEF Shown
  <2>1. f[i + 1] = At(left(i), left(i), 8)
    BY DEF Shown
  <2>2. CASE i = 1
    <3>1. f[i] = Under(152, 152, 34) /\ left(i) = 56
      BY <2>2 DEF Shown
    <3>2. CarriesAll(stage, Under(152, 152, 34), <<FindingRow>>, At(56, 56, 8))
      BY Numbers, FindingRowIs, PlacingBelow DEF Goes, Stays
    <3> QED BY <2>1, <3>1, <3>2
  <2>3. CASE i = 2
    <3>1. f[i] = At(56, 56, 8) /\ left(i) = 1420
      BY <2>3 DEF Shown
    <3>2. CarriesAll(stage, At(56, 56, 8), <<FindingRow>>, At(1420, 1420, 8))
      BY Numbers, FindingRowIs, Placing DEF Goes
    <3> QED BY <2>1, <3>1, <3>2
  <2>4. CASE i > 2
    <3> DEFINE room == left(i - 1)
    <3>1. room \in Int /\ room >= 940 /\ room <= 1420 /\ left(i) = room - 96 /\ f[i] = At(room, room, 8)
      BY <2>4 DEF Shown
    <3> HIDE DEF room, f, left
    <3>2. Goes(108, -88, -8, 96, room, room, 8, room - 96, room - 96, 8)
      BY <3>1, Numbers DEF Goes
    <3>3. CarriesAll(stage, At(room, room, 8), <<FindingRow>>, At(room - 96, room - 96, 8))
      BY <3>2, FindingRowIs, Placing
    <3> QED BY <2>1, <3>1, <3>3
  <2> QED BY <2>2, <2>3, <2>4
<1>2. f \in [1..Shown + 1 -> States] /\ f[1] = Under(152, 152, 34)
      /\ \A i \in 1..Shown : f[i + 1] = At(left(i), left(i), 8)
  <2>1. \A i \in 1..Shown + 1 : left(i - 1) \in Int
    BY DEF Shown
  <2> HIDE DEF left
  <2> QED BY <2>1 DEF At, Under, States, Shown
<1>3. \A i \in 1..Shown : /\ left(i) \in Int /\ (left(i) <= 56 \/ left(i) >= 812)
                          /\ left(i) >= 28 /\ left(i) <= 1420
  BY DEF Shown
<1>4. ASSUME NEW k \in 1..Shown
      PROVE  CarriesAll(stage, Under(152, 152, 34), Times(k, FindingRow), At(left(k), left(k), 8))
  <2> DEFINE g == [i \in 1..k + 1 |-> f[i]]
  <2> HIDE DEF f, left
  <2>1. /\ k \in Nat /\ \A i \in 1..k + 1 : i \in 1..Shown + 1
        /\ \A i \in 1..k : i \in 1..Shown /\ i \in 1..k + 1 /\ i + 1 \in 1..k + 1
        /\ 1 \in 1..k + 1 /\ k + 1 \in 1..k + 1 /\ k \in 1..k /\ FindingRow \in Parts
    BY <1>1 DEF Shown
  <2>2. g \in [1..k + 1 -> States] /\ \A i \in 1..k : Carries(stage, g[i], FindingRow, g[i + 1])
    BY <1>1, <1>2, <2>1
  <2>3. CarriesAll(stage, g[1], Times(k, FindingRow), g[k + 1])
    <3> HIDE DEF g
    <3> QED BY <2>1, <2>2, Repeated, Zenon
  <2>4. g[1] = Under(152, 152, 34) /\ g[k + 1] = At(left(k), left(k), 8)
    BY <1>2, <2>1
  <2> QED BY <2>3, <2>4
<1>5. CASE n = 0
  <2>1. CarriesAll(stage, Under(152, 152, 34), Callout, At(28, 28, 8))
    BY Numbers, CalloutIs, PlacingBelow DEF Goes, Stays
  <2> QED BY <1>5, <2>1 DEF Findings
<1>6. CASE n > 0 /\ n <= Shown
  <2>1. n \in 1..Shown /\ Findings(n) = Times(n, FindingRow)
    BY <1>6 DEF Findings, Shown
  <2> HIDE DEF left
  <2> QED BY <1>3, <1>4, <2>1
<1>7. CASE n > Shown
  <2>1. CarriesAll(stage, Under(152, 152, 34), Times(Shown, FindingRow), At(844, 844, 8))
    <3>1. Shown \in 1..Shown /\ left(Shown) = 844
      BY DEF Shown
    <3> HIDE DEF left
    <3> QED BY <1>4, <3>1
  <2>2. CarriesAll(stage, At(844, 844, 8), <<Part(0, {Text(0, 9)}, 16)>>, At(812, 812, 8))
    BY Numbers, MoreFindingsIs, Placing DEF Goes
  <2>3. Findings(n) = Times(Shown, FindingRow) \o <<Part(0, {Text(0, 9)}, 16)>>
    BY <1>7 DEF Findings, Shown
  <2>4. CarriesAll(stage, Under(152, 152, 34), Findings(n), At(812, 812, 8))
    BY <2>1, <2>2, <2>3, MoreParts
  <2> QED BY <2>4
<1> QED BY <1>5, <1>6, <1>7 DEF Shown

LEMMA ProblemsCarry ==
    ASSUME NEW stage, NEW n \in Nat
    PROVE  CarriesAll(stage, At(200, 200, 32), Problems(n), At(36, 1280, 36))
<1>1. PICK room \in Int : /\ room <= 56 \/ room >= 812
                          /\ room >= 28 /\ room <= 1420
                          /\ CarriesAll(stage, Under(152, 152, 34), Findings(n), At(room, room, 8))
  BY FindingsCarry
<1>2. CarriesAll(stage, At(200, 200, 32), Section, Under(152, 152, 34))
  BY Numbers, SectionIs, PlacingHeading DEF Goes
<1>3. CarriesAll(stage, At(room, room, 8), Down(10), At(room - 20, room - 20, 16))
  <2>1. Goes(0, 2000, -2000, 20, room, room, 8, room - 20, room - 20, 16)
    BY <1>1, Numbers DEF Goes
  <2>2. Single(Down(10), 0, 2000, -2000, 20)
    BY BlankIs DEF Pt
  <2> QED BY <2>1, <2>2, Placing
<1>4. CarriesAll(stage, At(room - 20, room - 20, 16), Ensure(130), At(272, 1516, 16))
  <2>1. Goes(260, 2000, -2000, 0, room - 20, room - 20, 16, 272, 1516, 16)
    BY <1>1, Numbers DEF Goes
  <2>2. Single(Ensure(130), 260, 2000, -2000, 0)
    BY BlankIs DEF Pt
  <2> QED BY <2>1, <2>2, Placing
<1>5. CarriesAll(stage, At(272, 1516, 16), Section, Under(224, 1468, 34))
  BY Numbers, SectionIs, PlacingHeading DEF Goes
<1>6. CarriesAll(stage, Under(224, 1468, 34), FaultMap, At(36, 1280, 36))
  BY Numbers, FaultMapIs, PlacingBelow DEF Goes, Stays
<1>7. CarriesAll(stage, At(200, 200, 32), Section \o Findings(n), At(room, room, 8))
  BY <1>1, <1>2, MoreParts
<1>8. CarriesAll(stage, At(200, 200, 32), Section \o Findings(n) \o Down(10), At(room - 20, room - 20, 16))
  BY <1>3, <1>7, MoreParts
<1>9. CarriesAll(stage, At(200, 200, 32), Section \o Findings(n) \o Down(10) \o Ensure(130), At(272, 1516, 16))
  BY <1>4, <1>8, MoreParts
<1>10. CarriesAll(stage, At(200, 200, 32), Section \o Findings(n) \o Down(10) \o Ensure(130) \o Section,
                  Under(224, 1468, 34))
  BY <1>5, <1>9, MoreParts
<1>11. CarriesAll(stage, At(200, 200, 32), Section \o Findings(n) \o Down(10) \o Ensure(130) \o Section \o FaultMap,
                  At(36, 1280, 36))
  BY <1>6, <1>10, MoreParts
<1> QED BY <1>11 DEF Problems

LEMMA ReportCarries ==
    ASSUME NEW stage, NEW n \in Nat
    PROVE  CarriesAll(stage, At(1516, 1516, 84), Overview \o Causes \o Problems(n) \o Courses,
                      At(-28, 1516, 48))
<1>1. CarriesAll(stage, At(1516, 1516, 84), Overview \o Causes, At(200, 200, 32))
  BY OverviewCarries, CausesCarry, MoreParts
<1>2. CarriesAll(stage, At(1516, 1516, 84), Overview \o Causes \o Problems(n), At(36, 1280, 36))
  BY <1>1, ProblemsCarry, MoreParts
<1>3. CarriesAll(stage, At(36, 1280, 36), Courses, At(-28, 1516, 48))
  BY CoursesCarry
<1> QED BY <1>2, <1>3, MoreParts

(* A table of any length, with any of its rows on two lines, is set below what is
   ensured for it or on a page of its own. *)
LEMMA TableCarries ==
    ASSUME NEW stage, NEW lines \in 0..TableRows, NEW wrapped \in 0..lines, NEW room \in Int, room <= 0
    PROVE  CarriesAll(stage, At(36, 1516, 20), Table(lines, wrapped), At(room, 1516, 16))
<1>1. lines \in Nat /\ wrapped \in Nat /\ lines <= 12 /\ wrapped <= lines
  BY DEF TableRows
<1>2. CASE lines = 0
  <2> DEFINE marks == {Text(0, 9)}
  <2>1. Text(0, 9) = [bottom |-> 0, top |-> 13]
    BY DEF Text, Pt
  <2>2. Measured(0, marks, 0, 13, 36) /\ 0 = Pt(0) /\ 36 = Pt(18)
    BY <2>1 DEF Measured, Pt
  <2> HIDE DEF marks
  <2>3. Single(<<Part(0, marks, 18)>>, 0, 0, 13, 36)
    BY <2>2, SingleIs
  <2>4. Goes(0, 0, 13, 36, 36, 1516, 20, room, 1516, 16)
    BY Numbers DEF Goes
  <2>5. Table(lines, wrapped) = <<Part(0, marks, 18)>>
    BY <1>2 DEF Table, marks
  <2> QED BY <2>3, <2>4, <2>5, Placing
<1>3. CASE lines # 0
  <2> DEFINE body == Pt(20 * lines) + 17 * wrapped
             low == -(Pt(20) + body)
             marks == {[bottom |-> low, top |-> 0]}
             need == Pt(30) + body
             part == [need |-> need, marks |-> marks, down |-> need, heads |-> FALSE]
  <2>1. /\ low \in Int /\ need \in Nat /\ low + need = 20 /\ need <= 1516 /\ need > 36 /\ low <= 0
        /\ low = 0 - (40 + body) /\ body \in Nat
    BY <1>1, <1>3 DEF Pt
  <2>2. Table(lines, wrapped) = <<part>>
    BY <1>3 DEF Table
  <2> HIDE DEF body, low, need
  <2>3. Measured(need, marks, low, 0, need)
    BY <2>1 DEF Measured
  <2> HIDE DEF marks
  <2>4. Is(part, need, low, 0, need) /\ ~part.heads
    <3>1. marks \in SUBSET [bottom : Int, top : Int]
      BY <2>3 DEF Measured
    <3>2. part \in Parts /\ part.need = need /\ part.marks = marks /\ part.down = need /\ ~part.heads
      BY <2>1, <3>1 DEF Parts
    <3> HIDE DEF part
    <3> QED BY <2>3, <3>2 DEF Is
  <2> HIDE DEF part
  <2>5. Single(<<part>>, need, low, 0, need)
    BY <2>4 DEF Single
  <2>6. Goes(need, low, 0, need, 36, 1516, 20, room, 1516, 16)
    BY <2>1, Numbers DEF Goes
  <2> QED BY <2>2, <2>5, <2>6, Placing
<1> QED BY <1>2, <1>3

LEMMA AlertTableCarries ==
    ASSUME NEW stage, NEW n \in Nat, NEW wrapped \in 0..Least(n, TableRows)
    PROVE  CarriesAll(stage, At(236, 1252, 32), AlertTable(n, wrapped), At(-28, 1516, 16))
<1> DEFINE lines == Least(n, TableRows)
<1>1. lines \in 0..TableRows /\ lines <= n /\ (n > 0 => lines > 0) /\ lines \in Nat /\ lines <= 12
  BY DEF Least, TableRows
<1> HIDE DEF lines
<1>2. CASE n = 0
  <2>1. CarriesAll(stage, At(236, 1252, 32), Callout, At(-28, 1516, 16))
    BY Numbers, CalloutIs, Placing DEF Goes
  <2> QED BY <1>2, <2>1 DEF AlertTable
<1>3. CASE n > 0
  <2> DEFINE block == TableBlockHeight(lines)
             need == Pt(block)
  <2>1. block \in Nat /\ need >= 108 /\ need <= 548 /\ need \in Nat
    BY <1>1, <1>3 DEF TableBlockHeight, Pt
  <2>2. CarriesAll(stage, At(236, 1252, 32), Ensure(block), At(36, 1516, 20))
    <3>1. Single(Ensure(block), need, 2000, -2000, 0)
      <4> HIDE DEF block
      <4> QED BY <2>1, BlankIs
    <3> HIDE DEF block, need
    <3>2. Goes(need, 2000, -2000, 0, 236, 1252, 32, 36, 1516, 20)
      BY <2>1, Numbers DEF Goes
    <3> QED BY <3>1, <3>2, Placing
  <2> HIDE DEF block
  <2>3. ASSUME NEW room \in Int, room <= 0
        PROVE  CarriesAll(stage, At(236, 1252, 32), Ensure(block) \o Table(lines, wrapped), At(room, 1516, 16))
    <3>1. CarriesAll(stage, At(36, 1516, 20), Table(lines, wrapped), At(room, 1516, 16))
      BY <1>1, <2>3, TableCarries DEF lines
    <3> QED BY <2>2, <3>1, MoreParts
  <2>4. CASE n > lines
    <3>1. AlertTable(n, wrapped) = Ensure(block) \o Table(lines, wrapped) \o <<Part(0, {Text(0, 8)}, 14)>>
      BY <1>3, <2>4 DEF AlertTable, block, lines
    <3>2. CarriesAll(stage, At(0, 1516, 16), <<Part(0, {Text(0, 8)}, 14)>>, At(-28, 1516, 16))
      BY Numbers, MoreAlertsIs, Placing DEF Goes
    <3> QED BY <2>3, <3>1, <3>2, MoreParts
  <2>5. CASE ~(n > lines)
    <3>1. AlertTable(n, wrapped) = Ensure(block) \o Table(lines, wrapped) \o <<>>
      BY <1>3, <2>5 DEF AlertTable, block, lines
    <3>2. CarriesAll(stage, At(236, 1252, 32), Ensure(block) \o Table(lines, wrapped), At(-28, 1516, 16))
      BY <2>3
    <3>3. Ensure(block) \o Table(lines, wrapped) \in Seq(Parts)
      BY <3>2 DEF CarriesAll
    <3> HIDE DEF block
    <3>4. \A s \in Seq(Parts) : s \o <<>> = s
      OBVIOUS
    <3> QED BY <3>1, <3>2, <3>3, <3>4
  <2> QED BY <2>4, <2>5
<1> QED BY <1>2, <1>3

LEMMA AlertsCarry ==
    ASSUME NEW stage, NEW n \in Nat, NEW wrapped \in 0..Least(n, TableRows)
    PROVE  CarriesAll(stage, At(-28, 1516, 48), Alerts(n, wrapped), At(-52, 1516, 40))
<1>1. CarriesAll(stage, At(-28, 1516, 48), Ensure(250), At(500, 1516, 48))
  BY Numbers, BlankIs, Placing DEF Goes, Pt
<1>2. CarriesAll(stage, At(500, 1516, 48), Section, Under(452, 1468, 34))
  BY Numbers, SectionIs, PlacingHeading DEF Goes
<1>3. CarriesAll(stage, Under(452, 1468, 34), AlertLifecycle, At(236, 1252, 32))
  BY Numbers, AlertLifecycleIs, PlacingBelow DEF Goes, Stays
<1>4. CarriesAll(stage, At(236, 1252, 32), AlertTable(n, wrapped), At(-28, 1516, 16))
  BY AlertTableCarries
<1>5. CarriesAll(stage, At(-28, 1516, 16), Down(12), At(-52, 1516, 40))
  BY Numbers, BlankIs, Placing DEF Goes, Pt
<1>6. CarriesAll(stage, At(-28, 1516, 48), Ensure(250) \o Section, Under(452, 1468, 34))
  BY <1>1, <1>2, MoreParts
<1>7. CarriesAll(stage, At(-28, 1516, 48), Ensure(250) \o Section \o AlertLifecycle, At(236, 1252, 32))
  BY <1>3, <1>6, MoreParts
<1>8. CarriesAll(stage, At(-28, 1516, 48), Ensure(250) \o Section \o AlertLifecycle \o AlertTable(n, wrapped),
                 At(-28, 1516, 16))
  BY <1>4, <1>7, MoreParts
<1>9. CarriesAll(stage, At(-28, 1516, 48),
                 Ensure(250) \o Section \o AlertLifecycle \o AlertTable(n, wrapped) \o Down(12), At(-52, 1516, 40))
  BY <1>5, <1>8, MoreParts
<1> QED BY <1>9 DEF Alerts

(* The titles of the last section, of which a heading may be parted. *)
LEMMA SpeedTitleCarries ==
    ASSUME NEW lines \in 0..SpeedRows, NEW parts,
           parts = <<Heading(44 + TableBlockHeight(lines), {Text(0, 11), Text(14, 8), Text(25, 8)}, 39)>>
    PROVE  CarriesAll("end", At(272, 1516, 34), parts, At(36, 1516, 20))
<1> DEFINE marks == {Text(0, 11), Text(14, 8), Text(25, 8)}
           points == 44 + TableBlockHeight(lines)
           need == Pt(points)
<1>1. points \in Nat /\ need \in Nat /\ need >= 136 /\ need <= 396 /\ 78 = Pt(39)
  BY DEF TableBlockHeight, SpeedRows, Pt
<1>2. /\ Text(0, 11) = [bottom |-> 0, top |-> 16] /\ Text(14, 8) = [bottom |-> -28, top |-> -16]
      /\ Text(25, 8) = [bottom |-> -50, top |-> -38]
  BY DEF Text, Pt
<1>3. Measured(need, marks, -50, 16, 78)
  <2> HIDE DEF need
  <2> QED BY <1>1, <1>2 DEF Measured
<1> HIDE DEF marks, points
<1>4. SingleHeading(<<Heading(points, marks, 39)>>, need, -50, 16, 78)
  BY <1>1, <1>3, SingleHeadingIs
<1> HIDE DEF need
<1>5. Goes(need, -50, 16, 78, 272, 1516, 34, 36, 1516, 20)
  BY <1>1, Numbers DEF Goes
<1> QED BY <1>4, <1>5, PlacingAtEnd DEF points, marks

LEMMA TitleCarries ==
    ASSUME NEW lines \in 0..TableRows, NEW parts,
           parts = <<Heading(22 + TableBlockHeight(lines), {Text(0, 11)}, 14)>>
    PROVE  CarriesAll("end", At(0, 1516, 16), parts, At(36, 1516, 20))
<1> DEFINE marks == {Text(0, 11)}
           points == 22 + TableBlockHeight(lines)
           need == Pt(points)
<1>1. points \in Nat /\ need \in Nat /\ need >= 92 /\ need <= 592 /\ 28 = Pt(14)
  BY DEF TableBlockHeight, TableRows, Pt
<1>2. Text(0, 11) = [bottom |-> 0, top |-> 16]
  BY DEF Text, Pt
<1>3. Measured(need, marks, 0, 16, 28)
  <2> HIDE DEF need
  <2> QED BY <1>1, <1>2 DEF Measured
<1> HIDE DEF marks, points
<1>4. SingleHeading(<<Heading(points, marks, 14)>>, need, 0, 16, 28)
  BY <1>1, <1>3, SingleHeadingIs
<1> HIDE DEF need
<1>5. Goes(need, 0, 16, 28, 0, 1516, 16, 36, 1516, 20)
  BY <1>1, Numbers DEF Goes
<1> QED BY <1>4, <1>5, PlacingAtEnd DEF points, marks

LEMMA DetailsCarry ==
    ASSUME NEW s \in Nat, NEW n \in Nat, NEW wrapped \in 0..Least(n, TableRows)
    PROVE  CarriesAll("end", At(-52, 1516, 40), Details(s, n, wrapped), At(0, 1516, 16))
<1> DEFINE speed == Least(s, SpeedRows)
           lines == Least(n, TableRows)
           first == <<Heading(44 + TableBlockHeight(speed), {Text(0, 11), Text(14, 8), Text(25, 8)}, 39)>>
           second == <<Heading(22 + TableBlockHeight(lines), {Text(0, 11)}, 14)>>
<1>1. speed \in 0..TableRows /\ speed \in 0..SpeedRows /\ lines \in 0..TableRows /\ 0 \in 0..speed
  BY DEF Least, TableRows, SpeedRows
<1>2. CarriesAll("end", At(-52, 1516, 40), Ensure(160), At(320, 1516, 40))
  BY Numbers, BlankIs, Placing DEF Goes, Pt
<1>3. CarriesAll("end", At(320, 1516, 40), Section, At(272, 1516, 34))
  BY Numbers, SectionIs, PlacingAtEnd DEF Goes
<1>4. CarriesAll("end", At(272, 1516, 34), first, At(36, 1516, 20))
  <2>1. first = <<Heading(44 + TableBlockHeight(speed), {Text(0, 11), Text(14, 8), Text(25, 8)}, 39)>>
    OBVIOUS
  <2> HIDE DEF speed, first
  <2> QED BY <1>1, <2>1, SpeedTitleCarries
<1>5. CarriesAll("end", At(36, 1516, 20), Table(speed, 0), At(0, 1516, 16))
  <2> HIDE DEF speed
  <2> QED BY <1>1, TableCarries
<1>6. CarriesAll("end", At(0, 1516, 16), second, At(36, 1516, 20))
  <2>1. second = <<Heading(22 + TableBlockHeight(lines), {Text(0, 11)}, 14)>>
    OBVIOUS
  <2> HIDE DEF lines, second
  <2> QED BY <1>1, <2>1, TitleCarries
<1>7. CarriesAll("end", At(36, 1516, 20), Table(lines, wrapped), At(0, 1516, 16))
  BY <1>1, TableCarries
<1>8. Details(s, n, wrapped) = Ensure(160) \o Section \o (first \o Table(speed, 0) \o second \o Table(lines, wrapped))
  BY DEF Details, CheckTables
<1> HIDE DEF speed, lines, first, second
<1>9. CarriesAll("end", At(-52, 1516, 40), Ensure(160) \o Section, At(272, 1516, 34))
  BY <1>2, <1>3, MoreParts
<1>10. CarriesAll("end", At(272, 1516, 34), first \o Table(speed, 0), At(0, 1516, 16))
  BY <1>4, <1>5, MoreParts
<1>11. CarriesAll("end", At(272, 1516, 34), first \o Table(speed, 0) \o second, At(36, 1516, 20))
  BY <1>6, <1>10, MoreParts
<1>12. CarriesAll("end", At(272, 1516, 34), first \o Table(speed, 0) \o second \o Table(lines, wrapped), At(0, 1516, 16))
  BY <1>7, <1>11, MoreParts
<1> QED BY <1>8, <1>9, <1>12, MoreParts

(* Between two parts, what is known of the cursor carries all that is left of the
   stage to where the next one begins. *)
OnItsWay ==
    \E a, b \in States :
       /\ Known(doc.stage, a, doc.y, doc.free, doc.heading)
       /\ CarriesAll(doc.stage, a, doc.todo, b)
       /\ doc.stage = "alerts" => b = At(-28, 1516, 48)
       /\ doc.stage = "details" => b = At(-52, 1516, 40)

LayoutInvariant == LayoutType /\ NothingOverlaps /\ HeadingKept /\ OnItsWay

LEMMA Places ==
    /\ At(1516, 1516, 84) \in States /\ At(-28, 1516, 48) \in States /\ At(-52, 1516, 40) \in States
    /\ At(0, 1516, 16) \in States
    /\ ~At(-28, 1516, 48).heads /\ ~At(-52, 1516, 40).heads
BY DEF At, States

LEMMA LayoutInit == LInit => LayoutInvariant
<1> SUFFICES ASSUME LInit PROVE LayoutInvariant
  OBVIOUS
<1>1. PICK n \in 0..MaxFindings :
        doc = [stage |-> "alerts", findings |-> n,
               todo |-> Overview \o Causes \o Problems(n) \o Courses,
               page |-> 1, y |-> Fresh.y, free |-> Fresh.free, heading |-> FALSE,
               last |-> [bottom |-> Sheet, top |-> Sheet, free |-> Sheet, parted |-> FALSE]]
  BY DEF LInit
<1> DEFINE todo == Overview \o Causes \o Problems(n) \o Courses
<1>2. n \in Nat
  BY LayoutConstants
<1>3. CarriesAll("alerts", At(1516, 1516, 84), todo, At(-28, 1516, 48))
  BY <1>2, ReportCarries
<1>4. todo \in Seq(Parts)
  BY <1>3 DEF CarriesAll
<1> HIDE DEF todo
<1>5. Fresh.y = 1600 /\ Fresh.free = 1684 /\ Sheet = 1684
  BY DEF Fresh, TopOfPage, Sheet, Pt
<1>6. doc = [stage |-> "alerts", findings |-> n, todo |-> todo,
             page |-> 1, y |-> 1600, free |-> 1684, heading |-> FALSE,
             last |-> [bottom |-> 1684, top |-> 1684, free |-> 1684, parted |-> FALSE]]
  BY <1>1, <1>5 DEF todo
<1>7. LayoutType
  BY <1>2, <1>4, <1>6 DEF LayoutType
<1>8. /\ doc.stage = "alerts" /\ doc.todo = todo /\ doc.y = 1600 /\ doc.free = 1684 /\ ~doc.heading
      /\ doc.last.top = 1684 /\ doc.last.bottom = 1684 /\ doc.last.free = 1684 /\ ~doc.last.parted
  BY <1>6
<1>9. NothingOverlaps /\ HeadingKept
  BY <1>8, Numbers DEF NothingOverlaps, HeadingKept
<1>10. Known(doc.stage, At(1516, 1516, 84), doc.y, doc.free, doc.heading)
  BY <1>8, Numbers DEF Known, At
<1>11. OnItsWay
  BY <1>3, <1>8, <1>10, Places DEF OnItsWay
<1> QED BY <1>7, <1>9, <1>11 DEF LayoutInvariant

(* When all of a stage is drawn, the next may begin. *)
LEMMA StageOver ==
    ASSUME LayoutInvariant, doc.todo = <<>>, doc.stage # "end", NEW stage, NEW next,
           doc.stage = "alerts" => next = At(-28, 1516, 48), doc.stage = "details" => next = At(-52, 1516, 40)
    PROVE  Known(stage, next, doc.y, doc.free, doc.heading) /\ next \in States
<1>1. PICK a \in States, b \in States :
        /\ Known(doc.stage, a, doc.y, doc.free, doc.heading)
        /\ CarriesAll(doc.stage, a, doc.todo, b)
        /\ doc.stage = "alerts" => b = At(-28, 1516, 48)
        /\ doc.stage = "details" => b = At(-52, 1516, 40)
  BY DEF LayoutInvariant, OnItsWay
<1>2. doc.stage = "alerts" \/ doc.stage = "details"
  BY DEF LayoutInvariant, LayoutType
<1>3. a = b
  <2>1. Len(doc.todo) = 0 /\ 0 + 1 = 1
    OBVIOUS
  <2> QED BY <1>1, <2>1 DEF CarriesAll
<1>4. b = next /\ next \in States /\ ~next.heads
  BY <1>1, <1>2, Places
<1>5. ~doc.heading
  BY <1>1, <1>3, <1>4 DEF Known
<1> QED BY <1>1, <1>3, <1>4, <1>5 DEF Known

LEMMA LayoutStep == LayoutInvariant /\ [LNext]_doc => LayoutInvariant'
<1> SUFFICES ASSUME LayoutInvariant, [LNext]_doc PROVE LayoutInvariant'
  OBVIOUS
<1> USE DEF LayoutInvariant
<1>1. CASE Draw
  <2>1. PICK a \in States, b \in States :
          /\ Known(doc.stage, a, doc.y, doc.free, doc.heading)
          /\ CarriesAll(doc.stage, a, doc.todo, b)
          /\ doc.stage = "alerts" => b = At(-28, 1516, 48)
          /\ doc.stage = "details" => b = At(-52, 1516, 40)
    BY DEF OnItsWay
  <2>2. doc.todo # <<>>
    BY <1>1 DEF Draw
  <2>3. PICK c : Carries(doc.stage, a, Head(doc.todo), c) /\ CarriesAll(doc.stage, c, Tail(doc.todo), b)
    BY <2>1, <2>2, FirstPart
  <2>4. Head(doc.todo) \in Parts /\ Tail(doc.todo) \in Seq(Parts)
    BY <2>1, <2>2, FirstPart
  <2>5. c \in States
    <3>1. Tail(doc.todo) \in Seq(Parts) /\ 1 \in 1..Len(Tail(doc.todo)) + 1
      BY <2>4
    <3> QED BY <2>3, <3>1 DEF CarriesAll
  <2>6. /\ NothingOverlaps' /\ HeadingKept' /\ LayoutType'
        /\ doc'.todo = Tail(doc.todo) /\ doc'.stage = doc.stage
        /\ Known(doc.stage, c, doc'.y, doc'.free, doc'.heading)
    BY <1>1, <2>1, <2>3, <2>4, <2>5, DrawingCarries
  <2>7. OnItsWay'
    BY <2>1, <2>3, <2>5, <2>6 DEF OnItsWay
  <2> QED BY <2>6, <2>7
<1>2. CASE ListAlerts
  <2>1. PICK n \in 0..(IF doc.findings = 0 THEN 0 ELSE MaxAlerts) : \E w \in Wrapped(n) :
          doc' = [doc EXCEPT !.stage = "details", !.todo = Alerts(n, w)]
    BY <1>2, Zenon DEF ListAlerts
  <2>2. PICK w \in Wrapped(n) : doc' = [doc EXCEPT !.stage = "details", !.todo = Alerts(n, w)]
    BY <2>1, Zenon
  <2>3. n \in Nat /\ w \in 0..Least(n, TableRows)
    BY LayoutConstants DEF Wrapped
  <2>4. CarriesAll("details", At(-28, 1516, 48), Alerts(n, w), At(-52, 1516, 40))
    BY <2>3, AlertsCarry
  <2>5. Alerts(n, w) \in Seq(Parts)
    BY <2>4 DEF CarriesAll
  <2> DEFINE todo == Alerts(n, w)
  <2> HIDE DEF todo
  <2>6. /\ LayoutType' /\ doc'.stage = "details" /\ doc'.todo = todo /\ doc'.y = doc.y /\ doc'.free = doc.free
        /\ doc'.heading = doc.heading /\ doc'.last = doc.last
    BY <2>2, <2>5 DEF LayoutType, todo
  <2>7. doc.todo = <<>> /\ doc.stage = "alerts"
    BY <1>2 DEF ListAlerts
  <2>8. NothingOverlaps' /\ HeadingKept'
    BY <2>6, <2>7 DEF NothingOverlaps, HeadingKept
  <2>9. Known("details", At(-28, 1516, 48), doc.y, doc.free, doc.heading) /\ At(-28, 1516, 48) \in States
    BY <2>7, StageOver
  <2>10. OnItsWay'
    BY <2>4, <2>6, <2>9, Places DEF OnItsWay, todo
  <2> QED BY <2>6, <2>8, <2>10
<1>3. CASE ListDetails
  <2>1. PICK s \in 0..MaxSpeedtests, w \in Wrapped(doc.findings) :
          doc' = [doc EXCEPT !.stage = "end", !.todo = Details(s, doc.findings, w)]
    BY <1>3, Zenon DEF ListDetails
  <2>2. s \in Nat /\ doc.findings \in Nat /\ w \in 0..Least(doc.findings, TableRows)
    BY LayoutConstants DEF LayoutType, Wrapped
  <2>3. CarriesAll("end", At(-52, 1516, 40), Details(s, doc.findings, w), At(0, 1516, 16))
    BY <2>2, DetailsCarry
  <2>4. Details(s, doc.findings, w) \in Seq(Parts)
    BY <2>3 DEF CarriesAll
  <2> DEFINE todo == Details(s, doc.findings, w)
  <2> HIDE DEF todo
  <2>5. /\ LayoutType' /\ doc'.stage = "end" /\ doc'.todo = todo /\ doc'.y = doc.y /\ doc'.free = doc.free
        /\ doc'.heading = doc.heading /\ doc'.last = doc.last
    BY <2>1, <2>4 DEF LayoutType, todo
  <2>6. doc.todo = <<>> /\ doc.stage = "details"
    BY <1>3 DEF ListDetails
  <2>7. NothingOverlaps' /\ HeadingKept'
    BY <2>5, <2>6 DEF NothingOverlaps, HeadingKept
  <2>8. Known("end", At(-52, 1516, 40), doc.y, doc.free, doc.heading) /\ At(-52, 1516, 40) \in States
    BY <2>6, StageOver
  <2>9. OnItsWay'
    BY <2>3, <2>5, <2>8, Places DEF OnItsWay, todo
  <2> QED BY <2>5, <2>7, <2>9
<1>4. CASE UNCHANGED doc
  BY <1>4 DEF LayoutType, NothingOverlaps, HeadingKept, OnItsWay
<1> QED BY <1>1, <1>2, <1>3, <1>4 DEF LNext

(* No part of a report is drawn over another or into the margin, however many
   findings, alerts and speed tests it has and however their rows are wrapped. *)
THEOREM ReportsAreReadable == LSpec => []NothingOverlaps
<1>1. LayoutInvariant => NothingOverlaps
  BY DEF LayoutInvariant
<1> QED BY <1>1, LayoutInit, LayoutStep, PTL DEF LSpec

(* The heading of a section before the tables is on the page of what it heads. *)
THEOREM HeadingsKeep == LSpec => []HeadingKept
<1>1. LayoutInvariant => HeadingKept
  BY DEF LayoutInvariant
<1> QED BY <1>1, LayoutInit, LayoutStep, PTL DEF LSpec

=============================================================================
