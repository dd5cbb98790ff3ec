---------------------------- MODULE HealthProofs ----------------------------
(***************************************************************************)
(* The health of a site, for all targets, samples, limits and checks.      *)
(*                                                                         *)
(* The status is the worst severity of the verdicts: each stage that adds  *)
(* verdicts keeps the fact, and none needs to know what the others report. *)
(* The scores are bounded by what each rule and each stage takes off; from *)
(* that follows what a full score means.  At last the stages together: all *)
(* that is said of a site (Said), and why it stays bad when the samples    *)
(* get worse.                                                              *)
(*                                                                         *)
(* The invariant all but the first rest on is that a view is one (Typed):  *)
(* of each target a sample or none, and among the rows of Evaluate no      *)
(* lookup and no service that is not among those of the thresholds.        *)
(***************************************************************************)
EXTENDS HealthEvaluation, FiniteSetTheorems, WellFoundedInduction, TLAPS

Sound(h) ==
    /\ h.status = StatusOfVerdicts(h.verdicts)
    /\ \A x \in h.verdicts : x.code = "healthy" => x = AllWell
    /\ AllWell \in h.verdicts => h.verdicts = {AllWell}

(* The fields of a health that the stages set. *)
Fields == {"status", "verdicts", "scores", "overall"}

(* None of the verdicts is praise. *)
NoPraise(S) == \A x \in S : x.code # "healthy"

LEMMA AllWellIsInfo == AllWell.severity = "info" /\ AllWell.code = "healthy"
BY DEF AllWell, Verdict

(* What a stage adds raises the status exactly as far as it must. *)
LEMMA RaisedStatus ==
    ASSUME NEW h, Sound(h), NEW more, NoPraise(more)
    PROVE  /\ Raised(h.status, more) = StatusOfVerdicts(Added(h.verdicts, more))
           /\ NoPraise(Added(h.verdicts, more))
<1>1. \A s \in {"critical", "warning"} : Has(s, Added(h.verdicts, more)) <=> Has(s, h.verdicts) \/ Has(s, more)
  BY AllWellIsInfo DEF Has, Added, Sound
<1>2. NoPraise(Added(h.verdicts, more))
  BY DEF NoPraise, Added
<1> QED BY <1>1, <1>2 DEF Raised, StatusOfVerdicts, Sound

LEMMA StageSound ==
    ASSUME NEW h, Sound(h), NEW more, NoPraise(more), NEW g,
           g.status = Raised(h.status, more), g.verdicts = Added(h.verdicts, more)
    PROVE  Sound(g)
BY RaisedStatus, AllWellIsInfo DEF Sound, NoPraise

LEMMA ReportedProblem ==
    ASSUME NEW severity, NEW category, NEW code, NEW about, NEW condition, code # "healthy"
    PROVE  NoPraise(Reported(Verdict(severity, category, code, about), condition))
BY DEF NoPraise, Reported, Verdict

LEMMA VerdictsProblems ==
    ASSUME NEW grades, NEW category, NEW code, NEW about, code # "healthy"
    PROVE  NoPraise({Verdict(grade, category, code, about) : grade \in grades})
BY DEF NoPraise, Verdict

LEMMA ProblemsJoin == ASSUME NEW S, NEW T, NoPraise(S), NoPraise(T) PROVE NoPraise(S \cup T)
BY DEF NoPraise

LEMMA RulesSound == ASSUME NEW v PROVE Sound(Evaluate(v)) /\ Fields \subseteq DOMAIN Evaluate(v)
<1> DEFINE problems == PingRules(v) \cup DNSRules(v) \cup ServiceRules(v)
<1>1. NoPraise(problems)
  <2>1. NoPraise(PingRules(v)) BY ReportedProblem, ProblemsJoin DEF PingRules
  <2>2. NoPraise(DNSRules(v)) BY ReportedProblem, ProblemsJoin DEF DNSRules
  <2>3. NoPraise(ServiceRules(v))
    BY DEF NoPraise, ServiceRules, Reported, Verdict
  <2> QED BY <2>1, <2>2, <2>3, ProblemsJoin
<1>2. Rules(v) = IF problems = {} THEN {AllWell} ELSE problems
  BY DEF Rules
<1>3. /\ Evaluate(v).status = StatusOfVerdicts(Rules(v))
      /\ Evaluate(v).verdicts = Rules(v)
      /\ Fields \subseteq DOMAIN Evaluate(v)
  BY DEF Evaluate, Fields
<1> HIDE DEF problems
<1> QED BY <1>1, <1>2, <1>3, AllWellIsInfo DEF Sound, NoPraise

LEMMA InventorySound ==
    ASSUME NEW h, Sound(h), Fields \subseteq DOMAIN h, NEW v
    PROVE  Sound(WithInventory(h, v)) /\ Fields \subseteq DOMAIN WithInventory(h, v)
<1> DEFINE more == Reported(Verdict("info", "inventory", "new_device_detected", ""), v.new > 0) \cup
                   Reported(Verdict("warning", "inventory", "known_device_missing", ""), v.missing > 0)
<1>1. NoPraise(more)
  BY ReportedProblem, ProblemsJoin
<1>2. CASE more = {}
  BY <1>2 DEF WithInventory
<1>3. CASE more # {}
  <2>1. /\ WithInventory(h, v).status = Raised(h.status, more)
        /\ WithInventory(h, v).verdicts = Added(h.verdicts, more)
        /\ Fields \subseteq DOMAIN WithInventory(h, v)
    BY <1>3 DEF WithInventory, Fields
  <2> HIDE DEF more
  <2> QED BY <1>1, <2>1, StageSound
<1> QED BY <1>2, <1>3

LEMMA ThresholdProblems ==
    ASSUME NEW v
    PROVE  NoPraise(PingThresholds(v) \cup DNSThresholds(v) \cup HTTPThresholds(v))
<1>1. NoPraise(PingThresholds(v))
  BY DEF NoPraise, PingThresholds, Reported, Verdict
<1>2. NoPraise(DNSThresholds(v))
  BY DEF NoPraise, DNSThresholds, Verdict
<1>3. NoPraise(HTTPThresholds(v))
  BY DEF NoPraise, HTTPThresholds, Verdict
<1> QED BY <1>1, <1>2, <1>3, ProblemsJoin

LEMMA ThresholdsSound ==
    ASSUME NEW h, Sound(h), Fields \subseteq DOMAIN h, NEW v
    PROVE  Sound(WithThresholds(h, v)) /\ Fields \subseteq DOMAIN WithThresholds(h, v)
<1> DEFINE more == PingThresholds(v) \cup DNSThresholds(v) \cup HTTPThresholds(v)
<1>1. CASE more = {}
  BY <1>1 DEF WithThresholds
<1>2. CASE more # {}
  <2>1. /\ WithThresholds(h, v).status = Raised(h.status, more)
        /\ WithThresholds(h, v).verdicts = Added(h.verdicts, more)
        /\ Fields \subseteq DOMAIN WithThresholds(h, v)
    BY <1>2 DEF WithThresholds, Fields
  <2>2. NoPraise(more) BY ThresholdProblems
  <2> HIDE DEF more
  <2> QED BY <2>1, <2>2, StageSound
<1> QED BY <1>1, <1>2

LEMMA AdvancedSound ==
    ASSUME NEW h, Sound(h), Fields \subseteq DOMAIN h, NEW v
    PROVE  Sound(WithAdvanced(h, v))
<1> DEFINE raised == {c \in Checks : v.checks[c] \in {"warning", "critical"}}
           more == {Verdict(v.checks[c], "advanced", "check", c) : c \in raised}
<1>1. CASE more = {}
  BY <1>1 DEF WithAdvanced
<1>2. CASE more # {}
  <2>1. /\ WithAdvanced(h, v).status = Raised(h.status, more)
        /\ WithAdvanced(h, v).verdicts = Added(h.verdicts, more)
    BY <1>2 DEF WithAdvanced, Fields
  <2>2. NoPraise(more) BY DEF NoPraise, Verdict
  <2> HIDE DEF more
  <2> QED BY <2>1, <2>2, StageSound
<1> QED BY <1>1, <1>2

(* Whatever the tables hold, the status shown is the worst severity of the
   verdicts shown, and "healthy" is said only when nothing else is. *)
LEMMA HealthSound == ASSUME NEW v PROVE Sound(Health(v))
BY RulesSound, InventorySound, ThresholdsSound, AdvancedSound DEF Health

(* evaluateHealth returns no status its verdicts do not justify, at any time. *)
THEOREM WorstStatus == HSpec => []StatusIsWorst
<1>1. StatusIsWorst
  BY HealthSound DEF StatusIsWorst, Sound
<1> QED BY <1>1, PTL

-----------------------------------------------------------------------------
(* No stage drops a problem that an earlier one reported. *)
LEMMA ProblemKept ==
    ASSUME NEW h, Fields \subseteq DOMAIN h, NEW v, NEW x, x \in h.verdicts, x.code # "healthy"
    PROVE  /\ x \in WithInventory(h, v).verdicts
           /\ x \in WithThresholds(h, v).verdicts
           /\ x \in WithAdvanced(h, v).verdicts
<1>1. \A more : x \in Added(h.verdicts, more)
  BY DEF Added
<1> QED BY <1>1 DEF WithInventory, WithThresholds, WithAdvanced, Fields

LEMMA RuleReported ==
    ASSUME NEW v, NEW x, x \in Rules(ViewOf(v, v.near)), x.code # "healthy"
    PROVE  x \in Health(v).verdicts
<1> DEFINE one == Evaluate(ViewOf(v, v.near))
           two == WithInventory(one, v)
           three == WithThresholds(two, Later(v))
<1>1. x \in one.verdicts /\ Sound(one) /\ Fields \subseteq DOMAIN one
  BY RulesSound DEF Evaluate
<1>2. x \in two.verdicts /\ Sound(two) /\ Fields \subseteq DOMAIN two
  <2> HIDE DEF one
  <2> QED BY <1>1, ProblemKept, InventorySound
<1>3. x \in three.verdicts /\ Sound(three) /\ Fields \subseteq DOMAIN three
  <2> HIDE DEF two
  <2> QED BY <1>2, ProblemKept, ThresholdsSound
<1>4. x \in WithAdvanced(three, v).verdicts
  <2> HIDE DEF three
  <2> QED BY <1>3, ProblemKept
<1> QED BY <1>4 DEF Health

LEMMA ThresholdReported ==
    ASSUME NEW v, NEW x, x.code # "healthy",
           x \in PingThresholds(Later(v)) \cup DNSThresholds(Later(v))
    PROVE  x \in Health(v).verdicts
<1> DEFINE two == WithInventory(Evaluate(ViewOf(v, v.near)), v)
           three == WithThresholds(two, Later(v))
<1>1. Sound(two) /\ Fields \subseteq DOMAIN two
  BY RulesSound, InventorySound
<1> HIDE DEF two
<1>2. x \in three.verdicts
  BY <1>1 DEF WithThresholds, Added, Fields
<1>3. Fields \subseteq DOMAIN three
  BY <1>1, ThresholdsSound
<1>4. x \in WithAdvanced(three, v).verdicts
  <2> HIDE DEF three
  <2> QED BY <1>2, <1>3, ProblemKept
<1> QED BY <1>4 DEF Health, two

(* A verdict is no less than its severity says. *)
LEMMA VerdictCounts ==
    ASSUME NEW v, NEW x, x \in Health(v).verdicts
    PROVE  /\ x.severity = "critical" => Health(v).status = "critical"
           /\ x.severity = "warning" => Health(v).status # "healthy"
BY HealthSound DEF Sound, StatusOfVerdicts, Has

-----------------------------------------------------------------------------
(* What the samples of a view are. *)
Samples(v) ==
    /\ v.ping \in [Pinged -> PingSamples \cup {Nothing}]
    /\ v.dns \in [Lookups -> DNSSamples \cup {Nothing}]
    /\ v.http \in [Services -> HTTPSamples \cup {Nothing}]

(* A set of naturals has a least member, and one with a bound a greatest. *)
LEMMA LeastExists ==
    ASSUME NEW S, S \subseteq Nat, S # {}
    PROVE  \E n \in S : \A m \in S : n <= m
<1>1. PICK n \in S : \A m \in S : <<m, n>> \notin OpToRel(<, Nat)
  BY NatLessThanWellFounded, WFMin, Zenon
<1>2. \A m \in S : ~(m < n)
  BY <1>1, Zenon DEF OpToRel
<1> QED BY <1>2

LEMMA MostIsGreatest ==
    ASSUME NEW bound \in Nat, NEW S \in SUBSET (0..bound), S # {}
    PROVE  MostOf(S) \in S /\ \A m \in S : m <= MostOf(S)
<1> DEFINE rest == {bound - m : m \in S}
<1>1. rest \in SUBSET Nat
  <2>1. \A m \in S : bound - m \in Nat
    OBVIOUS
  <2> QED BY <2>1
<1>2. PICK n \in rest : \A m \in rest : n <= m
  <2>1. rest # {} OBVIOUS
  <2> HIDE DEF rest
  <2> QED BY <1>1, <2>1, LeastExists
<1>3. PICK k \in S : n = bound - k
  BY <1>2
<1>4. \A m \in S : k >= m
  <2>1. \A m \in S : bound - m \in rest
    OBVIOUS
  <2> QED BY <1>2, <1>3, <2>1
<1>5. \E k1 \in S : \A m \in S : k1 >= m
  BY <1>4
<1>6. MostOf(S) \in S /\ \A m \in S : MostOf(S) >= m
  BY <1>5 DEF MostOf
<1> QED BY <1>6

LEMMA LeastIsLeast ==
    ASSUME NEW S \in SUBSET Nat, S # {}
    PROVE  LeastOf(S) \in S /\ \A m \in S : LeastOf(S) <= m
BY LeastExists DEF LeastOf

(* The greatest loss and the longest request, of which the scores are made. *)
LEMMA LossIsGreatest ==
    ASSUME NEW v, Samples(v)
    PROVE  MaxLoss(v) \in 0..100
<1> DEFINE losses == {v.ping[h].loss : h \in Sampled(Internet(v))} \cup {0}
<1>1. \A h \in Sampled(Internet(v)) : v.ping[h].loss \in 0..100
  BY SampleTypes DEF Samples, Sampled, Internet, Pinged
<1>2. losses \in SUBSET (0..100) /\ losses # {}
  BY <1>1
<1> HIDE DEF losses
<1>3. MostOf(losses) \in 0..100
  BY <1>2, MostIsGreatest
<1> QED BY <1>3 DEF MaxLoss, losses

LEMMA DurationIsGreatest ==
    ASSUME NEW v, Samples(v)
    PROVE  /\ MaxDuration(v) \in Nat
           /\ \A s \in Sampled(v.http) : v.http[s].duration <= MaxDuration(v)
<1> DEFINE durations == {v.http[s].duration : s \in Sampled(v.http)} \cup {0}
<1>1. durations \in SUBSET (0..Timeout) /\ durations # {}
  BY SampleTypes DEF Samples, Sampled
<1>2. MostOf(durations) \in durations /\ \A m \in durations : m <= MostOf(durations)
  BY <1>1, MostIsGreatest, SampleTypes
<1> QED BY <1>1, <1>2, SampleTypes DEF MaxDuration

(* Of a finite number of targets all are up, or fewer. *)
LEMMA UpAmongSampled ==
    ASSUME NEW T, IsFiniteSet(T), NEW samples, DOMAIN samples \subseteq T, NEW keys
    PROVE  LET up == Up(samples) \cap keys
               all == Sampled(samples) \cap keys
           IN  /\ Cardinality(up) \in Nat /\ Cardinality(all) \in Nat
               /\ Cardinality(up) <= Cardinality(all)
               /\ Cardinality(up) = Cardinality(all) => up = all
               /\ Cardinality(all) = 0 <=> all = {}
<1> DEFINE up == Up(samples) \cap keys
           all == Sampled(samples) \cap keys
<1>1. all \in SUBSET T /\ up \in SUBSET all
  BY DEF Up, Sampled
<1>2. IsFiniteSet(all) /\ Cardinality(all) \in Nat /\ (Cardinality(all) = 0 <=> all = {})
  BY <1>1, FS_Subset, FS_CardinalityType, FS_EmptySet
<1> HIDE DEF up, all
<1>3. /\ IsFiniteSet(up) /\ Cardinality(up) \in Nat /\ Cardinality(up) <= Cardinality(all)
      /\ Cardinality(all) = Cardinality(up) => all = up
  BY <1>1, <1>2, FS_Subset, FS_CardinalityType
<1> QED BY <1>2, <1>3 DEF up, all

LEMMA UpOfAll ==
    ASSUME NEW T, IsFiniteSet(T), NEW samples, DOMAIN samples \subseteq T
    PROVE  LET up == Cardinality(Up(samples))
               all == Cardinality(Sampled(samples))
           IN  /\ up \in Nat /\ all \in Nat /\ up <= all
               /\ up = all => Up(samples) = Sampled(samples)
               /\ all = 0 <=> Sampled(samples) = {}
<1>1. Up(samples) \cap T = Up(samples) /\ Sampled(samples) \cap T = Sampled(samples)
  BY DEF Up, Sampled
<1> QED BY <1>1, UpAmongSampled

-----------------------------------------------------------------------------
(* The scores of Evaluate, and what they rule out. *)

LEMMA Clamped == ASSUME NEW n \in Int PROVE Clamp(n) \in 0..100 /\ Clamp(n) <= IF n < 0 THEN 0 ELSE n
BY DEF Clamp, AtMost

(* A part of a whole, in percent. *)
LEMMA Percent ==
    ASSUME NEW part \in Nat, NEW all \in Nat \ {0}, part <= all, NEW full \in {80, 100}
    PROVE  /\ (full * part) \div all \in Int
           /\ (full * part) \div all <= full
           /\ (full * part) \div all >= 85 => 100 * (all - part) <= 15 * all
           /\ (full * part) \div all >= 100 => part = all
<1> DEFINE q == (full * part) \div all
<1>1. q \in Int /\ all * q <= full * part
  OBVIOUS
<1>2. full * part <= full * all
  BY full = 80 \/ full = 100
<1> HIDE DEF q
<1>3. q <= full
  <2>1. SUFFICES ASSUME q >= full + 1 PROVE FALSE
    BY <1>1
  <2>2. all * q >= all * (full + 1)
    BY <1>1, <2>1
  <2>3. all * (full + 1) > full * all
    OBVIOUS
  <2>4. all * q \in Int /\ all * (full + 1) \in Int /\ full * part \in Int /\ full * all \in Int
    BY <1>1
  <2> QED BY <1>1, <1>2, <2>2, <2>3, <2>4
<1>4. ASSUME NEW n \in {85, 100}, q >= n PROVE full = 100 /\ n * all <= 100 * part
  <2>1. full = 100
    BY <1>1, <1>3, <1>4
  <2>2. all * q >= all * n
    BY <1>1, <1>4
  <2>3. all * n = n * all /\ all * q \in Int /\ n * all \in Int /\ 100 * part \in Int
    BY <1>1, <1>4
  <2> QED BY <1>1, <2>1, <2>2, <2>3
<1>5. q >= 85 => 100 * (all - part) <= 15 * all
  BY <1>4
<1>6. q >= 100 => part = all
  BY <1>4
<1> QED BY <1>1, <1>3, <1>5, <1>6 DEF q

LEMMA PingRulesAre ==
    ASSUME NEW v, NEW x, x \in PingRules(v)
    PROVE  LET g == v.ping[Gateway] IN
           \/ /\ x.severity = "critical" /\ x.category = "gateway" /\ x.code = "local_gateway_unstable"
              /\ g # Nothing /\ GatewayUnstable(g)
           \/ /\ x.severity = "warning" /\ x.category = "wan" /\ x.code = "upstream_packet_loss"
              /\ g # Nothing /\ MaxLoss(v) > 3
           \/ /\ x.severity = "critical" /\ x.category = "wan" /\ x.code = "internet_unreachable"
<1> DEFINE g == v.ping[Gateway]
<1>1. \/ x = Verdict("critical", "gateway", "local_gateway_unstable", Gateway)
         /\ g # Nothing /\ GatewayUnstable(g)
      \/ x = Verdict("warning", "wan", "upstream_packet_loss", "") /\ g # Nothing /\ MaxLoss(v) > 3
      \/ x = Verdict("critical", "wan", "internet_unreachable", "")
  BY DEF PingRules, Reported
<1> HIDE DEF g
<1>2. ASSUME x = Verdict("critical", "gateway", "local_gateway_unstable", Gateway)
      PROVE  x.severity = "critical" /\ x.category = "gateway" /\ x.code = "local_gateway_unstable"
  BY <1>2 DEF Verdict
<1>3. ASSUME x = Verdict("warning", "wan", "upstream_packet_loss", "")
      PROVE  x.severity = "warning" /\ x.category = "wan" /\ x.code = "upstream_packet_loss"
  BY <1>3 DEF Verdict
<1>4. ASSUME x = Verdict("critical", "wan", "internet_unreachable", "")
      PROVE  x.severity = "critical" /\ x.category = "wan" /\ x.code = "internet_unreachable"
  BY <1>4 DEF Verdict
<1> QED BY <1>1, <1>2, <1>3, <1>4 DEF g

LEMMA WANScored ==
    ASSUME NEW v, Samples(v)
    PROVE  /\ WANScore(v) \in 0..100
           /\ WANScore(v) >= 85 => \A x \in PingRules(v) : x.category = "gateway"
<1> DEFINE internet == Internet(v)
           up == Cardinality(Up(internet))
           all == Cardinality(Sampled(internet))
           score == IF all = 0 THEN 100
                    ELSE IF up < all THEN Clamp((up * 80) \div all) ELSE Clamp(100 - MaxLoss(v) * 10)
           critical == \E x \in PingRules(v) : x.severity = "critical" /\ x.category = "wan"
<1>1. /\ up \in Nat /\ all \in Nat /\ up <= all
      /\ up = all => Up(internet) = Sampled(internet)
      /\ all = 0 <=> Sampled(internet) = {}
  <2>1. DOMAIN internet \subseteq Hosts BY DEF Internet
  <2> QED BY <2>1, UpOfAll, SampleTypes
<1>2. MaxLoss(v) \in 0..100 /\ (Sampled(internet) = {} => MaxLoss(v) = 0)
  <2>1. ASSUME Sampled(internet) = {} PROVE MaxLoss(v) = 0
    <3>1. {v.ping[h].loss : h \in Sampled(Internet(v))} \cup {0} = {0}
      BY <2>1
    <3>2. MostOf({0}) \in {0}
      BY MostIsGreatest
    <3> QED BY <3>1, <3>2 DEF MaxLoss
  <2> QED BY <2>1, LossIsGreatest
<1>3. WANScore(v) = IF critical THEN AtMost(score, 20) ELSE score
  BY DEF WANScore
<1>4. score \in 0..100 /\ (score >= 85 => MaxLoss(v) <= 1)
  <2> HIDE DEF up, all
  <2>1. CASE all = 0
    BY <1>1, <1>2, <2>1
  <2>2. CASE all # 0 /\ up < all
    <3>1. (80 * up) \div all \in Int /\ (80 * up) \div all <= 80 /\ up * 80 = 80 * up
      BY <1>1, <2>2, Percent
    <3> QED BY <3>1, <2>2, Clamped
  <2>3. CASE all # 0 /\ ~(up < all)
    <3> DEFINE n == 100 - MaxLoss(v) * 10
    <3>1. n \in Int /\ n <= 100 /\ (n >= 85 => MaxLoss(v) <= 1)
      BY <1>2
    <3>2. score = Clamp(n)
      BY <2>3
    <3> HIDE DEF n, score
    <3> QED BY <1>2, <3>1, <3>2, Clamped
  <2> QED BY <2>1, <2>2, <2>3
<1> HIDE DEF score
<1>5. WANScore(v) \in 0..100 /\ (WANScore(v) >= 85 => ~critical /\ MaxLoss(v) <= 1)
  BY <1>3, <1>4 DEF AtMost
<1>6. ASSUME ~critical, MaxLoss(v) <= 1, NEW x \in PingRules(v) PROVE x.category = "gateway"
  BY <1>2, <1>6, PingRulesAre
<1> QED BY <1>5, <1>6

LEMMA GatewayScored ==
    ASSUME NEW v, Samples(v)
    PROVE  /\ GatewayScore(v) \in 0..100
           /\ GatewayScore(v) >= 85 => \A x \in PingRules(v) : x.category # "gateway"
<1> DEFINE g == v.ping[Gateway]
<1>1. g \in PingSamples \cup {Nothing}
  BY DEF Samples, Pinged
<1>2. g \in PingSamples => g.loss \in 0..100 /\ g.latency \in Nat /\ g.up \in BOOLEAN /\ g # Nothing
  BY SampleTypes, HealthConstants
<1>3. /\ GatewayScore(v) \in 0..100
      /\ GatewayScore(v) >= 85 => g = Nothing \/ ~GatewayUnstable(g)
  <2> HIDE DEF g
  <2>1. GatewayScore(v) = IF g = Nothing THEN 100 ELSE IF ~g.up THEN 0
                          ELSE IF g.loss > 0 THEN Clamp(100 - g.loss * 30)
                          ELSE IF g.latency > 20 THEN 70 ELSE 100
    BY DEF GatewayScore, g
  <2>2. ASSUME g # Nothing, g.loss > 0
        PROVE  Clamp(100 - g.loss * 30) \in 0..100 /\ Clamp(100 - g.loss * 30) <= 70
    <3> DEFINE n == 100 - g.loss * 30
    <3>1. n \in Int /\ n <= 70
      BY <1>1, <1>2, <2>2
    <3> HIDE DEF n
    <3>2. Clamp(n) \in 0..100 /\ Clamp(n) <= 70
      BY <3>1, Clamped
    <3> QED BY <3>2 DEF n
  <2> QED BY <1>1, <1>2, <2>1, <2>2 DEF GatewayUnstable
<1>4. ASSUME g = Nothing \/ ~GatewayUnstable(g), NEW x \in PingRules(v) PROVE x.category # "gateway"
  BY <1>4, PingRulesAre
<1> QED BY <1>3, <1>4

LEMMA SharesTyped ==
    ASSUME NEW v, Samples(v), NEW keys \in {SystemLookups, Lookups \ SystemLookups}
    PROVE  LET s == Share(v.dns, keys) IN
           /\ s.ok \in Nat /\ s.of \in Nat \ {0} /\ s.ok <= s.of
           /\ s.ok < s.of => \E t \in Sampled(v.dns) : ~v.dns[t].up
<1> DEFINE up == Up(v.dns) \cap keys
           asked == Sampled(v.dns) \cap keys
<1>1. /\ Cardinality(up) \in Nat /\ Cardinality(asked) \in Nat
      /\ Cardinality(up) <= Cardinality(asked)
      /\ Cardinality(asked) = 0 <=> asked = {}
  <2>1. IsFiniteSet(Lookups) /\ DOMAIN v.dns \subseteq Lookups
    BY SampleTypes DEF Samples
  <2> QED BY <2>1, UpAmongSampled
<1>2. up # asked => \E t \in Sampled(v.dns) : ~v.dns[t].up
  BY DEF Up
<1>3. CASE asked = {}
  <2>1. Share(v.dns, keys) = [ok |-> 1, of |-> 1]
    BY <1>3 DEF Share
  <2> QED BY <2>1
<1>4. CASE asked # {}
  <2>1. Share(v.dns, keys) = [ok |-> Cardinality(up), of |-> Cardinality(asked)]
    BY <1>4 DEF Share
  <2> HIDE DEF up, asked
  <2> QED BY <1>1, <1>2, <1>4, <2>1
<1> QED BY <1>3, <1>4

(* What is left of a whole that two parts of it, weighed, make full, or nearly. *)
LEMMA Weighed ==
    ASSUME NEW a \in Nat, NEW all \in Nat \ {0}, a <= all,
           NEW b \in Nat, NEW every \in Nat \ {0}, b <= every
    PROVE  LET n == (60 * a * every + 40 * b * all) \div (all * every)
           IN  n \in Int /\ (n >= 100 => a = all) /\ (n >= 85 => 4 * (all - a) <= all)
<1> DEFINE d == all * every
           m == 60 * a * every + 40 * b * all
           n == m \div d
<1>1. d \in Nat \ {0} /\ m \in Nat
  <2>1. all * every \in Nat /\ all * every # 0
    OBVIOUS
  <2>2. a * every \in Nat /\ b * all \in Nat
    OBVIOUS
  <2>3. 60 * a * every = 60 * (a * every) /\ 40 * b * all = 40 * (b * all)
    OBVIOUS
  <2> QED BY <2>1, <2>2, <2>3
<1>2. n \in Int /\ d * n <= m
  <2> HIDE DEF d, m
  <2> QED BY <1>1
<1>3. ASSUME NEW least \in {85, 100}, n >= least PROVE least * d <= m
  <2> HIDE DEF d, m, n
  <2>1. d * n >= d * least
    BY <1>1, <1>2, <1>3
  <2>2. d * n \in Int /\ d * least = least * d /\ least * d \in Int
    BY <1>1, <1>2
  <2> QED BY <1>1, <1>2, <2>1, <2>2
<1>4. ASSUME a < all PROVE m < 100 * d
  <2>1. a * every <= (all - 1) * every /\ (all - 1) * every = d - every
    BY <1>4
  <2>2. b * all <= every * all /\ every * all = d
    OBVIOUS
  <2>3. m = 60 * (a * every) + 40 * (b * all)
    OBVIOUS
  <2>4. a * every \in Nat /\ b * all \in Nat
    OBVIOUS
  <2> HIDE DEF d, m
  <2> QED BY <1>1, <2>1, <2>2, <2>3, <2>4
<1>5. ASSUME 4 * a < 3 * all PROVE m < 85 * d
  <2>1. 4 * a \in Int /\ 3 * all - 1 \in Int /\ 4 * a <= 3 * all - 1
    BY <1>5
  <2>2. (4 * a) * every <= (3 * all - 1) * every
    BY <2>1
  <2>3. (4 * a) * every = 4 * (a * every) /\ (3 * all - 1) * every = 3 * d - every
    OBVIOUS
  <2>4. b * all <= every * all /\ every * all = d
    OBVIOUS
  <2>5. m = 60 * (a * every) + 40 * (b * all)
    OBVIOUS
  <2>6. a * every \in Nat /\ b * all \in Nat
    OBVIOUS
  <2> HIDE DEF d, m
  <2> QED BY <1>1, <2>2, <2>3, <2>4, <2>5, <2>6
<1> HIDE DEF d, m, n
<1>6. n \in Int /\ (n >= 100 => a = all) /\ (n >= 85 => 4 * (all - a) <= all)
  <2>1. n >= 100 => a = all
    BY <1>1, <1>2, <1>3, <1>4
  <2>2. n >= 85 => ~(4 * a < 3 * all)
    BY <1>1, <1>2, <1>3, <1>5
  <2> QED BY <1>2, <2>1, <2>2
<1> QED BY <1>6 DEF d, m, n

LEMMA DNSScored ==
    ASSUME NEW v, Samples(v)
    PROVE  /\ DNSScore(v) \in 0..100
           /\ DNSScore(v) = 100 => DNSRules(v) = {}
           /\ DNSScore(v) >= 85 => 4 * (SystemDNS(v).of - SystemDNS(v).ok) <= SystemDNS(v).of
           /\ DNSRules(v) # {} => SystemDNS(v).ok < SystemDNS(v).of
           /\ DNSRules(v) # {} => \E t \in Sampled(v.dns) : ~v.dns[t].up
<1> DEFINE s == SystemDNS(v)
           p == PublicDNS(v)
           n == (60 * s.ok * p.of + 40 * p.ok * s.of) \div (s.of * p.of)
<1>1. /\ s.ok \in Nat /\ s.of \in Nat \ {0} /\ s.ok <= s.of
      /\ s.ok < s.of => \E t \in Sampled(v.dns) : ~v.dns[t].up
  BY SharesTyped DEF SystemDNS
<1>2. p.ok \in Nat /\ p.of \in Nat \ {0} /\ p.ok <= p.of
  BY SharesTyped DEF PublicDNS
<1>3. DNSRules(v) # {} => Below(s, 90)
  BY DEF DNSRules, Reported
<1>4. DNSScore(v) = Clamp(n)
  BY DEF DNSScore
<1>8. SystemDNS(v) = s
  OBVIOUS
<1> HIDE DEF s, p
<1>5. Below(s, 90) => s.ok < s.of
  BY <1>1 DEF Below
<1>6. n \in Int /\ (n >= 100 => s.ok = s.of) /\ (n >= 85 => 4 * (s.of - s.ok) <= s.of)
  BY <1>1, <1>2, Weighed
<1> HIDE DEF n
<1>7. Clamp(n) \in 0..100 /\ (Clamp(n) = 100 => n >= 100) /\ (Clamp(n) >= 85 => n >= 85)
  BY <1>6, Clamped
<1> QED BY <1>1, <1>3, <1>4, <1>5, <1>6, <1>7, <1>8

LEMMA ServiceRulesAre ==
    ASSUME NEW v, NEW x \in ServiceRules(v)
    PROVE  /\ x.category = "service" /\ x.severity \in {"warning", "critical"}
           /\ \E s \in Sampled(v.http) :
                 /\ x.about = s
                 /\ \/ x.code = "service_down" /\ ~v.http[s].up
                    \/ x.code = "service_slow" /\ v.http[s].up /\ v.http[s].duration > 3000
                    \/ x.code = "tls_invalid" /\ ~v.http[s].tls
                    \/ x.code = "tls_expiring" /\ v.http[s].days \in 1..14
<1>1. PICK s \in Sampled(v.http) :
         \/ x = Verdict("warning", "service", "service_down", s) /\ ~v.http[s].up
         \/ x = Verdict("warning", "service", "service_slow", s) /\ v.http[s].up /\ v.http[s].duration > 3000
         \/ x = Verdict("critical", "service", "tls_invalid", s) /\ ~v.http[s].tls
         \/ x = Verdict("warning", "service", "tls_expiring", s) /\ v.http[s].days \in 1..14
  BY DEF ServiceRules, Reported
<1>2. \A severity, category, code :
         LET y == Verdict(severity, category, code, s)
         IN  y.severity = severity /\ y.category = category /\ y.code = code /\ y.about = s
  BY DEF Verdict
<1>3. CASE x = Verdict("warning", "service", "service_down", s) /\ ~v.http[s].up
  BY <1>2, <1>3
<1>4. CASE x = Verdict("warning", "service", "service_slow", s) /\ v.http[s].up /\ v.http[s].duration > 3000
  BY <1>2, <1>4
<1>5. CASE x = Verdict("critical", "service", "tls_invalid", s) /\ ~v.http[s].tls
  BY <1>2, <1>5
<1>6. CASE x = Verdict("warning", "service", "tls_expiring", s) /\ v.http[s].days \in 1..14
  BY <1>2, <1>6
<1> QED BY <1>1, <1>3, <1>4, <1>5, <1>6

(* The services that are down are in the share that are not up, and only they
   can be found fault with while the score is good. *)
LEMMA ServiceScored ==
    ASSUME NEW v, Samples(v)
    PROVE  /\ ServiceScore(v) \in 0..100
           /\ ServiceScore(v) = 100 => ServiceRules(v) = {}
           /\ ServiceScore(v) >= 85 =>
                 /\ 100 * Cardinality(Sampled(v.http) \ Up(v.http)) <= 15 * Cardinality(Sampled(v.http))
                 /\ \A x \in ServiceRules(v) : /\ x.code \in {"service_down", "tls_invalid"}
                                               /\ x.about \in Sampled(v.http) \ Up(v.http)
<1> DEFINE up == Cardinality(Up(v.http))
           all == Cardinality(Sampled(v.http))
           failing == Sampled(v.http) \ Up(v.http)
           score == IF all = 0 THEN 100 ELSE Clamp((100 * up) \div all)
           slow == MaxDuration(v) > 3000
           timely == IF slow THEN AtMost(score, 70) ELSE score
           expiring == TLSDays(v) # {} /\ LeastOf(TLSDays(v)) <= 14
<1>1. /\ up \in Nat /\ all \in Nat /\ up <= all
      /\ up = all => failing = {}
      /\ all = 0 <=> Sampled(v.http) = {}
      /\ Cardinality(failing) = all - up
  <2>1. IsFiniteSet(Services) /\ DOMAIN v.http \subseteq Services
    BY SampleTypes DEF Samples
  <2>2. Sampled(v.http) \in SUBSET Services /\ Up(v.http) \in SUBSET Sampled(v.http)
    BY <2>1 DEF Sampled, Up
  <2>3. IsFiniteSet(Sampled(v.http)) /\ Sampled(v.http) \cap Up(v.http) = Up(v.http)
    BY <2>1, <2>2, FS_Subset
  <2>4. Cardinality(failing) = all - up
    BY <2>3, FS_Difference
  <2> QED BY <2>1, <2>4, UpOfAll
<1>2. score \in 0..100 /\ (score >= 85 => 100 * (all - up) <= 15 * all) /\ (score = 100 => all = up)
  <2> HIDE DEF up, all
  <2>1. CASE all = 0
    BY <1>1, <2>1
  <2>2. CASE all # 0
    <3> DEFINE n == (100 * up) \div all
    <3>1. /\ n \in Int
          /\ n >= 85 => 100 * (all - up) <= 15 * all
          /\ n >= 100 => up = all
      BY <1>1, <2>2, Percent
    <3>2. score = Clamp(n)
      BY <2>2
    <3> HIDE DEF n, score
    <3>3. Clamp(n) \in 0..100 /\ Clamp(n) <= IF n < 0 THEN 0 ELSE n
      BY <3>1, Clamped
    <3> QED BY <3>1, <3>2, <3>3
  <2> QED BY <2>1, <2>2
<1>3. ServiceScore(v) = IF expiring THEN AtMost(timely, 80) ELSE timely
  BY DEF ServiceScore
<1>4. /\ ServiceScore(v) \in 0..100
      /\ ServiceScore(v) >= 85 => score >= 85 /\ ~slow /\ ~expiring
      /\ ServiceScore(v) = 100 => score = 100
  <2> HIDE DEF score, slow, expiring
  <2> QED BY <1>2, <1>3 DEF AtMost
<1> HIDE DEF score
<1>5. ASSUME ~slow, ~expiring, NEW x \in ServiceRules(v)
      PROVE  x.code \in {"service_down", "tls_invalid"} /\ x.about \in failing
  <2>1. PICK s \in Sampled(v.http) :
           /\ x.about = s
           /\ \/ x.code = "service_down" /\ ~v.http[s].up
              \/ x.code = "service_slow" /\ v.http[s].up /\ v.http[s].duration > 3000
              \/ x.code = "tls_invalid" /\ ~v.http[s].tls
              \/ x.code = "tls_expiring" /\ v.http[s].days \in 1..14
    BY ServiceRulesAre
  <2>2. v.http[s] \in HTTPSamples
    BY DEF Sampled, Samples
  <2>3. ~(v.http[s].duration > 3000)
    BY <1>5, <2>2, DurationIsGreatest, SampleTypes
  <2>4. ~(v.http[s].days \in 1..14)
    <3> SUFFICES ASSUME v.http[s].days \in 1..14 PROVE FALSE
      OBVIOUS
    <3>1. TLSDays(v) \in SUBSET Nat
      <4>1. \A t \in Sampled(v.http) : v.http[t].days \in Nat
        BY SampleTypes DEF Sampled, Samples
      <4> QED BY <4>1 DEF TLSDays
    <3>2. v.http[s].days \in TLSDays(v)
      BY DEF TLSDays
    <3> QED BY <1>5, <3>1, <3>2, LeastIsLeast
  <2>5. ~v.http[s].tls => ~v.http[s].up
    BY <2>2, SampleTypes
  <2> QED BY <2>1, <2>3, <2>4, <2>5 DEF Up
<1>6. score = 100 /\ ~slow /\ ~expiring => ServiceRules(v) = {}
  <2>1. score = 100 => failing = {}
    BY <1>1, <1>2
  <2> HIDE DEF slow, expiring, failing
  <2> QED BY <1>5, <2>1
<1>7. ServiceScore(v) = 100 => score = 100 /\ ~slow /\ ~expiring
  BY <1>4
<1> HIDE DEF slow, expiring
<1> QED BY <1>1, <1>2, <1>4, <1>5, <1>6, <1>7

-----------------------------------------------------------------------------
(* The rules find nothing where every score is full. *)
LEMMA FullScoresMeanNoRule ==
    ASSUME NEW v, Samples(v),
           WANScore(v) = 100, GatewayScore(v) = 100, DNSScore(v) = 100, ServiceScore(v) = 100
    PROVE  Rules(v) = {AllWell}
<1>1. PingRules(v) = {}
  BY WANScored, GatewayScored
<1>2. DNSRules(v) = {} /\ ServiceRules(v) = {}
  BY DNSScored, ServiceScored
<1> QED BY <1>1, <1>2 DEF Rules

(* The scores of a health, and the average they have. *)
Scored(h) ==
    /\ h.scores \in [{"wan", "dns", "gateway", "service", "inventory"} -> 0..100]
    /\ h.overall \in 0..100

LEMMA AverageScored ==
    ASSUME NEW s, \A f \in {"wan", "dns", "gateway", "service", "inventory"} : s[f] \in 0..100
    PROVE  /\ Average(s) \in 0..100
           /\ Average(s) = 100 => \A f \in {"wan", "dns", "gateway", "service", "inventory"} : s[f] = 100
<1>1. /\ s.wan \in 0..100 /\ s.dns \in 0..100 /\ s.gateway \in 0..100
      /\ s.service \in 0..100 /\ s.inventory \in 0..100
  OBVIOUS
<1> DEFINE a == s.wan  b == s.dns  c == s.gateway  d == s.service  e == s.inventory
<1>2. Average(s) = (a + b + c + d + e) \div 5
  BY DEF Average
<1>0. a \in 0..100 /\ b \in 0..100 /\ c \in 0..100 /\ d \in 0..100 /\ e \in 0..100
  BY <1>1
<1> HIDE DEF a, b, c, d, e
<1>3. /\ (a + b + c + d + e) \div 5 \in 0..100
      /\ (a + b + c + d + e) \div 5 = 100 => a = 100 /\ b = 100 /\ c = 100 /\ d = 100 /\ e = 100
  <2> DEFINE total == a + b + c + d + e
  <2>1. total \in 0..500 /\ (total >= 500 => a = 100 /\ b = 100 /\ c = 100 /\ d = 100 /\ e = 100)
    BY <1>0
  <2> HIDE DEF total
  <2>2. total \div 5 \in 0..100 /\ (total \div 5 = 100 => total >= 500)
    BY <2>1
  <2> QED BY <2>1, <2>2 DEF total
<1>4. Average(s) = 100 => s.wan = 100 /\ s.dns = 100 /\ s.gateway = 100 /\ s.service = 100 /\ s.inventory = 100
  BY <1>2, <1>3 DEF a, b, c, d, e
<1> QED BY <1>2, <1>3, <1>4

LEMMA RulesScored ==
    ASSUME NEW v, Samples(v)
    PROVE  LET h == Evaluate(v) IN
           /\ h.scores = [wan |-> WANScore(v), dns |-> DNSScore(v), gateway |-> GatewayScore(v),
                          service |-> ServiceScore(v), inventory |-> 100]
           /\ h.overall = Average(h.scores) /\ h.verdicts = Rules(v)
           /\ Scored(h)
<1> DEFINE scores == [wan |-> WANScore(v), dns |-> DNSScore(v), gateway |-> GatewayScore(v),
                      service |-> ServiceScore(v), inventory |-> 100]
<1>1. \A f \in {"wan", "dns", "gateway", "service", "inventory"} : scores[f] \in 0..100
  <2>1. WANScore(v) \in 0..100 /\ DNSScore(v) \in 0..100 /\ GatewayScore(v) \in 0..100
        /\ ServiceScore(v) \in 0..100
    BY WANScored, DNSScored, GatewayScored, ServiceScored
  <2> QED BY <2>1
<1>2. scores \in [{"wan", "dns", "gateway", "service", "inventory"} -> 0..100]
  BY <1>1
<1>3. Evaluate(v) = [status |-> StatusOfVerdicts(Rules(v)), verdicts |-> Rules(v),
                     scores |-> scores, overall |-> Average(scores)]
  BY DEF Evaluate
<1> HIDE DEF scores
<1>4. Average(scores) \in 0..100
  BY <1>1, AverageScored
<1>5. /\ Evaluate(v).scores = scores /\ Evaluate(v).overall = Average(scores)
      /\ Evaluate(v).verdicts = Rules(v)
  BY <1>3
<1> QED BY <1>2, <1>4, <1>5 DEF Scored, scores

(* What each stage makes of the score: it never rises, and it falls below full
   with each thing that is reported. *)
LEMMA InventoryLowers ==
    ASSUME NEW h, Sound(h), Scored(h), h.overall = Average(h.scores), Fields \subseteq DOMAIN h, NEW v
    PROVE  LET g == WithInventory(h, v) IN
           /\ Scored(g) /\ g.overall = Average(g.scores)
           /\ \A f \in {"wan", "dns", "gateway", "service"} : g.scores[f] = h.scores[f]
           /\ \/ g = h
              \/ /\ g.scores.inventory <= 90
                 /\ g.scores.inventory >= 85 =>
                       \A x \in g.verdicts : x \in h.verdicts \/ x.severity = "info"
<1> DEFINE fresh == Verdict("info", "inventory", "new_device_detected", "")
           gone == Verdict("warning", "inventory", "known_device_missing", "")
           more == Reported(fresh, v.new > 0) \cup Reported(gone, v.missing > 0)
           scores == [h.scores EXCEPT !.inventory = IF v.missing > 0 THEN AtMost(@, 70) ELSE AtMost(@, 90)]
<1>1. CASE more = {}
  BY <1>1 DEF WithInventory
<1>2. CASE more # {}
  <2>1. WithInventory(h, v) =
           [status |-> Raised(h.status, more), verdicts |-> Added(h.verdicts, more),
            scores |-> scores, overall |-> Average(scores)]
    BY <1>2 DEF WithInventory
  <2>2. /\ scores \in [{"wan", "dns", "gateway", "service", "inventory"} -> 0..100]
        /\ \A f \in {"wan", "dns", "gateway", "service"} : scores[f] = h.scores[f]
        /\ scores.inventory <= IF v.missing > 0 THEN 70 ELSE 90
    BY DEF Scored, AtMost
  <2>3. ~(v.missing > 0) => \A x \in Added(h.verdicts, more) : x \in h.verdicts \/ x.severity = "info"
    <3>1. fresh.severity = "info"
      BY DEF Verdict
    <3> HIDE DEF fresh, gone
    <3> QED BY <3>1 DEF Added, Reported
  <2> HIDE DEF scores, more
  <2>4. Average(scores) \in 0..100
    BY <2>2, AverageScored
  <2>5. /\ WithInventory(h, v).scores = scores /\ WithInventory(h, v).overall = Average(scores)
        /\ WithInventory(h, v).verdicts = Added(h.verdicts, more)
    BY <2>1
  <2> QED BY <2>2, <2>3, <2>4, <2>5 DEF Scored
<1> QED BY <1>1, <1>2

LEMMA ThresholdsLower ==
    ASSUME NEW h, Scored(h), Fields \subseteq DOMAIN h, NEW v
    PROVE  LET g == WithThresholds(h, v)
               more == PingThresholds(v) \cup DNSThresholds(v) \cup HTTPThresholds(v)
           IN  /\ Scored(g) /\ g.scores = h.scores
               /\ (g = h /\ more = {}) \/ g.overall <= 80
<1> DEFINE more == PingThresholds(v) \cup DNSThresholds(v) \cup HTTPThresholds(v)
           status == Raised(h.status, more)
           cap == IF status = "critical" THEN 60 ELSE 80
<1>1. CASE more = {}
  BY <1>1 DEF WithThresholds
<1>2. CASE more # {}
  <2>1. /\ WithThresholds(h, v).overall = AtMost(h.overall, cap)
        /\ WithThresholds(h, v).scores = h.scores
    BY <1>2 DEF WithThresholds, Fields
  <2> HIDE DEF more, status
  <2> QED BY <2>1 DEF Scored, AtMost
<1> QED BY <1>1, <1>2

(* A check that warns lowers nothing where something is reported already. *)
LEMMA ChecksLower ==
    ASSUME NEW h, Scored(h), Fields \subseteq DOMAIN h, NEW v
    PROVE  LET g == WithAdvanced(h, v) IN
           /\ Scored(g) /\ g.scores = h.scores
           /\ \/ g = h
              \/ g.overall <= 80
              \/ /\ h.status # "healthy" /\ g.overall = h.overall
                 /\ \A x \in g.verdicts :
                       x \in h.verdicts \/ (x.category = "advanced" /\ x.severity = "warning")
<1> DEFINE raised == {c \in Checks : v.checks[c] \in {"warning", "critical"}}
           more == {Verdict(v.checks[c], "advanced", "check", c) : c \in raised}
           overall == IF Has("critical", more) THEN AtMost(h.overall, 60)
                      ELSE IF h.status = "healthy" THEN AtMost(h.overall, 80) ELSE h.overall
<1>1. CASE more = {}
  BY <1>1 DEF WithAdvanced
<1>2. CASE more # {}
  <2>1. /\ WithAdvanced(h, v).overall = overall /\ WithAdvanced(h, v).scores = h.scores
        /\ WithAdvanced(h, v).verdicts = Added(h.verdicts, more)
    BY <1>2 DEF WithAdvanced, Fields
  <2>2. \A x \in more : x.category = "advanced" /\ x.severity \in {"warning", "critical"}
    BY DEF Verdict
  <2> HIDE DEF more
  <2>3. ~Has("critical", more) => \A x \in more : x.category = "advanced" /\ x.severity = "warning"
    BY <2>2 DEF Has
  <2>4. overall \in 0..100
    BY DEF Scored, AtMost
  <2>5. Has("critical", more) \/ h.status = "healthy" => overall <= 80
    BY DEF Scored, AtMost
  <2>6. ~(Has("critical", more) \/ h.status = "healthy") => overall = h.overall
    OBVIOUS
  <2>7. \A x \in Added(h.verdicts, more) : x \in h.verdicts \/ x \in more
    BY DEF Added
  <2> HIDE DEF overall
  <2> QED BY <2>1, <2>3, <2>4, <2>5, <2>6, <2>7 DEF Scored
<1> QED BY <1>1, <1>2

-----------------------------------------------------------------------------
(* A view holds samples, and the rows of lookups and of services among which
   Evaluate looks are among those the thresholds look through. *)
Typed(v) ==
    /\ v \in [ping : [Pinged -> PingSamples \cup {Nothing}],
              dns : [Lookups -> DNSSamples \cup {Nothing}],
              http : [Services -> HTTPSamples \cup {Nothing}],
              past : [Targets -> Pasts \cup {<<>>}],
              checks : [Checks -> {"info", "warning", "critical"}],
              new : Nat, missing : Nat, near : SUBSET Targets, far : SUBSET Targets,
              since : [ping : [Pinged -> PingSamples \cup {Nothing}],
                       dns : [Lookups -> DNSSamples \cup {Nothing}],
                       http : [Services -> HTTPSamples \cup {Nothing}]],
              failed : SUBSET {"ping", "dns", "http"}]
    /\ v.near \cap (Lookups \cup Services) \subseteq v.far

LEMMA SamplesAmong ==
    ASSUME NEW v, Typed(v), NEW targets
    PROVE  Samples(ViewOf(v, targets)) /\ Samples(v)
<1>1. Samples(v)
  BY DEF Typed, Samples
<1>2. /\ ViewOf(v, targets).ping = Among(v.ping, targets)
      /\ ViewOf(v, targets).dns = Among(v.dns, targets)
      /\ ViewOf(v, targets).http = Among(v.http, targets)
  BY DEF ViewOf, Typed
<1> QED BY <1>1, <1>2 DEF Samples, Among

LEMMA SamplesLater ==
    ASSUME NEW v, Typed(v)
    PROVE  Samples(Later(v)) /\ Later(v).past = v.past
<1>1. /\ Answered(v, "ping", v.ping) \in [Pinged -> PingSamples \cup {Nothing}]
      /\ Answered(v, "dns", v.dns) \in [Lookups -> DNSSamples \cup {Nothing}]
      /\ Answered(v, "http", v.http) \in [Services -> HTTPSamples \cup {Nothing}]
  BY DEF Typed, Answered, Among, Renewed
<1>2. /\ Later(v).ping = Answered(v, "ping", v.ping)
      /\ Later(v).dns = Answered(v, "dns", v.dns)
      /\ Later(v).http = Answered(v, "http", v.http)
      /\ Later(v).past = v.past
  BY DEF Typed, Later
<1> QED BY <1>1, <1>2 DEF Samples

(* What the thresholds find if nothing disturbs the evaluation. *)
LEMMA LaterUndisturbed ==
    ASSUME NEW v, Typed(v), v.since = NoneSince, v.failed = {}
    PROVE  Later(v) = ViewOf(v, v.far)
<1>1. /\ Answered(v, "ping", v.ping) = Among(v.ping, v.far)
      /\ Answered(v, "dns", v.dns) = Among(v.dns, v.far)
      /\ Answered(v, "http", v.http) = Among(v.http, v.far)
  <2>1. /\ v.since["ping"] = [t \in Pinged |-> Nothing] /\ v.since["dns"] = [t \in Lookups |-> Nothing]
        /\ v.since["http"] = [t \in Services |-> Nothing]
    BY DEF NoneSince
  <2>2. DOMAIN v.ping = Pinged /\ DOMAIN v.dns = Lookups /\ DOMAIN v.http = Services
    BY DEF Typed
  <2> QED BY <2>1, <2>2 DEF Answered, Among, Renewed
<1> QED BY <1>1 DEF Later, ViewOf

LEMMA ViewTyped ==
    ASSUME NEW v, Typed(v), NEW near \in SUBSET Targets, NEW far \in SUBSET Targets,
           near \cap (Lookups \cup Services) \subseteq far, NEW past \in [Targets -> Pasts \cup {<<>>}],
           NEW targets
    PROVE  Typed(ViewOf([v EXCEPT !.near = near, !.far = far, !.past = past], targets))
<1>1. /\ Among(v.ping, targets) \in [Pinged -> PingSamples \cup {Nothing}]
      /\ Among(v.dns, targets) \in [Lookups -> DNSSamples \cup {Nothing}]
      /\ Among(v.http, targets) \in [Services -> HTTPSamples \cup {Nothing}]
  BY DEF Typed, Among
<1> QED BY <1>1 DEF Typed, ViewOf

(* The views that are reached are such views. *)
ViewIsTyped == Typed(view)

LEMMA BlankTyped == HInit => ViewIsTyped
BY DEF HInit, Unprobed, NoneSince, Typed, ViewIsTyped

LEMMA ViewStaysTyped == ViewIsTyped /\ [HNext]_view => ViewIsTyped'
<1>1. Typed(view) /\ [HNext]_view => Typed(view')
  <2> SUFFICES ASSUME Typed(view), [HNext]_view PROVE Typed(view')
    OBVIOUS
  <2>1. ASSUME NEW t \in Targets, NEW past \in Pasts \cup {<<>>} PROVE Typed(Newest(t, past))
    BY <2>1 DEF Typed, Newest
  <2>2. CASE PingSaved
    <3>1. PICK t \in Pinged, r \in PingSamples, past \in Pasts :
             view' = [Newest(t, past) EXCEPT !.ping[t] = r]
      BY <2>2 DEF PingSaved
    <3>2. Typed(Newest(t, past))
      BY <2>1 DEF Pinged, Targets
    <3> QED BY <3>1, <3>2 DEF Typed
  <2>3. CASE DNSSaved
    <3>1. PICK t \in Lookups, r \in DNSSamples : view' = [Newest(t, <<>>) EXCEPT !.dns[t] = r]
      BY <2>3 DEF DNSSaved
    <3>2. Typed(Newest(t, <<>>))
      BY <2>1 DEF Targets
    <3> QED BY <3>1, <3>2 DEF Typed
  <2>4. CASE HTTPSaved
    <3>1. PICK t \in Services, r \in HTTPSamples, past \in Pasts :
             view' = [Newest(t, past) EXCEPT !.http[t] = r]
      BY <2>4 DEF HTTPSaved
    <3>2. Typed(Newest(t, past))
      BY <2>1 DEF Targets
    <3> QED BY <3>1, <3>2 DEF Typed
  <2>5. CASE LeavesNear
    <3>1. PICK t \in view.near \ {Gateway} :
             view' = ViewOf([view EXCEPT !.near = @ \ {t}], (view.near \ {t}) \cup view.far)
      BY <2>5 DEF LeavesNear
    <3> DEFINE v == [view EXCEPT !.near = view.near \ {t}, !.far = view.far, !.past = view.past]
               targets == (view.near \ {t}) \cup view.far
    <3>2. view' = ViewOf(v, targets)
      <4>1. [view EXCEPT !.near = @ \ {t}] = v
        BY DEF Typed
      <4> QED BY <3>1, <4>1
    <3>3. /\ view.near \ {t} \in SUBSET Targets /\ view.far \in SUBSET Targets
          /\ view.past \in [Targets -> Pasts \cup {<<>>}]
          /\ (view.near \ {t}) \cap (Lookups \cup Services) \subseteq view.far
      BY DEF Typed
    <3>4. Typed(ViewOf(v, targets))
      BY <3>3, ViewTyped
    <3> QED BY <3>2, <3>4
  <2>6. CASE LeavesFar
    <3>1. PICK t \in view.far \ (view.near \cap (Lookups \cup Services)) :
             view' = ViewOf([view EXCEPT !.far = @ \ {t}, !.past[t] = <<>>],
                            view.near \cup (view.far \ {t}))
      BY <2>6 DEF LeavesFar
    <3> DEFINE past == [view.past EXCEPT ![t] = <<>>]
    <3>2. [view EXCEPT !.far = @ \ {t}, !.past[t] = <<>>] =
             [view EXCEPT !.near = view.near, !.far = view.far \ {t}, !.past = past]
      BY DEF Typed
    <3>3. /\ view.near \in SUBSET Targets /\ view.far \ {t} \in SUBSET Targets
          /\ past \in [Targets -> Pasts \cup {<<>>}]
          /\ view.near \cap (Lookups \cup Services) \subseteq view.far \ {t}
      BY DEF Typed
    <3> HIDE DEF past
    <3> QED BY <3>1, <3>2, <3>3, ViewTyped
  <2>7. CASE AdvancedSaved
    BY <2>7 DEF AdvancedSaved, Typed
  <2>10. CASE PingSince
    <3>1. PICK t \in Pinged, r \in PingSamples, past \in Pasts :
             view' = [view EXCEPT !.since.ping[t] = r, !.past[t] = past]
      BY <2>10 DEF PingSince
    <3> QED BY <3>1 DEF Typed, Pinged, Targets
  <2>11. CASE DNSSince
    <3>1. PICK t \in Lookups, r \in DNSSamples : view' = [view EXCEPT !.since.dns[t] = r]
      BY <2>11 DEF DNSSince
    <3> QED BY <3>1 DEF Typed
  <2>12. CASE HTTPSince
    <3>1. PICK t \in Services, r \in HTTPSamples, past \in Pasts :
             view' = [view EXCEPT !.since.http[t] = r, !.past[t] = past]
      BY <2>12 DEF HTTPSince
    <3> QED BY <3>1 DEF Typed, Targets
  <2>13. CASE QueryFails
    BY <2>13 DEF QueryFails, Typed
  <2>14. CASE EvaluatedAnew
    <3> DEFINE saved == SavedSince(view.since)
               ping == Renewed(view.ping, view.since.ping)
               dns == Renewed(view.dns, view.since.dns)
               http == Renewed(view.http, view.since.http)
    <3>1. view' = [view EXCEPT !.ping = ping, !.dns = dns, !.http = http, !.near = view.near \cup saved,
                               !.far = view.far \cup saved, !.since = NoneSince, !.failed = {}]
      BY <2>14 DEF EvaluatedAnew
    <3>2. /\ ping \in [Pinged -> PingSamples \cup {Nothing}]
          /\ dns \in [Lookups -> DNSSamples \cup {Nothing}]
          /\ http \in [Services -> HTTPSamples \cup {Nothing}]
      BY DEF Typed, Renewed
    <3>3. saved \subseteq Targets
      BY DEF Typed, SavedSince, Sampled, Pinged, Targets
    <3>4. NoneSince \in [ping : [Pinged -> PingSamples \cup {Nothing}],
                         dns : [Lookups -> DNSSamples \cup {Nothing}],
                         http : [Services -> HTTPSamples \cup {Nothing}]]
      BY DEF NoneSince
    <3> HIDE DEF saved, ping, dns, http
    <3> QED BY <3>1, <3>2, <3>3, <3>4 DEF Typed
  <2>8. CASE DevicesCounted
    <3>1. PICK new \in 0..1, missing \in 0..1 : view' = [view EXCEPT !.new = new, !.missing = missing]
      BY <2>8 DEF DevicesCounted
    <3>2. new \in Nat /\ missing \in Nat
      OBVIOUS
    <3> QED BY <3>1, <3>2 DEF Typed
  <2>9. CASE UNCHANGED view
    BY <2>9
  <2> QED BY <2>2, <2>3, <2>4, <2>5, <2>6, <2>7, <2>8, <2>9, <2>10, <2>11, <2>12, <2>13, <2>14
         DEF HNext
<1> QED BY <1>1 DEF ViewIsTyped

LEMMA HealthTyped == HSpec => []ViewIsTyped
BY BlankTyped, ViewStaysTyped, PTL DEF HSpec

(* A target that is found down is reported, whatever the other targets, the
   limits, the inventory and the advanced checks say. *)
THEOREM FailureReported == HSpec => []FailureIsReported
<1>1. ASSUME NEW t \in Sampled(Later(view).ping), ~Later(view).ping[t].up
      PROVE  Health(view).status = "critical"
  <2> DEFINE x == Verdict("critical", "wan", "ping_target_down", t)
  <2>1. x \in PingThresholds(Later(view))
    BY <1>1 DEF PingThresholds
  <2>2. x.code # "healthy" /\ x.severity = "critical"
    BY DEF Verdict
  <2> QED BY <2>1, <2>2, ThresholdReported, VerdictCounts
<1>2. ASSUME NEW t \in Sampled(Later(view).dns), ~Later(view).dns[t].up
      PROVE  Health(view).status # "healthy"
  <2> DEFINE x == Verdict("warning", "dns", "dns_lookup_failed", t)
  <2>1. x \in DNSThresholds(Later(view))
    BY <1>2 DEF DNSThresholds
  <2>2. x.code # "healthy" /\ x.severity = "warning"
    BY DEF Verdict
  <2> QED BY <2>1, <2>2, ThresholdReported, VerdictCounts
<1>3. ASSUME ViewIsTyped, NEW t \in Sampled(Among(view.http, view.near)), ~Among(view.http, view.near)[t].up
      PROVE  Health(view).status # "healthy"
  <2> DEFINE x == Verdict("warning", "service", "service_down", t)
  <2>1. t \in Sampled(ViewOf(view, view.near).http) /\ ~ViewOf(view, view.near).http[t].up
    BY <1>3 DEF ViewOf, ViewIsTyped, Typed
  <2>2. x \in ServiceRules(ViewOf(view, view.near))
    BY <2>1 DEF ServiceRules, Reported
  <2>3. x \in Rules(ViewOf(view, view.near))
    BY <2>2 DEF Rules
  <2>4. x.code # "healthy" /\ x.severity = "warning"
    BY DEF Verdict
  <2> QED BY <2>3, <2>4, RuleReported, VerdictCounts
<1>4. ViewIsTyped => FailureIsReported
  BY <1>1, <1>2, <1>3 DEF FailureIsReported, Up
<1> QED BY <1>4, HealthTyped, PTL

-----------------------------------------------------------------------------
(* The stages of a health. *)
First(v) == Evaluate(ViewOf(v, v.near))
Second(v) == WithInventory(First(v), v)
Third(v) == WithThresholds(Second(v), Later(v))

LEMMA Stages ==
    ASSUME NEW v, Typed(v)
    PROVE  /\ Health(v) = WithAdvanced(Third(v), v)
           /\ Sound(First(v)) /\ Scored(First(v)) /\ Fields \subseteq DOMAIN First(v)
           /\ Sound(Second(v)) /\ Scored(Second(v)) /\ Fields \subseteq DOMAIN Second(v)
           /\ Sound(Third(v)) /\ Scored(Third(v)) /\ Fields \subseteq DOMAIN Third(v)
           /\ First(v).overall = Average(First(v).scores) /\ Second(v).overall = Average(Second(v).scores)
<1>1. Samples(ViewOf(v, v.near))
  BY SamplesAmong
<1>2. /\ Sound(First(v)) /\ Scored(First(v)) /\ Fields \subseteq DOMAIN First(v)
      /\ First(v).overall = Average(First(v).scores)
  BY <1>1, RulesSound, RulesScored DEF First
<1>3. /\ Sound(Second(v)) /\ Scored(Second(v)) /\ Fields \subseteq DOMAIN Second(v)
      /\ Second(v).overall = Average(Second(v).scores)
  BY <1>2, InventorySound, InventoryLowers DEF Second
<1>4. Sound(Third(v)) /\ Scored(Third(v)) /\ Fields \subseteq DOMAIN Third(v)
  BY <1>3, ThresholdsSound, ThresholdsLower DEF Third
<1> QED BY <1>2, <1>3, <1>4 DEF Health, First, Second, Third

(* Four stages lower the score by rules of their own: whatever any of them
   reports, a site scores 100 only if nothing was reported at all. *)
THEOREM FullScoreIsEarned == HSpec => []FullScoreMeansHealthy
<1>1. ASSUME NEW v, Typed(v), Health(v).overall = 100 PROVE Health(v).verdicts = {AllWell}
  <2>1. \/ Health(v) = Third(v)
        \/ Third(v).status # "healthy" /\ Third(v).overall = 100
    <3> DEFINE h == Third(v)
               g == WithAdvanced(h, v)
    <3>1. Scored(h) /\ Fields \subseteq DOMAIN h /\ Health(v) = g
      BY <1>1, Stages
    <3> HIDE DEF h
    <3>2. g = h \/ g.overall <= 80 \/ (h.status # "healthy" /\ g.overall = h.overall)
      BY <3>1, ChecksLower
    <3> HIDE DEF g
    <3> QED BY <1>1, <3>1, <3>2 DEF h
  <2>2. Third(v).overall = 100
    BY <1>1, <2>1
  <2>3. Third(v) = Second(v)
    <3>1. Third(v) = Second(v) \/ Third(v).overall <= 80
      BY <1>1, Stages, ThresholdsLower DEF Third
    <3> QED BY <2>2, <3>1
  <2>4. \A f \in {"wan", "dns", "gateway", "service", "inventory"} : Second(v).scores[f] = 100
    <3>1. \A f \in {"wan", "dns", "gateway", "service", "inventory"} : Second(v).scores[f] \in 0..100
      BY <1>1, Stages DEF Scored
    <3>2. Average(Second(v).scores) = 100
      BY <1>1, <2>2, <2>3, Stages
    <3> QED BY <3>1, <3>2, AverageScored
  <2>5. /\ Second(v) = First(v)
        /\ \A f \in {"wan", "dns", "gateway", "service"} : First(v).scores[f] = 100
    <3>1. /\ \A f \in {"wan", "dns", "gateway", "service"} : Second(v).scores[f] = First(v).scores[f]
          /\ Second(v) = First(v) \/ Second(v).scores.inventory <= 90
      BY <1>1, Stages, InventoryLowers DEF Second
    <3> QED BY <2>4, <3>1
  <2>6. First(v).verdicts = {AllWell}
    <3> DEFINE w == ViewOf(v, v.near)
    <3>1. Samples(w)
      BY <1>1, SamplesAmong
    <3>2. /\ First(v).scores = [wan |-> WANScore(w), dns |-> DNSScore(w), gateway |-> GatewayScore(w),
                                service |-> ServiceScore(w), inventory |-> 100]
          /\ First(v).verdicts = Rules(w)
      BY <3>1, RulesScored DEF First
    <3> HIDE DEF w
    <3>3. WANScore(w) = 100 /\ DNSScore(w) = 100 /\ GatewayScore(w) = 100 /\ ServiceScore(w) = 100
      BY <2>5, <3>2
    <3> QED BY <3>1, <3>2, <3>3, FullScoresMeanNoRule
  <2>7. First(v).status = "healthy"
    BY <1>1, <2>6, Stages, AllWellIsInfo DEF Sound, StatusOfVerdicts, Has
  <2> QED BY <2>1, <2>3, <2>5, <2>6, <2>7
<1>2. ViewIsTyped => FullScoreMeansHealthy
  BY <1>1 DEF ViewIsTyped, FullScoreMeansHealthy
<1> QED BY <1>2, HealthTyped, PTL

-----------------------------------------------------------------------------
(* What is said of a site, by whatever stage: the verdicts are that. *)
RulesSay(v) == PingRules(ViewOf(v, v.near)) \cup DNSRules(ViewOf(v, v.near))
               \cup ServiceRules(ViewOf(v, v.near))
InventorySays(v) ==
    Reported(Verdict("info", "inventory", "new_device_detected", ""), v.new > 0) \cup
    Reported(Verdict("warning", "inventory", "known_device_missing", ""), v.missing > 0)
ThresholdsSay(v) == PingThresholds(Later(v)) \cup DNSThresholds(Later(v))
                    \cup HTTPThresholds(Later(v))
ChecksSay(v) == {Verdict(v.checks[c], "advanced", "check", c) :
                    c \in {d \in Checks : v.checks[d] \in {"warning", "critical"}}}
Said(v) == RulesSay(v) \cup InventorySays(v) \cup ThresholdsSay(v) \cup ChecksSay(v)

Says(h, S) == NoPraise(S) /\ h.verdicts = IF S = {} THEN {AllWell} ELSE S

LEMMA SaysMore ==
    ASSUME NEW h, NEW S, Says(h, S), NEW more, NoPraise(more), NEW g,
           g.verdicts = IF more = {} THEN h.verdicts ELSE Added(h.verdicts, more)
    PROVE  Says(g, S \cup more)
<1>1. NoPraise(S \cup more)
  BY ProblemsJoin DEF Says
<1>2. {x \in h.verdicts : x.code # "healthy"} = S
  BY AllWellIsInfo DEF Says, NoPraise
<1>3. CASE more = {}
  BY <1>1, <1>3 DEF Says
<1>4. CASE more # {}
  BY <1>1, <1>2, <1>4 DEF Says, Added
<1> QED BY <1>3, <1>4

LEMMA HealthSays == ASSUME NEW v PROVE Says(Health(v), Said(v))
<1>1. Says(First(v), RulesSay(v))
  <2> DEFINE w == ViewOf(v, v.near)
  <2>1. NoPraise(PingRules(w)) BY ReportedProblem, ProblemsJoin DEF PingRules
  <2>2. NoPraise(DNSRules(w)) BY ReportedProblem, ProblemsJoin DEF DNSRules
  <2>3. NoPraise(ServiceRules(w))
    BY DEF NoPraise, ServiceRules, Reported, Verdict
  <2>4. NoPraise(RulesSay(v))
    BY <2>1, <2>2, <2>3, ProblemsJoin DEF RulesSay
  <2>5. First(v).verdicts = IF RulesSay(v) = {} THEN {AllWell} ELSE RulesSay(v)
    BY DEF First, Evaluate, Rules, RulesSay
  <2> QED BY <2>4, <2>5 DEF Says
<1>2. Fields \subseteq DOMAIN First(v) /\ Sound(First(v))
  BY RulesSound DEF First
<1>3. Says(Second(v), RulesSay(v) \cup InventorySays(v))
  <2>1. NoPraise(InventorySays(v))
    BY ReportedProblem, ProblemsJoin DEF InventorySays
  <2>2. Second(v).verdicts =
           IF InventorySays(v) = {} THEN First(v).verdicts ELSE Added(First(v).verdicts, InventorySays(v))
    BY DEF Second, WithInventory, InventorySays
  <2> QED BY <1>1, <2>1, <2>2, SaysMore
<1>4. Fields \subseteq DOMAIN Second(v) /\ Sound(Second(v))
  BY <1>2, InventorySound DEF Second
<1>5. Says(Third(v), (RulesSay(v) \cup InventorySays(v)) \cup ThresholdsSay(v))
  <2>1. NoPraise(ThresholdsSay(v))
    BY ThresholdProblems DEF ThresholdsSay
  <2>2. Third(v).verdicts =
           IF ThresholdsSay(v) = {} THEN Second(v).verdicts ELSE Added(Second(v).verdicts, ThresholdsSay(v))
    BY <1>4 DEF Third, WithThresholds, ThresholdsSay, Fields
  <2> QED BY <1>3, <2>1, <2>2, SaysMore
<1>6. Fields \subseteq DOMAIN Third(v)
  BY <1>4, ThresholdsSound DEF Third
<1>7. Says(Health(v), ((RulesSay(v) \cup InventorySays(v)) \cup ThresholdsSay(v)) \cup ChecksSay(v))
  <2>1. NoPraise(ChecksSay(v))
    BY DEF NoPraise, ChecksSay, Verdict
  <2>2. Health(v) = WithAdvanced(Third(v), v)
    BY DEF Health, First, Second, Third
  <2>3. WithAdvanced(Third(v), v).verdicts =
           IF ChecksSay(v) = {} THEN Third(v).verdicts ELSE Added(Third(v).verdicts, ChecksSay(v))
    BY <1>6 DEF WithAdvanced, ChecksSay, Fields
  <2> QED BY <1>5, <2>1, <2>2, <2>3, SaysMore
<1> QED BY <1>7 DEF Said

(* So the status is the worst of what is said. *)
Bad(S) == \E x \in S : x.severity \in {"warning", "critical"}
Critical(S) == \E x \in S : x.severity = "critical"

LEMMA StatusOfSaid ==
    ASSUME NEW v
    PROVE  /\ Health(v).status = "critical" <=> Critical(Said(v))
           /\ Health(v).status = "healthy" <=> ~Bad(Said(v))
<1>1. Critical(Health(v).verdicts) <=> Critical(Said(v))
  BY HealthSays, AllWellIsInfo DEF Says, Critical
<1>2. Bad(Health(v).verdicts) <=> Bad(Said(v))
  BY HealthSays, AllWellIsInfo DEF Says, Bad
<1>3. Health(v).status = StatusOfVerdicts(Health(v).verdicts)
  BY HealthSound DEF Sound
<1> QED BY <1>1, <1>2, <1>3 DEF StatusOfVerdicts, Has, Bad, Critical

LEMMA JoinedSigns ==
    ASSUME NEW S, NEW T
    PROVE  /\ Bad(S \cup T) <=> Bad(S) \/ Bad(T)
           /\ Critical(S \cup T) <=> Critical(S) \/ Critical(T)
BY DEF Bad, Critical

-----------------------------------------------------------------------------
(* Samples that are worse.  One is as it was or no better in any respect. *)
Lower(s, r) == s = r \/ NotBetter(s, r)
Worsened(u, v) ==
    /\ Samples(u) /\ Samples(v)
    /\ \A t \in Pinged : Lower(u.ping[t], v.ping[t])
    /\ \A t \in Lookups : Lower(u.dns[t], v.dns[t])
    /\ \A t \in Services : Lower(u.http[t], v.http[t])

LEMMA PingWorse ==
    ASSUME NEW s \in PingSamples, NEW r \in PingSamples, Lower(s, r)
    PROVE  /\ s.up \in BOOLEAN /\ r.up \in BOOLEAN /\ (s.up => r.up)
           /\ s.loss \in 0..100 /\ r.loss \in 0..100 /\ s.loss >= r.loss
           /\ s.loss \notin 1..2 /\ r.loss \notin 1..2
           /\ s.latency \in Nat /\ r.latency \in Nat /\ (s.up => s.latency >= r.latency)
<1>1. /\ s \in [up : BOOLEAN, loss : {0, 33, 67, 100}, latency : Nat] /\ (s.up <=> s.loss < 100)
      /\ r \in [up : BOOLEAN, loss : {0, 33, 67, 100}, latency : Nat] /\ (r.up <=> r.loss < 100)
  BY SampleTypes
<1>2. /\ s.loss \in 0..100 /\ r.loss \in 0..100 /\ s.loss \notin 1..2 /\ r.loss \notin 1..2
      /\ s.latency \in Nat /\ r.latency \in Nat /\ s.up \in BOOLEAN /\ r.up \in BOOLEAN
  BY <1>1
<1>3. CASE s = r
  BY <1>2, <1>3
<1>4. CASE NotBetter(s, r)
  <2>1. "loss" \in DOMAIN r /\ "latency" \in DOMAIN r
    BY <1>1
  <2>2. s.up => r.up /\ s.loss >= r.loss /\ s.latency >= r.latency
    BY <1>4, <2>1 DEF NotBetter
  <2>3. ~s.up => s.loss = 100
    BY <1>1
  <2> QED BY <1>2, <2>2, <2>3
<1> QED BY <1>3, <1>4 DEF Lower

LEMMA DNSWorse ==
    ASSUME NEW s \in DNSSamples, NEW r \in DNSSamples, Lower(s, r)
    PROVE  /\ s.up \in BOOLEAN /\ r.up \in BOOLEAN
           /\ s.duration \in Nat /\ r.duration \in Nat
           /\ s.up => r.up /\ s.duration >= r.duration
<1>1. /\ s \in [up : BOOLEAN, duration : Nat]
      /\ r \in [up : BOOLEAN, duration : Nat]
  BY SampleTypes
<1>2. CASE s = r
  BY <1>1, <1>2
<1>3. CASE NotBetter(s, r)
  <2>1. "duration" \in DOMAIN r
    BY <1>1
  <2> QED BY <1>1, <1>3, <2>1 DEF NotBetter
<1> QED BY <1>2, <1>3 DEF Lower

LEMMA HTTPWorse ==
    ASSUME NEW s \in HTTPSamples, NEW r \in HTTPSamples, Lower(s, r)
    PROVE  /\ s.up \in BOOLEAN /\ r.up \in BOOLEAN /\ s.tls \in BOOLEAN /\ r.tls \in BOOLEAN
           /\ s.duration \in Nat /\ r.duration \in Nat /\ s.days \in Nat /\ r.days \in Nat
           /\ s.up => r.up /\ s.duration >= r.duration
           /\ s.tls => r.tls
           /\ s.days = r.days \/ s.days \in 1..r.days
<1>1. /\ s \in [up : BOOLEAN, duration : 0..Timeout, tls : BOOLEAN, days : Nat]
      /\ r \in [up : BOOLEAN, duration : 0..Timeout, tls : BOOLEAN, days : Nat]
      /\ Timeout \in Nat
  BY SampleTypes
<1>2. /\ s.up \in BOOLEAN /\ r.up \in BOOLEAN /\ s.tls \in BOOLEAN /\ r.tls \in BOOLEAN
      /\ s.duration \in Nat /\ r.duration \in Nat /\ s.days \in Nat /\ r.days \in Nat
  BY <1>1
<1>3. CASE s = r
  BY <1>2, <1>3
<1>4. CASE NotBetter(s, r)
  <2>1. "duration" \in DOMAIN r /\ "tls" \in DOMAIN r
    BY <1>1
  <2> QED BY <1>2, <1>4, <2>1 DEF NotBetter
<1> QED BY <1>3, <1>4 DEF Lower

(* Lower samples are there where the others are. *)
LEMMA SampledAlike ==
    ASSUME NEW u, NEW v, Worsened(u, v)
    PROVE  /\ Sampled(u.ping) = Sampled(v.ping) /\ Sampled(u.dns) = Sampled(v.dns)
           /\ Sampled(u.http) = Sampled(v.http)
           /\ \A t \in Sampled(v.ping) : /\ t \in Pinged /\ u.ping[t] \in PingSamples
                                         /\ v.ping[t] \in PingSamples /\ Lower(u.ping[t], v.ping[t])
           /\ \A t \in Sampled(v.dns) : /\ t \in Lookups /\ u.dns[t] \in DNSSamples
                                        /\ v.dns[t] \in DNSSamples /\ Lower(u.dns[t], v.dns[t])
           /\ \A t \in Sampled(v.http) : /\ t \in Services /\ u.http[t] \in HTTPSamples
                                         /\ v.http[t] \in HTTPSamples /\ Lower(u.http[t], v.http[t])
BY DEF Worsened, Samples, Sampled, Lower, NotBetter

LEMMA LossRises ==
    ASSUME NEW u, NEW v, Worsened(u, v)
    PROVE  MaxLoss(u) >= MaxLoss(v) /\ MaxLoss(u) \in 0..100 /\ MaxLoss(v) \in 0..100
<1> DEFINE losses(w) == {w.ping[h].loss : h \in Sampled(Internet(w))} \cup {0}
<1>1. Sampled(Internet(u)) = Sampled(Internet(v)) /\ Sampled(Internet(v)) \subseteq Sampled(v.ping)
  <2>1. \A h \in Hosts : h \in Pinged
    BY DEF Pinged
  <2> QED BY <2>1, SampledAlike DEF Sampled, Internet, Worsened, Samples
<1>2. \A h \in Sampled(Internet(v)) :
         u.ping[h].loss \in 0..100 /\ v.ping[h].loss \in 0..100 /\ u.ping[h].loss >= v.ping[h].loss
  BY <1>1, SampledAlike, PingWorse
<1>3. losses(u) \in SUBSET (0..100) /\ losses(v) \in SUBSET (0..100)
  BY <1>1, <1>2
<1>4. \A m \in losses(v) : \E n \in losses(u) : n >= m
  BY <1>1, <1>2
<1>5. losses(u) # {} /\ losses(v) # {}
  OBVIOUS
<1> HIDE DEF losses
<1>6. MostOf(losses(u)) \in losses(u) /\ \A m \in losses(u) : m <= MostOf(losses(u))
  BY <1>3, <1>5, MostIsGreatest
<1>7. MostOf(losses(v)) \in losses(v)
  BY <1>3, <1>5, MostIsGreatest
<1>8. MostOf(losses(u)) >= MostOf(losses(v))
  BY <1>3, <1>4, <1>6, <1>7
<1>9. MaxLoss(u) = MostOf(losses(u)) /\ MaxLoss(v) = MostOf(losses(v))
  BY DEF MaxLoss, losses
<1> QED BY <1>3, <1>6, <1>7, <1>8, <1>9

(* Of the rows that are read the worse view has the worse samples. *)
LEMMA RowsWorsen ==
    ASSUME NEW u, NEW v, Typed(u), Typed(v), Worsened(u, v), NEW targets
    PROVE  Worsened(ViewOf(u, targets), ViewOf(v, targets))
<1>1. \A w \in {u, v} : /\ ViewOf(w, targets).ping = [t \in Pinged |-> IF t \in targets THEN w.ping[t] ELSE Nothing]
                        /\ ViewOf(w, targets).dns = [t \in Lookups |-> IF t \in targets THEN w.dns[t] ELSE Nothing]
                        /\ ViewOf(w, targets).http = [t \in Services |-> IF t \in targets THEN w.http[t] ELSE Nothing]
  BY DEF Typed, ViewOf, Among
<1>2. Samples(ViewOf(u, targets)) /\ Samples(ViewOf(v, targets))
  BY SamplesAmong
<1> QED BY <1>1, <1>2 DEF Worsened, Lower

(* What of a verdict matters for the status. *)
LEMMA ReportedSigns ==
    ASSUME NEW severity, NEW category, NEW code, NEW about, NEW condition
    PROVE  LET S == Reported(Verdict(severity, category, code, about), condition)
           IN  /\ Bad(S) <=> (IF condition THEN severity \in {"warning", "critical"} ELSE FALSE)
               /\ Critical(S) <=> (IF condition THEN severity = "critical" ELSE FALSE)
<1> DEFINE x == Verdict(severity, category, code, about)
<1>1. x.severity = severity
  BY DEF Verdict
<1> HIDE DEF x
<1>2. CASE condition
  <2>1. Reported(x, condition) = {x}
    BY <1>2 DEF Reported
  <2> QED BY <1>1, <1>2, <2>1 DEF Bad, Critical, x
<1>3. CASE ~condition
  <2>1. Reported(x, condition) = {}
    BY <1>3 DEF Reported
  <2> QED BY <1>3, <2>1 DEF Bad, Critical, x
<1> QED BY <1>2, <1>3

LEMMA GradedSigns ==
    ASSUME NEW grades \in SUBSET {"warning", "critical"}, NEW category, NEW code, NEW about
    PROVE  LET S == {Verdict(grade, category, code, about) : grade \in grades}
           IN  (Bad(S) <=> grades # {}) /\ (Critical(S) <=> "critical" \in grades)
<1>1. \A grade \in grades : Verdict(grade, category, code, about).severity = grade
  BY DEF Verdict
<1> QED BY <1>1 DEF Bad, Critical

(* The gateway and the internet do not get better, and where the loss of the
   uplink is not reported any more, that of the gateway is. *)
LEMMA PingRulesSigns ==
    ASSUME NEW v
    PROVE  LET g == v.ping[Gateway]
               critical == \/ g # Nothing /\ GatewayUnstable(g)
                           \/ Sampled(Internet(v)) # {} /\ Up(Internet(v)) = {}
           IN  /\ Critical(PingRules(v)) <=> critical
               /\ Bad(PingRules(v)) <=> critical \/ (g # Nothing /\ g.up /\ g.loss = 0 /\ MaxLoss(v) > 3)
<1> DEFINE g == v.ping[Gateway]
           A == Reported(Verdict("critical", "gateway", "local_gateway_unstable", Gateway),
                         g # Nothing /\ GatewayUnstable(g))
           B == Reported(Verdict("warning", "wan", "upstream_packet_loss", ""),
                         g # Nothing /\ g.up /\ g.loss = 0 /\ MaxLoss(v) > 3)
           C == Reported(Verdict("critical", "wan", "internet_unreachable", ""),
                         Sampled(Internet(v)) # {} /\ Up(Internet(v)) = {})
<1>1. PingRules(v) = A \cup B \cup C
  BY DEF PingRules
<1>2. /\ Bad(A) <=> g # Nothing /\ GatewayUnstable(g)
      /\ Critical(A) <=> g # Nothing /\ GatewayUnstable(g)
  BY ReportedSigns
<1>3. /\ Bad(B) <=> g # Nothing /\ g.up /\ g.loss = 0 /\ MaxLoss(v) > 3
      /\ ~Critical(B)
  <2> DEFINE x == Verdict("warning", "wan", "upstream_packet_loss", "")
             b == g # Nothing /\ g.up /\ g.loss = 0 /\ MaxLoss(v) > 3
  <2>1. x.severity = "warning"
    BY DEF Verdict
  <2>2. CASE b
    <3>1. B = {x}
      BY <2>2 DEF Reported
    <3> HIDE DEF x, B
    <3> QED BY <2>1, <2>2, <3>1 DEF Bad, Critical
  <2>3. CASE ~b
    <3>1. B = {}
      BY <2>3 DEF Reported
    <3> HIDE DEF B
    <3> QED BY <2>3, <3>1 DEF Bad, Critical
  <2> QED BY <2>2, <2>3
<1>4. /\ Bad(C) <=> Sampled(Internet(v)) # {} /\ Up(Internet(v)) = {}
      /\ Critical(C) <=> Sampled(Internet(v)) # {} /\ Up(Internet(v)) = {}
  BY ReportedSigns
<1>5. /\ Bad(A \cup B \cup C) <=> Bad(A) \/ Bad(B) \/ Bad(C)
      /\ Critical(A \cup B \cup C) <=> Critical(A) \/ Critical(B) \/ Critical(C)
  BY JoinedSigns
<1> HIDE DEF A, B, C
<1> QED BY <1>1, <1>2, <1>3, <1>4, <1>5

LEMMA PingRulesRise ==
    ASSUME NEW u, NEW v, Worsened(u, v)
    PROVE  /\ Critical(PingRules(v)) => Critical(PingRules(u))
           /\ Bad(PingRules(v)) => Bad(PingRules(u))
<1> DEFINE g == v.ping[Gateway]
           h == u.ping[Gateway]
           lost(w) == Sampled(Internet(w)) # {} /\ Up(Internet(w)) = {}
<1>1. ASSUME g # Nothing
      PROVE  /\ h # Nothing
             /\ GatewayUnstable(g) => GatewayUnstable(h)
             /\ GatewayUnstable(h) \/ (h.up /\ h.loss = 0)
  <2>1. h # Nothing /\ h \in PingSamples /\ g \in PingSamples /\ Lower(h, g)
    <3>1. Gateway \in Pinged
      BY DEF Pinged
    <3>2. Gateway \in Sampled(v.ping)
      BY <1>1, <3>1 DEF Sampled, Worsened, Samples
    <3>3. Gateway \in Sampled(u.ping)
      BY <3>2, SampledAlike
    <3> QED BY <3>2, <3>3, SampledAlike DEF Sampled
  <2> HIDE DEF g, h
  <2>2. /\ h.up \in BOOLEAN /\ g.up \in BOOLEAN /\ (h.up => g.up)
        /\ h.loss \in 0..100 /\ g.loss \in 0..100 /\ h.loss >= g.loss
        /\ h.loss \notin 1..2 /\ g.loss \notin 1..2
        /\ h.latency \in Nat /\ g.latency \in Nat /\ (h.up => h.latency >= g.latency)
    BY <2>1, PingWorse
  <2>3. GatewayUnstable(g) => GatewayUnstable(h)
    BY <2>2 DEF GatewayUnstable
  <2>4. GatewayUnstable(h) \/ (h.up /\ h.loss = 0)
    BY <2>2 DEF GatewayUnstable
  <2> QED BY <2>1, <2>3, <2>4
<1>2. lost(v) => lost(u)
  <2>1. \A k \in Hosts : k \in Pinged
    BY DEF Pinged
  <2>2. Sampled(Internet(u)) = Sampled(Internet(v))
    BY <2>1, SampledAlike DEF Sampled, Internet, Worsened, Samples
  <2>3. ASSUME NEW k \in Up(Internet(u)) PROVE k \in Up(Internet(v))
    <3>1. k \in Hosts /\ k \in Sampled(v.ping) /\ u.ping[k].up
      BY <2>1, <2>2, <2>3 DEF Up, Sampled, Internet, Worsened, Samples
    <3>2. v.ping[k].up
      BY <3>1, SampledAlike, PingWorse
    <3> QED BY <3>1, <3>2 DEF Up, Sampled, Internet
  <2> QED BY <2>2, <2>3
<1>3. MaxLoss(v) > 3 => MaxLoss(u) > 3
  BY LossRises
<1>4. /\ Critical(PingRules(v)) <=> (g # Nothing /\ GatewayUnstable(g)) \/ lost(v)
      /\ Bad(PingRules(v)) <=> \/ (g # Nothing /\ GatewayUnstable(g)) \/ lost(v)
                               \/ (g # Nothing /\ g.up /\ g.loss = 0 /\ MaxLoss(v) > 3)
  BY PingRulesSigns
<1>5. /\ Critical(PingRules(u)) <=> (h # Nothing /\ GatewayUnstable(h)) \/ lost(u)
      /\ Bad(PingRules(u)) <=> \/ (h # Nothing /\ GatewayUnstable(h)) \/ lost(u)
                               \/ (h # Nothing /\ h.up /\ h.loss = 0 /\ MaxLoss(u) > 3)
  BY PingRulesSigns
<1> HIDE DEF g, h, lost
<1> QED BY <1>1, <1>2, <1>3, <1>4, <1>5

(* A service that can be found fault with still can be. *)
Faulty(r) == \/ ~r.up \/ r.duration > 3000
             \/ ~r.tls \/ r.days \in 1..14

LEMMA ServiceRulesSigns ==
    ASSUME NEW v
    PROVE  Bad(ServiceRules(v)) <=> \E s \in Sampled(v.http) : Faulty(v.http[s])
<1>1. ASSUME Bad(ServiceRules(v)) PROVE \E s \in Sampled(v.http) : Faulty(v.http[s])
  BY <1>1, ServiceRulesAre DEF Bad, Faulty
<1>2. ASSUME NEW s \in Sampled(v.http), Faulty(v.http[s]) PROVE Bad(ServiceRules(v))
  <2> DEFINE r == v.http[s]
             A == Reported(Verdict("warning", "service", "service_down", s), ~r.up)
             B == Reported(Verdict("warning", "service", "service_slow", s), r.up /\ r.duration > 3000)
             C == Reported(Verdict("critical", "service", "tls_invalid", s), ~r.tls)
             D == Reported(Verdict("warning", "service", "tls_expiring", s), r.tls /\ r.days \in 1..14)
  <2>1. A \cup B \cup C \cup D \subseteq ServiceRules(v)
    BY DEF ServiceRules
  <2>2. /\ ~r.up => Bad(A)
        /\ r.up /\ r.duration > 3000 => Bad(B)
        /\ ~r.tls => Bad(C)
        /\ r.tls /\ r.days \in 1..14 => Bad(D)
    <3>1. \A severity \in {"warning", "critical"} : \A category, code :
             Bad({Verdict(severity, category, code, s)})
      BY DEF Verdict, Bad
    <3>2. /\ ~r.up => A = {Verdict("warning", "service", "service_down", s)}
          /\ r.up /\ r.duration > 3000 => B = {Verdict("warning", "service", "service_slow", s)}
          /\ ~r.tls => C = {Verdict("critical", "service", "tls_invalid", s)}
          /\ r.tls /\ r.days \in 1..14 => D = {Verdict("warning", "service", "tls_expiring", s)}
      BY DEF Reported
    <3> HIDE DEF A, B, C, D, r
    <3> QED BY <3>1, <3>2
  <2>3. Faulty(r)
    BY <1>2
  <2> HIDE DEF A, B, C, D, r
  <2>4. Bad(A) \/ Bad(B) \/ Bad(C) \/ Bad(D)
    BY <2>2, <2>3 DEF Faulty
  <2> QED BY <2>1, <2>4 DEF Bad
<1> QED BY <1>1, <1>2

LEMMA ServiceRulesRise ==
    ASSUME NEW u, NEW v, Worsened(u, v)
    PROVE  Bad(ServiceRules(v)) => Bad(ServiceRules(u))
<1>1. ASSUME NEW s \in Sampled(v.http), Faulty(v.http[s]) PROVE Faulty(u.http[s])
  <2>1. /\ u.http[s] \in HTTPSamples /\ v.http[s] \in HTTPSamples /\ Lower(u.http[s], v.http[s])
    BY SampledAlike
  <2> QED BY <1>1, <2>1, HTTPWorse DEF Faulty
<1> QED BY <1>1, ServiceRulesSigns, SampledAlike

(* A rule about lookups needs one that failed. *)
LEMMA DNSRulesNeed ==
    ASSUME NEW v, Samples(v), DNSRules(v) # {}
    PROVE  \E t \in Sampled(v.dns) : ~v.dns[t].up
<1>1. Below(SystemDNS(v), 90)
  BY DEF DNSRules, Reported
<1>2. SystemDNS(v).ok \in Nat /\ SystemDNS(v).of \in Nat \ {0}
      /\ (SystemDNS(v).ok < SystemDNS(v).of => \E t \in Sampled(v.dns) : ~v.dns[t].up)
  BY SharesTyped DEF SystemDNS
<1>3. SystemDNS(v).ok < SystemDNS(v).of
  BY <1>1, <1>2 DEF Below
<1> QED BY <1>2, <1>3

-----------------------------------------------------------------------------
(* The thresholds.  A higher value reaches no fewer of them. *)
LEMMA LimitsTyped == ASSUME NEW t PROVE ThresholdFor(t) \in [Limits -> Nat]
<1>1. CASE t \in DOMAIN PerTarget
  <2>1. PerTarget[t] \in [Limits -> Nat] /\ Global \in [Limits -> Nat]
    BY <1>1, HealthConstants
  <2>2. Merged(Global, PerTarget[t]) \in [Limits -> Nat]
    BY <2>1 DEF Merged
  <2> QED BY <1>1, <2>2 DEF ThresholdFor
<1>2. CASE t \notin DOMAIN PerTarget
  BY <1>2, HealthConstants DEF ThresholdFor
<1> QED BY <1>1, <1>2

LEMMA GradeIs ==
    ASSUME NEW set, NEW warning, NEW critical, NEW value
    PROVE  Grade(set, warning, critical, value) \in SUBSET {"warning", "critical"}
BY DEF Grade

LEMMA GradeRises ==
    ASSUME NEW set \in [Limits -> Nat], NEW warning \in Limits, NEW critical \in Limits,
           NEW higher \in Nat, NEW value \in Nat, higher >= value
    PROVE  LET was == Grade(set, warning, critical, value)
               now == Grade(set, warning, critical, higher)
           IN  (was # {} => now # {}) /\ ("critical" \in was => "critical" \in now)
<1>1. \A limit \in Limits : Reached(set[limit], value) => Reached(set[limit], higher)
  BY DEF Reached
<1> QED BY <1>1 DEF Grade

(* The sum of some of the earlier values, which Functions computes by recursion
   on the set of their indices.  The recursion has a solution: those for the sets
   with up to n members agree, as each is one step of it away from the last. *)
Summing(f, T, g) ==
    g = [s \in SUBSET T |-> IF s = {} THEN 0
                            ELSE LET i == CHOOSE x \in s : TRUE IN f[i] + g[s \ {i}]]

LEMMA SumExists ==
    ASSUME NEW T, IsFiniteSet(T), NEW f
    PROVE  \E g : Summing(f, T, g)
<1> DEFINE small(n) == {s \in SUBSET T : Cardinality(s) <= n}
           next(g, n) == [s \in small(n) |-> IF s = {} THEN 0
                            ELSE LET i == CHOOSE x \in s : TRUE IN f[i] + g[s \ {i}]]
           fails == {n \in Nat : ~\E g : g = next(g, n)}
<1>1. \A s \in SUBSET T : IsFiniteSet(s) /\ Cardinality(s) \in Nat
  BY FS_Subset, FS_CardinalityType
<1>2. \A s \in SUBSET T : s # {} =>
         LET i == CHOOSE x \in s : TRUE
         IN  s \ {i} \in SUBSET T /\ Cardinality(s \ {i}) = Cardinality(s) - 1
  BY <1>1, FS_RemoveElement
<1>3. fails = {}
  <2> SUFFICES ASSUME fails # {} PROVE FALSE
    OBVIOUS
  <2>1. PICK n \in fails : \A m \in fails : n <= m
    <3> HIDE DEF next
    <3>1. fails \subseteq Nat OBVIOUS
    <3> HIDE DEF fails
    <3> QED BY <3>1, LeastExists
  <2>2. n \in Nat /\ ~\E g : g = next(g, n)
    BY <2>1
  <2>3. n # 0
    <3>1. \A s \in small(0) : s = {}
      BY <1>1, FS_EmptySet
    <3>2. [s \in small(0) |-> 0] = next([s \in small(0) |-> 0], 0)
      BY <3>1
    <3> QED BY <2>2, <3>2
  <2>4. PICK g : g = next(g, n - 1)
    <3>1. n - 1 \in Nat
      BY <2>2, <2>3
    <3>2. n - 1 \notin fails
      <4> HIDE DEF fails
      <4> QED BY <2>1, <2>2, <3>1
    <3> HIDE DEF next
    <3> QED BY <3>1, <3>2
  <2>5. \A s \in small(n) : s # {} =>
           LET i == CHOOSE x \in s : TRUE IN next(g, n)[s \ {i}] = g[s \ {i}]
    <3> SUFFICES ASSUME NEW s \in small(n), s # {}
                 PROVE  LET i == CHOOSE x \in s : TRUE IN next(g, n)[s \ {i}] = g[s \ {i}]
      OBVIOUS
    <3> DEFINE u == s \ {CHOOSE x \in s : TRUE}
    <3>1. u \in small(n - 1) /\ u \in small(n)
      BY <1>1, <1>2, <2>2
    <3> HIDE DEF u
    <3>2. g[u] = IF u = {} THEN 0 ELSE LET i == CHOOSE x \in u : TRUE IN f[i] + g[u \ {i}]
      BY <2>4, <3>1
    <3>3. next(g, n)[u] = g[u]
      BY <3>1, <3>2
    <3> QED BY <3>3 DEF u
  <2>6. next(g, n) = next(next(g, n), n)
    <3> DEFINE h == next(g, n)
    <3>1. \A s \in small(n) : s # {} =>
             LET i == CHOOSE x \in s : TRUE IN h[s \ {i}] = g[s \ {i}]
      BY <2>5
    <3>2. h = next(g, n) OBVIOUS
    <3> HIDE DEF h
    <3>3. next(g, n) = next(h, n)
      BY <3>1
    <3> QED BY <3>2, <3>3
  <2> QED BY <2>2, <2>6
<1>4. small(Cardinality(T)) = SUBSET T
  BY <1>1, FS_Subset, FS_CardinalityType
<1>5. Cardinality(T) \in Nat
  BY FS_CardinalityType
<1>6. PICK g : g = next(g, Cardinality(T))
  BY <1>3, <1>5
<1>7. Summing(f, T, g)
  BY <1>4, <1>6 DEF Summing
<1> QED BY <1>7

LEMMA SumIsNatural ==
    ASSUME NEW T, IsFiniteSet(T), NEW f, \A i \in T : f[i] \in Nat
    PROVE  SumFunctionOnSet(f, T) \in Nat
<1> DEFINE sum == CHOOSE g : Summing(f, T, g)
           fails == {n \in Nat : \E s \in SUBSET T : Cardinality(s) = n /\ sum[s] \notin Nat}
<1>1. SumFunctionOnSet(f, T) = sum[T]
  BY DEF SumFunctionOnSet, FoldFunctionOnSet, MapThenFoldSet, Summing
<1>2. Summing(f, T, sum)
  BY SumExists
<1> HIDE DEF sum
<1>3. \A s \in SUBSET T : IsFiniteSet(s) /\ Cardinality(s) \in Nat
  BY FS_Subset, FS_CardinalityType
<1>4. fails = {}
  <2> SUFFICES ASSUME fails # {} PROVE FALSE
    OBVIOUS
  <2>1. PICK n \in fails : \A m \in fails : n <= m
    <3>1. fails \subseteq Nat OBVIOUS
    <3> HIDE DEF fails
    <3> QED BY <3>1, LeastExists
  <2>2. PICK s \in SUBSET T : Cardinality(s) = n /\ sum[s] \notin Nat
    BY <2>1
  <2> DEFINE i == CHOOSE x \in s : TRUE
  <2>3. sum[s] = IF s = {} THEN 0 ELSE f[i] + sum[s \ {i}]
    BY <1>2 DEF Summing
  <2>4. s # {} /\ i \in s
    BY <2>2, <2>3
  <2> HIDE DEF i
  <2>5. s \ {i} \in SUBSET T /\ Cardinality(s \ {i}) = n - 1 /\ n \in Nat
    BY <1>3, <2>2, <2>4, FS_RemoveElement
  <2>6. n - 1 \in Nat /\ n - 1 \notin fails
    BY <1>3, <2>1, <2>5
  <2>7. sum[s \ {i}] \in Nat
    BY <2>5, <2>6
  <2> QED BY <2>2, <2>3, <2>4, <2>7
<1>5. sum[T] \in Nat
  BY <1>3, <1>4
<1> QED BY <1>1, <1>5

(* What the earlier values that are kept amount to. *)
LEMMA KeptIsNatural ==
    ASSUME NEW past \in Pasts \cup {<<>>}
    PROVE  Cardinality(Kept(past)) \in Nat /\ SumFunctionOnSet(past, Kept(past)) \in Nat
<1>1. past \in Seq(Nat)
  <2>1. CASE past \in Pasts
    BY <2>1, SampleTypes, Zenon
  <2>2. CASE past = <<>>
    BY <2>2
  <2> QED BY <2>1, <2>2, Zenon
<1>2. DOMAIN past = 1..Len(past) /\ Len(past) \in Nat /\ \A i \in DOMAIN past : past[i] \in Nat
  BY <1>1
<1>3. Kept(past) \subseteq DOMAIN past
  BY DEF Kept
<1>4. IsFiniteSet(Kept(past))
  <2>1. IsFiniteSet(1..Len(past))
    BY <1>2, FS_Interval
  <2> QED BY <1>2, <1>3, <2>1, FS_Subset
<1>5. SumFunctionOnSet(past, Kept(past)) \in Nat
  BY <1>2, <1>3, <1>4, SumIsNatural
<1> QED BY <1>4, <1>5, FS_CardinalityType

LEMMA BaselineRises ==
    ASSUME NEW past \in Pasts \cup {<<>>}, NEW percent \in Nat,
           NEW higher \in Nat, NEW value \in Nat, higher >= value, AboveBaseline(value, past, percent)
    PROVE  AboveBaseline(higher, past, percent)
<1> DEFINE n == Cardinality(Kept(past))
           base == SumFunctionOnSet(past, Kept(past)) * (100 + percent)
           more == higher - value
<1>1. n \in Nat /\ SumFunctionOnSet(past, Kept(past)) \in Nat
  BY KeptIsNatural
<1>2. base \in Nat /\ more \in Nat /\ higher = value + more
  <2> HIDE DEF n
  <2> QED BY <1>1
<1>3. value * 100 * n > base
  BY DEF AboveBaseline
<1>4. percent > 0 /\ Len(past) >= 5
  BY DEF AboveBaseline
<1> HIDE DEF n, base, more
<1>5. higher * 100 * n = value * 100 * n + more * 100 * n /\ more * 100 * n \in Nat /\ value * 100 * n \in Nat
  BY <1>1, <1>2
<1>6. higher * 100 * n > base
  BY <1>2, <1>3, <1>5
<1> QED BY <1>4, <1>6 DEF AboveBaseline, n, base

(* What the thresholds find bad, and what critical, in one sample. *)
BadPing(r, past, set) ==
    \/ ~r.up
    \/ Grade(set, "lossWarning", "lossCritical", r.loss) # {}
    \/ Grade(set, "latencyWarning", "latencyCritical", r.latency) # {}
    \/ AboveBaseline(r.latency, past, set["latencyRelative"])
CriticalPing(r, set) ==
    \/ ~r.up
    \/ "critical" \in Grade(set, "lossWarning", "lossCritical", r.loss)
    \/ "critical" \in Grade(set, "latencyWarning", "latencyCritical", r.latency)


LEMMA PingThresholdsSigns ==
    ASSUME NEW v
    PROVE  /\ Bad(PingThresholds(v)) <=>
                \E t \in Sampled(v.ping) : BadPing(v.ping[t], v.past[t], ThresholdFor(t))
           /\ Critical(PingThresholds(v)) <=>
                \E t \in Sampled(v.ping) : CriticalPing(v.ping[t], ThresholdFor(t))
<1> DEFINE grades(t) == Grade(ThresholdFor(t), "lossWarning", "lossCritical", v.ping[t].loss) \cup
                        Grade(ThresholdFor(t), "latencyWarning", "latencyCritical", v.ping[t].latency)
           graded(t) == {Verdict(grade, "wan", "ping_threshold", t) : grade \in grades(t)}
           slower(t) == Reported(Verdict("warning", "wan", "ping_threshold", t),
                          AboveBaseline(v.ping[t].latency, v.past[t], ThresholdFor(t)["latencyRelative"]))
           found(t) == IF ~v.ping[t].up THEN {Verdict("critical", "wan", "ping_target_down", t)}
                       ELSE graded(t) \cup slower(t)
<1>1. PingThresholds(v) = UNION {found(t) : t \in Sampled(v.ping)}
  BY DEF PingThresholds
<1>2. ASSUME NEW t
      PROVE  /\ Bad(found(t)) <=> BadPing(v.ping[t], v.past[t], ThresholdFor(t))
             /\ Critical(found(t)) <=> CriticalPing(v.ping[t], ThresholdFor(t))
  <2>1. grades(t) \in SUBSET {"warning", "critical"}
    BY GradeIs
  <2>2. (Bad(graded(t)) <=> grades(t) # {}) /\ (Critical(graded(t)) <=> "critical" \in grades(t))
    <3> HIDE DEF grades
    <3> QED BY <2>1, GradedSigns
  <2>3. /\ Bad(slower(t)) <=> AboveBaseline(v.ping[t].latency, v.past[t], ThresholdFor(t)["latencyRelative"])
        /\ ~Critical(slower(t))
    BY ReportedSigns
  <2>4. CASE ~v.ping[t].up
    <3>1. found(t) = {Verdict("critical", "wan", "ping_target_down", t)}
      BY <2>4
    <3>2. Verdict("critical", "wan", "ping_target_down", t).severity = "critical"
      BY DEF Verdict
    <3> HIDE DEF found
    <3> QED BY <2>4, <3>1, <3>2 DEF Bad, Critical, BadPing, CriticalPing
  <2>5. CASE ~~v.ping[t].up
    <3>1. found(t) = graded(t) \cup slower(t)
      BY <2>5
    <3>2. /\ Bad(graded(t) \cup slower(t)) <=> Bad(graded(t)) \/ Bad(slower(t))
          /\ Critical(graded(t) \cup slower(t)) <=> Critical(graded(t)) \/ Critical(slower(t))
      BY JoinedSigns
    <3> HIDE DEF found, graded, slower
    <3> QED BY <2>2, <2>3, <2>5, <3>1, <3>2 DEF BadPing, CriticalPing
  <2> QED BY <2>4, <2>5
<1> HIDE DEF found
<1>3. /\ Bad(PingThresholds(v)) <=> \E t \in Sampled(v.ping) : Bad(found(t))
      /\ Critical(PingThresholds(v)) <=> \E t \in Sampled(v.ping) : Critical(found(t))
  BY <1>1 DEF Bad, Critical
<1> QED BY <1>2, <1>3

LEMMA PingThresholdsRise ==
    ASSUME NEW u, NEW v, Worsened(u, v), u.past = v.past,
           \A t \in Pinged : v.past[t] \in Pasts \cup {<<>>}
    PROVE  /\ Bad(PingThresholds(v)) => Bad(PingThresholds(u))
           /\ Critical(PingThresholds(v)) => Critical(PingThresholds(u))
<1>1. ASSUME NEW t \in Sampled(v.ping)
      PROVE  /\ BadPing(v.ping[t], v.past[t], ThresholdFor(t)) => BadPing(u.ping[t], u.past[t], ThresholdFor(t))
             /\ CriticalPing(v.ping[t], ThresholdFor(t)) => CriticalPing(u.ping[t], ThresholdFor(t))
  <2> DEFINE s == u.ping[t]
             r == v.ping[t]
             set == ThresholdFor(t)
             past == v.past[t]
  <2>1. t \in Pinged /\ s \in PingSamples /\ r \in PingSamples /\ Lower(s, r)
    BY SampledAlike
  <2>2. set \in [Limits -> Nat]
    BY LimitsTyped
  <2>3. past \in Pasts \cup {<<>>}
    BY <2>1
  <2> HIDE DEF s, r, set, past
  <2>4. /\ s.up \in BOOLEAN /\ r.up \in BOOLEAN /\ (s.up => r.up)
        /\ s.loss \in Nat /\ r.loss \in Nat /\ s.loss >= r.loss
        /\ s.latency \in Nat /\ r.latency \in Nat /\ (s.up => s.latency >= r.latency)
    <3>1. \A n \in 0..100 : n \in Nat
      OBVIOUS
    <3>2. /\ s.up \in BOOLEAN /\ r.up \in BOOLEAN /\ (s.up => r.up)
          /\ s.loss \in 0..100 /\ r.loss \in 0..100 /\ s.loss >= r.loss
          /\ s.latency \in Nat /\ r.latency \in Nat /\ (s.up => s.latency >= r.latency)
      BY <2>1, PingWorse
    <3> QED BY <3>1, <3>2
  <2>5. {"lossWarning", "lossCritical", "latencyWarning", "latencyCritical", "latencyRelative"} \subseteq Limits
    BY DEF Limits
  <2>6. CASE ~s.up
    BY <2>6 DEF BadPing, CriticalPing, s, r, set, past
  <2>7. CASE ~~s.up
    <3>1. s.latency >= r.latency /\ ~~r.up
      BY <2>4, <2>7
    <3>2. /\ Grade(set, "lossWarning", "lossCritical", r.loss) # {} =>
                Grade(set, "lossWarning", "lossCritical", s.loss) # {}
          /\ "critical" \in Grade(set, "lossWarning", "lossCritical", r.loss) =>
                "critical" \in Grade(set, "lossWarning", "lossCritical", s.loss)
      BY <2>2, <2>4, <2>5, GradeRises
    <3>3. /\ Grade(set, "latencyWarning", "latencyCritical", r.latency) # {} =>
                Grade(set, "latencyWarning", "latencyCritical", s.latency) # {}
          /\ "critical" \in Grade(set, "latencyWarning", "latencyCritical", r.latency) =>
                "critical" \in Grade(set, "latencyWarning", "latencyCritical", s.latency)
      BY <2>2, <2>4, <2>5, <3>1, GradeRises
    <3>4. set["latencyRelative"] \in Nat
      BY <2>2, <2>5
    <3>5. AboveBaseline(r.latency, past, set["latencyRelative"]) =>
             AboveBaseline(s.latency, past, set["latencyRelative"])
      BY <2>3, <2>4, <3>1, <3>4, BaselineRises
    <3>6. u.past[t] = past
      BY DEF past
    <3> QED BY <3>1, <3>2, <3>3, <3>5, <3>6 DEF BadPing, CriticalPing, s, r, set, past
  <2> QED BY <2>6, <2>7
<1> QED BY <1>1, SampledAlike, PingThresholdsSigns

BadLookup(r, set) == ~r.up \/ Grade(set, "dnsWarning", "dnsCritical", r.duration) # {}

LEMMA DNSThresholdsSigns ==
    ASSUME NEW v
    PROVE  Bad(DNSThresholds(v)) <=> \E t \in Sampled(v.dns) : BadLookup(v.dns[t], ThresholdFor(t))
<1> DEFINE grades(t) == Grade(ThresholdFor(t), "dnsWarning", "dnsCritical", v.dns[t].duration)
           graded(t) == {Verdict(grade, "dns", "dns_threshold", t) : grade \in grades(t)}
           found(t) == IF ~v.dns[t].up THEN {Verdict("warning", "dns", "dns_lookup_failed", t)}
                       ELSE graded(t)
<1>1. DNSThresholds(v) = UNION {found(t) : t \in Sampled(v.dns)}
  BY DEF DNSThresholds
<1>2. ASSUME NEW t PROVE Bad(found(t)) <=> BadLookup(v.dns[t], ThresholdFor(t))
  <2>1. Bad(graded(t)) <=> grades(t) # {}
    <3>1. grades(t) \in SUBSET {"warning", "critical"}
      BY GradeIs
    <3> HIDE DEF grades
    <3> QED BY <3>1, GradedSigns
  <2>2. CASE ~v.dns[t].up
    <3>1. found(t) = {Verdict("warning", "dns", "dns_lookup_failed", t)}
      BY <2>2
    <3>2. Verdict("warning", "dns", "dns_lookup_failed", t).severity = "warning"
      BY DEF Verdict
    <3> HIDE DEF found
    <3> QED BY <2>2, <3>1, <3>2 DEF Bad, BadLookup
  <2>3. CASE ~~v.dns[t].up
    <3>1. found(t) = graded(t)
      BY <2>3
    <3> HIDE DEF found, graded
    <3> QED BY <2>1, <2>3, <3>1 DEF BadLookup
  <2> QED BY <2>2, <2>3
<1> HIDE DEF found
<1>3. Bad(DNSThresholds(v)) <=> \E t \in Sampled(v.dns) : Bad(found(t))
  BY <1>1 DEF Bad
<1> QED BY <1>2, <1>3

LEMMA DNSThresholdsRise ==
    ASSUME NEW u, NEW v, Worsened(u, v)
    PROVE  Bad(DNSThresholds(v)) => Bad(DNSThresholds(u))
<1>1. ASSUME NEW t \in Sampled(v.dns)
      PROVE  BadLookup(v.dns[t], ThresholdFor(t)) => BadLookup(u.dns[t], ThresholdFor(t))
  <2> DEFINE s == u.dns[t]
             r == v.dns[t]
             set == ThresholdFor(t)
  <2>1. s \in DNSSamples /\ r \in DNSSamples /\ Lower(s, r)
    BY SampledAlike
  <2>2. set \in [Limits -> Nat] /\ "dnsWarning" \in Limits /\ "dnsCritical" \in Limits
    BY LimitsTyped DEF Limits
  <2> HIDE DEF s, r, set
  <2>3. /\ s.up \in BOOLEAN /\ r.up \in BOOLEAN
        /\ s.duration \in Nat /\ r.duration \in Nat
        /\ s.up => r.up /\ s.duration >= r.duration
    BY <2>1, DNSWorse
  <2>4. s.up => /\ ~~r.up
                /\ Grade(set, "dnsWarning", "dnsCritical", r.duration) # {} =>
                      Grade(set, "dnsWarning", "dnsCritical", s.duration) # {}
    BY <2>2, <2>3, GradeRises
  <2> QED BY <2>4 DEF BadLookup, s, r, set
<1> QED BY <1>1, SampledAlike, DNSThresholdsSigns

BadRequest(r, past, set) == SlowGrade(r, past, set) # {} \/ ExpiryGrade(r, set) # {}

LEMMA HTTPThresholdsSigns ==
    ASSUME NEW v
    PROVE  Bad(HTTPThresholds(v)) <=>
             \E t \in Sampled(v.http) : BadRequest(v.http[t], v.past[t], ThresholdFor(t))
<1> DEFINE slow(t) == SlowGrade(v.http[t], v.past[t], ThresholdFor(t))
           ends(t) == ExpiryGrade(v.http[t], ThresholdFor(t))
           slower(t) == {Verdict(grade, "service", "http_threshold", t) : grade \in slow(t)}
           ending(t) == {Verdict(grade, "service", "tls_expiry_threshold", t) : grade \in ends(t)}
<1>1. HTTPThresholds(v) = UNION {slower(t) \cup ending(t) : t \in Sampled(v.http)}
  BY DEF HTTPThresholds
<1>2. ASSUME NEW t
      PROVE  Bad(slower(t) \cup ending(t)) <=> BadRequest(v.http[t], v.past[t], ThresholdFor(t))
  <2>1. slow(t) \in SUBSET {"warning", "critical"} /\ ends(t) \in SUBSET {"warning", "critical"}
    BY GradeIs DEF SlowGrade, ExpiryGrade
  <2>2. Bad(slower(t)) <=> slow(t) # {}
    <3> HIDE DEF slow
    <3> QED BY <2>1, GradedSigns
  <2>3. Bad(ending(t)) <=> ends(t) # {}
    <3> HIDE DEF ends
    <3> QED BY <2>1, GradedSigns
  <2>4. Bad(slower(t) \cup ending(t)) <=> Bad(slower(t)) \/ Bad(ending(t))
    BY JoinedSigns
  <2> HIDE DEF slower, ending
  <2> QED BY <2>2, <2>3, <2>4 DEF BadRequest
<1> HIDE DEF slower, ending
<1>3. Bad(HTTPThresholds(v)) <=> \E t \in Sampled(v.http) : Bad(slower(t) \cup ending(t))
  BY <1>1 DEF Bad
<1> QED BY <1>2, <1>3

(* A request that got slower is; one that lost its certificate has none that
   ends. *)
LEMMA RequestRises ==
    ASSUME NEW s \in HTTPSamples, NEW r \in HTTPSamples, Lower(s, r), s.tls,
           NEW past \in Pasts \cup {<<>>}, NEW set \in [Limits -> Nat],
           BadRequest(r, past, set), s.up
    PROVE  BadRequest(s, past, set)
<1>1. /\ s.tls \in BOOLEAN /\ r.tls \in BOOLEAN
      /\ s.duration \in Nat /\ r.duration \in Nat /\ s.days \in Nat /\ r.days \in Nat
      /\ s.duration >= r.duration
      /\ s.days = r.days \/ s.days \in 1..r.days
  BY HTTPWorse
<1>2. {"httpWarning", "httpCritical", "httpRelative", "tlsWarning", "tlsCritical"} \subseteq Limits
  BY DEF Limits
<1>3. CASE SlowGrade(r, past, set) # {}
  <2>1. Grade(set, "httpWarning", "httpCritical", r.duration) # {} =>
           Grade(set, "httpWarning", "httpCritical", s.duration) # {}
    BY <1>1, <1>2, GradeRises
  <2>2. set["httpRelative"] \in Nat
    BY <1>2
  <2>3. AboveBaseline(r.duration, past, set["httpRelative"]) => AboveBaseline(s.duration, past, set["httpRelative"])
    BY <1>1, <2>2, BaselineRises
  <2>4. SlowGrade(s, past, set) # {}
    BY <1>3, <2>1, <2>3 DEF SlowGrade
  <2> QED BY <2>4 DEF BadRequest
<1>4. CASE ExpiryGrade(r, set) # {}
  <2>1. r.days > 0 /\ s.days > 0 /\ s.days <= r.days
    BY <1>1, <1>4 DEF ExpiryGrade
  <2>2. set["tlsWarning"] \in Nat /\ set["tlsCritical"] \in Nat
    BY <1>2
  <2>3. \E limit \in {"tlsWarning", "tlsCritical"} : set[limit] > 0 /\ r.days <= set[limit]
    BY <1>4 DEF ExpiryGrade
  <2>4. \E limit \in {"tlsWarning", "tlsCritical"} : set[limit] > 0 /\ s.days <= set[limit]
    BY <1>1, <2>1, <2>2, <2>3
  <2>5. ExpiryGrade(s, set) # {}
    <3>1. s.tls /\ s.days \in Nat /\ ~(s.days <= 0)
      BY <1>1, <2>1
    <3>2. \/ set["tlsCritical"] > 0 /\ s.days <= set["tlsCritical"]
          \/ set["tlsWarning"] > 0 /\ s.days <= set["tlsWarning"]
      BY <2>4
    <3> QED BY <3>1, <3>2 DEF ExpiryGrade
  <2> QED BY <2>5 DEF BadRequest
<1> QED BY <1>3, <1>4 DEF BadRequest

(* What worsening changes of a view: samples only, and those of a service only
   by a request, whose row is among the newest. *)
OnlyWorse(u, v) ==
    /\ Typed(u) /\ Typed(v) /\ Worsened(u, v)
    /\ u.past = v.past /\ u.checks = v.checks /\ u.new = v.new /\ u.missing = v.missing
    /\ u.near = v.near /\ u.far = v.far /\ Later(u) = ViewOf(u, u.far) /\ Later(v) = ViewOf(v, v.far)
    /\ \A t \in Services : u.http[t] # v.http[t] => t \in v.near

LEMMA RowsOf ==
    ASSUME NEW v, Typed(v), NEW targets
    PROVE  /\ ViewOf(v, targets).ping = Among(v.ping, targets)
           /\ ViewOf(v, targets).dns = Among(v.dns, targets)
           /\ ViewOf(v, targets).http = Among(v.http, targets)
           /\ ViewOf(v, targets).past = v.past
           /\ Sampled(Among(v.ping, targets)) = Sampled(v.ping) \cap targets
           /\ Sampled(Among(v.dns, targets)) = Sampled(v.dns) \cap targets
           /\ Sampled(Among(v.http, targets)) = Sampled(v.http) \cap targets
           /\ \A t \in Sampled(v.ping) \cap targets : Among(v.ping, targets)[t] = v.ping[t]
           /\ \A t \in Sampled(v.dns) \cap targets : Among(v.dns, targets)[t] = v.dns[t]
           /\ \A t \in Sampled(v.http) \cap targets : Among(v.http, targets)[t] = v.http[t]
BY DEF ViewOf, Among, Sampled, Typed

LEMMA HTTPRises ==
    ASSUME NEW u, NEW v, OnlyWorse(u, v), Bad(HTTPThresholds(ViewOf(v, v.far)))
    PROVE  Bad(HTTPThresholds(ViewOf(u, u.far))) \/ Bad(ServiceRules(ViewOf(u, u.near)))
<1>1. PICK t \in Sampled(ViewOf(v, v.far).http) :
         BadRequest(ViewOf(v, v.far).http[t], ViewOf(v, v.far).past[t], ThresholdFor(t))
  BY HTTPThresholdsSigns
<1>2. /\ t \in Sampled(v.http) /\ t \in v.far
      /\ BadRequest(v.http[t], v.past[t], ThresholdFor(t))
  BY <1>1, RowsOf DEF OnlyWorse
<1>3. /\ t \in Sampled(u.http) /\ t \in Services
      /\ u.http[t] \in HTTPSamples /\ v.http[t] \in HTTPSamples /\ Lower(u.http[t], v.http[t])
  BY <1>2, SampledAlike DEF OnlyWorse
<1>4. /\ t \in Sampled(ViewOf(u, u.far).http)
      /\ ViewOf(u, u.far).http[t] = u.http[t] /\ ViewOf(u, u.far).past[t] = v.past[t]
  BY <1>2, <1>3, RowsOf DEF OnlyWorse
<1>5. CASE u.http[t] = v.http[t]
  BY <1>2, <1>4, <1>5, HTTPThresholdsSigns
<1>6. CASE t \in v.near /\ (~u.http[t].up \/ ~u.http[t].tls)
  <2>1. t \in Sampled(ViewOf(u, u.near).http) /\ ViewOf(u, u.near).http[t] = u.http[t]
    BY <1>3, <1>6, RowsOf DEF OnlyWorse
  <2>2. Faulty(u.http[t])
    BY <1>6 DEF Faulty
  <2> QED BY <2>1, <2>2, ServiceRulesSigns
<1>7. CASE u.http[t].up /\ u.http[t].tls
  <2>1. v.past[t] \in Pasts \cup {<<>>}
    BY <1>3 DEF OnlyWorse, Typed, Targets
  <2>2. BadRequest(u.http[t], v.past[t], ThresholdFor(t))
    BY <1>2, <1>3, <1>7, <2>1, LimitsTyped, RequestRises
  <2> QED BY <1>4, <2>2, HTTPThresholdsSigns
<1>8. u.http[t] # v.http[t] => t \in v.near
  BY <1>3 DEF OnlyWorse
<1>9. u.http[t].up \in BOOLEAN /\ u.http[t].tls \in BOOLEAN
  BY <1>3, HTTPWorse
<1> QED BY <1>5, <1>6, <1>7, <1>8, <1>9

LEMMA DNSRises ==
    ASSUME NEW u, NEW v, OnlyWorse(u, v), DNSRules(ViewOf(v, v.near)) # {}
    PROVE  Bad(DNSThresholds(ViewOf(u, u.far)))
<1>1. PICK t \in Sampled(ViewOf(v, v.near).dns) : ~ViewOf(v, v.near).dns[t].up
  BY SamplesAmong, DNSRulesNeed DEF OnlyWorse
<1>2. t \in Sampled(v.dns) /\ t \in v.near /\ ~v.dns[t].up
  BY <1>1, RowsOf DEF OnlyWorse
<1>3. t \in v.far
  BY <1>2, SampledAlike DEF OnlyWorse, Typed
<1>4. t \in Sampled(ViewOf(v, v.far).dns) /\ ~ViewOf(v, v.far).dns[t].up
  BY <1>2, <1>3, RowsOf DEF OnlyWorse
<1>5. Bad(DNSThresholds(ViewOf(v, v.far)))
  BY <1>4, DNSThresholdsSigns DEF BadLookup
<1> QED BY <1>5, RowsWorsen, DNSThresholdsRise DEF OnlyWorse

(* What is said stays bad. *)
LEMMA SaidRises ==
    ASSUME NEW u, NEW v, OnlyWorse(u, v), Bad(Said(v))
    PROVE  Bad(Said(u))
<1> DEFINE n(w) == ViewOf(w, w.near)
           f(w) == ViewOf(w, w.far)
<1>1. ASSUME NEW w, w = u \/ w = v
      PROVE  Bad(Said(w)) <=> \/ Bad(PingRules(n(w))) \/ Bad(DNSRules(n(w))) \/ Bad(ServiceRules(n(w)))
                              \/ Bad(InventorySays(w))
                              \/ Bad(PingThresholds(f(w))) \/ Bad(DNSThresholds(f(w)))
                              \/ Bad(HTTPThresholds(f(w)))
                              \/ Bad(ChecksSay(w))
  <2>1. Bad(RulesSay(w)) <=> Bad(PingRules(n(w))) \/ Bad(DNSRules(n(w))) \/ Bad(ServiceRules(n(w)))
    BY JoinedSigns DEF RulesSay
  <2>2. Bad(ThresholdsSay(w)) <=>
           Bad(PingThresholds(f(w))) \/ Bad(DNSThresholds(f(w))) \/ Bad(HTTPThresholds(f(w)))
    BY <1>1, JoinedSigns DEF ThresholdsSay, OnlyWorse
  <2>3. Bad(Said(w)) <=> \/ Bad(RulesSay(w)) \/ Bad(InventorySays(w))
                         \/ Bad(ThresholdsSay(w)) \/ Bad(ChecksSay(w))
    BY JoinedSigns DEF Said
  <2> HIDE DEF n, f
  <2> QED BY <2>1, <2>2, <2>3
<1>2. Worsened(n(u), n(v)) /\ Worsened(f(u), f(v)) /\ f(u).past = f(v).past
  BY RowsWorsen, RowsOf DEF OnlyWorse
<1>3. \A t \in Pinged : f(v).past[t] \in Pasts \cup {<<>>}
  BY RowsOf DEF OnlyWorse, Typed, Targets, Pinged
<1>4. InventorySays(u) = InventorySays(v) /\ ChecksSay(u) = ChecksSay(v)
  BY DEF InventorySays, ChecksSay, OnlyWorse
<1>5. Bad(DNSRules(n(v))) => Bad(DNSThresholds(f(u)))
  <2>1. Bad(DNSRules(n(v))) => DNSRules(n(v)) # {}
    BY DEF Bad
  <2> QED BY <2>1, DNSRises
<1>6. Bad(HTTPThresholds(f(v))) => Bad(HTTPThresholds(f(u))) \/ Bad(ServiceRules(n(u)))
  BY HTTPRises
<1> HIDE DEF n, f
<1>7. /\ Bad(PingRules(n(v))) => Bad(PingRules(n(u)))
      /\ Bad(ServiceRules(n(v))) => Bad(ServiceRules(n(u)))
      /\ Bad(PingThresholds(f(v))) => Bad(PingThresholds(f(u)))
      /\ Bad(DNSThresholds(f(v))) => Bad(DNSThresholds(f(u)))
  BY <1>2, <1>3, PingRulesRise, ServiceRulesRise, PingThresholdsRise, DNSThresholdsRise
<1> QED BY <1>1, <1>4, <1>5, <1>6, <1>7

(* And what is critical, while lookups and requests are as they were. *)
LEMMA CriticalRises ==
    ASSUME NEW u, NEW v, OnlyWorse(u, v), u.dns = v.dns, u.http = v.http, Critical(Said(v))
    PROVE  Critical(Said(u))
<1> DEFINE n(w) == ViewOf(w, w.near)
           f(w) == ViewOf(w, w.far)
           other(w) == (DNSRules(n(w)) \cup ServiceRules(n(w))) \cup
                       (DNSThresholds(f(w)) \cup HTTPThresholds(f(w))) \cup
                       (InventorySays(w) \cup ChecksSay(w))
<1>1. ASSUME NEW w, w = u \/ w = v
      PROVE  Critical(Said(w)) <=> \/ Critical(PingRules(n(w))) \/ Critical(PingThresholds(f(w)))
                                   \/ Critical(other(w))
  <2>1. Said(w) = (PingRules(n(w)) \cup PingThresholds(f(w))) \cup other(w)
    BY <1>1 DEF Said, RulesSay, ThresholdsSay, OnlyWorse
  <2>2. Critical(PingRules(n(w)) \cup PingThresholds(f(w))) <=>
           Critical(PingRules(n(w))) \/ Critical(PingThresholds(f(w)))
    BY JoinedSigns
  <2>3. Critical(Said(w)) <=> Critical(PingRules(n(w)) \cup PingThresholds(f(w))) \/ Critical(other(w))
    BY <2>1, JoinedSigns
  <2> HIDE DEF n, f, other
  <2> QED BY <2>2, <2>3
<1>2. other(u) = other(v)
  <2>1. n(u).dns = n(v).dns /\ n(u).http = n(v).http /\ f(u).dns = f(v).dns /\ f(u).http = f(v).http
    BY RowsOf DEF OnlyWorse
  <2>2. f(u).past = f(v).past
    BY RowsOf DEF OnlyWorse
  <2>3. InventorySays(u) = InventorySays(v) /\ ChecksSay(u) = ChecksSay(v)
    BY DEF InventorySays, ChecksSay, OnlyWorse
  <2> HIDE DEF n, f
  <2>4. DNSRules(n(u)) = DNSRules(n(v)) /\ ServiceRules(n(u)) = ServiceRules(n(v))
    BY <2>1 DEF DNSRules, ServiceRules, SystemDNS, PublicDNS
  <2>5. DNSThresholds(f(u)) = DNSThresholds(f(v)) /\ HTTPThresholds(f(u)) = HTTPThresholds(f(v))
    BY <2>1, <2>2 DEF DNSThresholds, HTTPThresholds
  <2> QED BY <2>3, <2>4, <2>5
<1>3. Worsened(n(u), n(v)) /\ Worsened(f(u), f(v)) /\ f(u).past = f(v).past
  BY RowsWorsen, RowsOf DEF OnlyWorse
<1>4. \A t \in Pinged : f(v).past[t] \in Pasts \cup {<<>>}
  BY RowsOf DEF OnlyWorse, Typed, Targets, Pinged
<1> HIDE DEF n, f, other
<1>5. /\ Critical(PingRules(n(v))) => Critical(PingRules(n(u)))
      /\ Critical(PingThresholds(f(v))) => Critical(PingThresholds(f(u)))
  BY <1>3, <1>4, PingRulesRise, PingThresholdsRise
<1> QED BY <1>1, <1>2, <1>5

(* A step that changes samples changes those of one kind, and if the sample of
   a service is another one, then by a request. *)
LEMMA OneKind ==
    ASSUME ViewIsTyped, [HNext]_view, view'.near = view.near, view'.far = view.far,
           view.since = NoneSince
    PROVE  /\ view'.ping # view.ping => view'.dns = view.dns /\ view'.http = view.http
           /\ \A t \in Services : view'.http[t] # view.http[t] => t \in view.near
<1> USE DEF ViewIsTyped, Typed
<1>1. CASE PingSaved
  BY <1>1 DEF PingSaved, Newest
<1>2. CASE DNSSaved
  BY <1>2 DEF DNSSaved, Newest
<1>3. CASE HTTPSaved
  <2>1. PICK t \in Services, r \in HTTPSamples, past \in Pasts :
           view' = [Newest(t, past) EXCEPT !.http[t] = r]
    BY <1>3 DEF HTTPSaved
  <2>2. /\ view'.ping = view.ping /\ view'.http = [view.http EXCEPT ![t] = r]
        /\ view'.near = view.near \cup {t}
    BY <2>1 DEF Newest
  <2> QED BY <2>2
<1>4. CASE LeavesNear
  <2>1. PICK t \in view.near \ {Gateway} :
           view' = ViewOf([view EXCEPT !.near = @ \ {t}], (view.near \ {t}) \cup view.far)
    BY <1>4 DEF LeavesNear
  <2>2. view'.near = view.near \ {t}
    BY <2>1 DEF ViewOf
  <2> QED BY <2>2
<1>5. CASE LeavesFar
  <2>1. PICK t \in view.far :
           view' = ViewOf([view EXCEPT !.far = @ \ {t}, !.past[t] = <<>>], view.near \cup (view.far \ {t}))
    BY <1>5 DEF LeavesFar
  <2>2. view'.far = view.far \ {t}
    BY <2>1 DEF ViewOf
  <2> QED BY <2>2
<1>6. CASE AdvancedSaved
  BY <1>6 DEF AdvancedSaved
<1>7. CASE DevicesCounted
  BY <1>7 DEF DevicesCounted
<1>8. CASE view' = view
  BY <1>8
<1>9. CASE PingSince \/ DNSSince \/ HTTPSince \/ QueryFails
  BY <1>9 DEF PingSince, DNSSince, HTTPSince, QueryFails
<1>10. CASE EvaluatedAnew
  <2>1. /\ view'.ping = Renewed(view.ping, NoneSince.ping) /\ view'.dns = Renewed(view.dns, NoneSince.dns)
        /\ view'.http = Renewed(view.http, NoneSince.http)
    BY <1>10 DEF EvaluatedAnew
  <2> QED BY <2>1 DEF Renewed, NoneSince
<1> QED BY <1>1, <1>2, <1>3, <1>4, <1>5, <1>6, <1>7, <1>8, <1>9, <1>10 DEF HNext

(* The four stages together never answer worse samples with a better status,
   although one's verdict may take the place of another's. *)
THEOREM WorseningIsSeen == HSpec => WorseningNeverHeals
<1> DEFINE kinds == {"ping", "dns", "http"}
           worse == /\ view.since = NoneSince /\ view.failed = {}
                    /\ \A field \in DOMAIN view \ kinds : view'[field] = view[field]
                    /\ \A kind \in kinds : \A t \in DOMAIN view[kind] :
                          view'[kind][t] = view[kind][t] \/ NotBetter(view'[kind][t], view[kind][t])
           was == Health(view).status
           now == Health(view').status
           seen == /\ now = "healthy" => was = "healthy"
                   /\ view'.ping # view.ping /\ was = "critical" => now = "critical"
<1>1. ASSUME ViewIsTyped, ViewIsTyped', [HNext]_view, worse PROVE seen
  <2>1. OnlyWorse(view', view)
    <3>1. Typed(view) /\ Typed(view')
      BY <1>1 DEF ViewIsTyped
    <3>2. /\ view'.past = view.past /\ view'.checks = view.checks /\ view'.new = view.new
          /\ view'.missing = view.missing /\ view'.near = view.near /\ view'.far = view.far
          /\ view'.since = view.since /\ view'.failed = view.failed
      BY <1>1, <3>1 DEF Typed
    <3>3. Samples(view) /\ Samples(view')
      BY <3>1, SamplesAmong
    <3>4. Worsened(view', view)
      BY <1>1, <3>1, <3>3 DEF Worsened, Lower, Typed
    <3>5. Later(view) = ViewOf(view, view.far) /\ Later(view') = ViewOf(view', view'.far)
      BY <1>1, <3>1, <3>2, LaterUndisturbed
    <3> QED BY <1>1, <3>1, <3>2, <3>4, <3>5, OneKind DEF OnlyWorse
  <2>2. Bad(Said(view)) => Bad(Said(view'))
    BY <2>1, SaidRises
  <2>3. view'.ping # view.ping => (Critical(Said(view)) => Critical(Said(view')))
    <3>1. view'.ping # view.ping => view'.dns = view.dns /\ view'.http = view.http
      BY <1>1, <2>1, OneKind DEF OnlyWorse
    <3> QED BY <2>1, <3>1, CriticalRises
  <2>4. /\ was = "healthy" <=> ~Bad(Said(view))
        /\ was = "critical" <=> Critical(Said(view))
        /\ now = "healthy" <=> ~Bad(Said(view'))
        /\ now = "critical" <=> Critical(Said(view'))
    BY StatusOfSaid
  <2> HIDE DEF was, now
  <2> QED BY <2>2, <2>3, <2>4
<1>2. ViewIsTyped /\ ViewIsTyped' /\ [HNext]_view => (worse => seen)
  BY <1>1
<1> QED BY <1>2, HealthTyped, PTL DEF HSpec, WorseningNeverHeals
=============================================================================
