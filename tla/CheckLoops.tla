----------------------------- MODULE CheckLoops -----------------------------
(***************************************************************************)
(* The loops that probe the targets, and the requests that run the same    *)
(* checks now.  A run reads the targets that are configured at the moment, *)
(* probes and saves them one by one, evaluates the health from the saved   *)
(* rows and sets the gauges one by one.  Nothing keeps two runs apart: one *)
(* may set gauges from rows that are not the latest any more.  (The lists  *)
(* of last results are written and never read, and are left out.)          *)
(***************************************************************************)
EXTENDS Integers, FiniteSets

CONSTANTS
    Runs, RunKind,  \* concurrent runs and what they check
    Loops,          \* those of the loops
    TargetsOf,      \* the targets a kind of check may have
    Recording,      \* the kinds after which the gauges are set
    Scores,         \* the gauges
    Score(_, _),    \* the value of a gauge by the latest results
    MaxTurns        \* bound: how often something changes or goes wrong

Kinds == DOMAIN TargetsOf
AllTargets == UNION {TargetsOf[k] : k \in Kinds}

ASSUME LoopConstants ==
    Loops \subseteq Runs /\ RunKind \in [Runs -> Kinds] /\ Recording \subseteq Kinds /\ MaxTurns \in Nat

VARIABLES
    answering,  \* the targets that answer
    targets,    \* the targets that are configured
    latest,     \* the newest saved result of each target
    gauges,
    runs,       \* where each run is
    turns

lvars == <<answering, targets, latest, gauges, runs, turns>>

Waiting == [step |-> "waiting"]
Turn == turns < MaxTurns /\ turns' = turns + 1
(* What goes wrong is a turn, what goes well is none. *)
TurnIf(wrong) == IF wrong THEN Turn ELSE turns' = turns
Configured == UNION {targets[k] : k \in Kinds}

-----------------------------------------------------------------------------
(* runAllPingTargets and its like: pingTargets, dnsTargets, httpTargets. *)

TargetsNow(kind) == targets[kind]

RunBegun(r) ==
    /\ runs[r] = Waiting
    /\ runs' = [runs EXCEPT ![r] = [step |-> "probing", left |-> TargetsNow(RunKind[r]), ended |-> FALSE]]
    /\ TurnIf(r \notin Loops)
    /\ UNCHANGED <<answering, targets, latest, gauges>>

(* Whoever asked for the run goes away: its context ends, and what is left to
   probe fails at once. *)
RequestEnded(r) ==
    /\ r \notin Loops /\ runs[r].step = "probing" /\ ~runs[r].ended
    /\ runs' = [runs EXCEPT ![r].ended = TRUE]
    /\ UNCHANGED <<answering, targets, latest, gauges, turns>>

(* Results are ordered by when their probes began, so that one saved late does
   not hide a newer one: to probe and to save is one step. *)
TargetProbed(r) ==
    /\ runs[r].step = "probing"
    /\ \E t \in runs[r].left, saved \in BOOLEAN :
          /\ latest' = IF ~saved THEN latest
                       ELSE [latest EXCEPT ![t] = IF t \in answering /\ ~runs[r].ended THEN "up" ELSE "down"]
          /\ runs' = [runs EXCEPT ![r].left = @ \ {t}]
          /\ TurnIf(~saved)
    /\ UNCHANGED <<answering, targets, gauges>>

(* recordHealthMetric *)
HealthEvaluated(r) ==
    /\ runs[r].step = "probing" /\ runs[r].left = {}
    /\ \E evaluated \in BOOLEAN :
          /\ runs' = [runs EXCEPT ![r] =
                 IF evaluated /\ RunKind[r] \in Recording
                 THEN [step |-> "recording", left |-> Scores,
                       values |-> [s \in Scores |-> Score(s, latest)]]
                 ELSE Waiting]
          /\ TurnIf(~evaluated)
    /\ UNCHANGED <<answering, targets, latest, gauges>>

(* RecordHealth: the scores are in a map, that is in no order. *)
GaugeLowered(r) ==
    /\ runs[r].step = "recording"
    /\ \E s \in runs[r].left :
          /\ gauges' = [gauges EXCEPT ![s] = IF @ \in 1..runs[r].values[s] THEN @ ELSE runs[r].values[s]]
          /\ runs' = [runs EXCEPT ![r] = IF @.left = {s} THEN Waiting ELSE [@ EXCEPT !.left = @ \ {s}]]
    /\ UNCHANGED <<answering, targets, latest, turns>>

GaugeSet(r) ==
    /\ runs[r].step = "recording"
    /\ \E s \in runs[r].left :
          /\ gauges' = [gauges EXCEPT ![s] = runs[r].values[s]]
          /\ runs' = [runs EXCEPT ![r] = IF @.left = {s} THEN Waiting ELSE [@ EXCEPT !.left = @ \ {s}]]
    /\ UNCHANGED <<answering, targets, latest, turns>>

-----------------------------------------------------------------------------
(* Targets begin and cease to answer; another configuration is accepted. *)
NetworkTurns ==
    /\ Turn /\ \E t \in AllTargets : answering' \in {answering \cup {t}, answering \ {t}}
    /\ UNCHANGED <<targets, latest, gauges, runs>>
Reconfigured ==
    /\ Turn /\ \E k \in Kinds : \E T \in SUBSET TargetsOf[k] : targets' = [targets EXCEPT ![k] = T]
    /\ UNCHANGED <<answering, latest, gauges, runs>>

LoopsInit ==
    /\ answering = {} /\ targets = [k \in Kinds |-> TargetsOf[k]]
    /\ latest = [t \in AllTargets |-> "none"] /\ gauges = [s \in Scores |-> 0]
    /\ runs = [r \in Runs |-> Waiting] /\ turns = 0

Step(r) == RunBegun(r) \/ TargetProbed(r) \/ HealthEvaluated(r) \/ GaugeSet(r)

LoopsNext ==
    \/ \E r \in Runs : Step(r) \/ RequestEnded(r)
    \/ NetworkTurns \/ Reconfigured

(* A loop waits for its interval and goes on, at the latest after a minute;
   every probe has a timeout, and so a run that began comes to its end. *)
LoopsFairness == \A r \in Runs : WF_lvars(Step(r) /\ (r \in Loops \/ runs[r] # Waiting))

-----------------------------------------------------------------------------
(* After the last change and the last thing that went wrong - a request that
   was given up and left failed results, a save or an evaluation that failed, an
   older evaluation recorded over a newer one - the latest result of every
   configured target becomes right for good, and so does every gauge. *)
GaugesFollow ==
    <>[](/\ \A t \in Configured : latest[t] = IF t \in answering THEN "up" ELSE "down"
         /\ \A s \in Scores : gauges[s] = Score(s, latest))
=============================================================================
