--------------------------- MODULE ChangeDetection ---------------------------
(***************************************************************************)
(* How a sweep of the advanced checks notices that the public address, the *)
(* gateway's hardware address or the network's settings are not what they  *)
(* were: each sample is compared with the newest saved one that has        *)
(* details and is a warning if it differs.  The sweep of the loop and one  *)
(* that is requested may overlap; a sample has the time at which its probe *)
(* began.  Checks do not touch one another's samples: there is one here.   *)
(***************************************************************************)
EXTENDS Integers, FiniteSets

CONSTANTS
    Sweeps,      \* concurrent sweeps
    Found,       \* what the check may find
    Junk, NoDetails, \* an answer that is none, and none at all
    Window,      \* how many samples are looked through
    MaxProbes    \* bound: samples

ASSUME DetectionConstants ==
    /\ Window \in Nat \ {0} /\ MaxProbes \in Nat
    /\ Junk \notin Found /\ NoDetails \notin Found \cup {Junk}

VARIABLES
    samples,  \* the saved samples
    sweeps,   \* the sample a sweep is about to save
    probes    \* the number of probes so far, as the time

avars == <<samples, sweeps, probes>>

None == [step |-> "none"]

-----------------------------------------------------------------------------
(* LatestAdvanced: the newest rows, at most so many. *)
LatestAdvanced ==
    {x \in samples : Cardinality({y \in samples : y.at > x.at}) < Window}

(* applyChangeDetection: the newest of them with details decides, if the sample
   has details itself and is one of success. *)
Detailed(rows) == {x \in rows : x.value # NoDetails}
NewestIfDetailed(rows) == {x \in rows : x.value # NoDetails /\ \A y \in rows : y.at <= x.at}
Decisive(rows) == {x \in Detailed(rows) : \A y \in Detailed(rows) : y.at <= x.at}
Changed(value) ==
    value \in Found /\ \E x \in Decisive(LatestAdvanced) : x.value # value

-----------------------------------------------------------------------------
(* PublicIP, GatewayIdentity, NetworkEnv *)
SampleFound(s) ==
    /\ sweeps[s] = None /\ probes < MaxProbes
    /\ \E value \in Found \cup {Junk, NoDetails} :
          sweeps' = [sweeps EXCEPT ![s] = [step |-> "found", at |-> probes + 1, value |-> value,
                                           changed |-> FALSE, blind |-> FALSE]]
    /\ probes' = probes + 1
    /\ UNCHANGED samples

SampleCompared(s) ==
    /\ sweeps[s].step = "found"
    /\ \E rowsRead \in BOOLEAN :
          sweeps' = [sweeps EXCEPT ![s].step = "compared",
                                   ![s].changed = rowsRead /\ Changed(sweeps[s].value),
                                   ![s].blind = ~rowsRead \/ Detailed(LatestAdvanced) = {}]
    /\ UNCHANGED <<samples, probes>>

(* SaveAdvanced; a sample that cannot be saved is dropped. *)
SampleSaved(s) ==
    /\ sweeps[s].step = "compared"
    /\ LET x == [at |-> sweeps[s].at, value |-> sweeps[s].value, changed |-> sweeps[s].changed,
                 blind |-> sweeps[s].blind]
       IN  samples' \in {samples, samples \cup {x}}
    /\ sweeps' = [sweeps EXCEPT ![s] = None]
    /\ UNCHANGED probes

DetectionInit == samples = {} /\ sweeps = [s \in Sweeps |-> None] /\ probes = 0

DetectionNext == \E s \in Sweeps : SampleFound(s) \/ SampleCompared(s) \/ SampleSaved(s)

DetectionSpec == DetectionInit /\ [][DetectionNext]_avars

-----------------------------------------------------------------------------
(* A value never slips in: a value that is among the samples is in one that says
   it is a change, or that had nothing to be compared with, however sweeps
   overlap and however many samples lack details.  Nothing to be compared with
   are rows that could not be read, and rows of which none has details: before
   the first one that has, and after an outage that lasted for as many samples
   as are looked through, when a change goes unnoticed. *)
NoSilentChange ==
    \A x \in samples : x.value \in Found =>
        \E y \in samples : y.value = x.value /\ (y.changed \/ y.blind)
=============================================================================
