---------------------------- MODULE MCOperation ----------------------------
(* Five components that share no state, in one run: part says which one a
   behaviour is about; the others are at rest. *)
EXTENDS RuntimeSettings, ReportCatalogue, ChangeDetection, CheckLoops, DeviceIntelligence, TLC
CONSTANTS n1, n2, bad, v1, v2, vbad, pingLoop, dnsLoop, pingNow, gw, name
VARIABLE part

MCDoc(cidrs, targets_, others) ==
    [cidrs |-> cidrs, parts |-> [s \in Sections |-> IF s = "targets" THEN targets_ ELSE others]]
MCNothing == MCDoc({}, Blank, Blank)
MCYaml == MCDoc({n2}, v2, v2)
MCBare(d) == [bare |-> d, effective |-> MCNothing, yaml |-> MCNothing]
MCBodies ==
    {MCBare(d) : d \in {MCNothing, MCDoc({n1, NoText}, v1, Blank), MCDoc({n2}, Blank, v1),
                        MCDoc({bad}, v1, v1), MCDoc({}, vbad, v1)}} \cup
    {[bare |-> MCNothing, effective |-> MCDoc({n1}, Blank, v1), yaml |-> MCYaml],
     [bare |-> MCNothing, effective |-> MCNothing, yaml |-> MCYaml]}

MCRunKind == (pingLoop :> "ping") @@ (dnsLoop :> "dns") @@ (pingNow :> "ping")
MCTargetsOf == [ping |-> {gw}, dns |-> {name}]
MCScore(s, l) ==
    LET dns == IF l[name] = "down" THEN 60 ELSE 100
        gateway == IF l[gw] = "down" THEN 40 ELSE 100
    IN  IF s = "dns" THEN dns ELSE (dns + gateway) \div 2

LoopsAtRest ==
    /\ answering = {} /\ targets = [k \in Kinds |-> {}]
    /\ latest = [t \in AllTargets |-> "none"] /\ gauges = [s \in Scores |-> Score(s, latest)]
    /\ runs = [r \in Runs |-> Waiting] /\ turns = 0
DeviceAtRest ==
    /\ device = [ports |-> {}, services |-> {}] /\ intel = Category({}, {})
    /\ actual = [ports |-> {}, moves |-> 0] /\ ahead = 0
    /\ visits = [v \in Visitors |-> Away] /\ faults = 0

Init ==
    /\ part \in {"settings", "catalogue", "changes", "loops", "device"}
    /\ SInit /\ CatInit /\ DetectionInit
    /\ IF part = "loops" THEN LoopsInit ELSE LoopsAtRest
    /\ IF part = "device" THEN DIInit ELSE DeviceAtRest
Next ==
    /\ UNCHANGED part
    /\ \/ part = "settings" /\ SNext /\ UNCHANGED <<cvars, avars, lvars, dvars>>
       \/ part = "catalogue" /\ CatNext /\ UNCHANGED <<svars, avars, lvars, dvars>>
       \/ part = "changes" /\ DetectionNext /\ UNCHANGED <<svars, cvars, lvars, dvars>>
       \/ part = "loops" /\ LoopsNext /\ UNCHANGED <<svars, cvars, avars, dvars>>
       \/ part = "device" /\ DINext /\ UNCHANGED <<svars, cvars, avars, lvars>>
vars == <<part, svars, cvars, avars, lvars, dvars>>
Spec ==
    /\ Init /\ [][Next]_vars
    /\ (part = "loops" => LoopsFairness) /\ (part = "device" => DIFairness)
=============================================================================
