---------------------------- MODULE MCReporting ----------------------------
(* Two components that share no state, in one run: part says which one a
   behaviour is about.  A behaviour about a site begins before anything is
   probed, or with many services and lookups that answer and stay as they are. *)
EXTENDS ReportContent, ReportLayout, TLC
CONSTANTS h1, h2, system, public, web, trace,
    Answering,  \* the many services and lookups
    MaxSigns    \* bound: other targets with a sample, checks and counts out of order
VARIABLE part

MCLimits(lw, lc, tw, tc, rel) ==
    [l \in Limits |-> CASE l = "lossWarning" -> lw [] l = "lossCritical" -> lc
        [] l = "latencyWarning" -> tw [] l = "latencyCritical" -> tc
        [] l = "latencyRelative" -> rel [] l = "httpRelative" -> rel
        [] l = "dnsWarning" -> 100 [] l = "dnsCritical" -> 500
        [] l = "httpWarning" -> 1000 [] l = "httpCritical" -> 5000
        [] l = "tlsWarning" -> 21 [] l = "tlsCritical" -> 7]
MCGlobal == MCLimits(3, 50, 80, 200, 50)
MCPerTarget == h1 :> MCLimits(40, 0, 0, 0, 0)
MCPing ==
    {[up |-> TRUE, loss |-> 0, latency |-> 5], [up |-> TRUE, loss |-> 0, latency |-> 30],
     [up |-> TRUE, loss |-> 33, latency |-> 90], [up |-> FALSE, loss |-> 100, latency |-> 0]}
MCDNS == {[up |-> TRUE, duration |-> 20], [up |-> TRUE, duration |-> 600], [up |-> FALSE, duration |-> 700]}
MCGet(up, duration, tls, days) == [up |-> up, duration |-> duration, tls |-> tls, days |-> days]
MCHTTP == {MCGet(TRUE, 200, TRUE, 90), MCGet(TRUE, 4000, TRUE, 10), MCGet(FALSE, 4000, TRUE, 10),
           MCGet(TRUE, 200, TRUE, 0), MCGet(FALSE, 30, FALSE, 0)}
MCPasts == {<<>>, <<10, 10, 10, 10, 10, 400>>}

MCAlert(severity, active, acked, hidden) ==
    [severity |-> severity, topic |-> "http_threshold", concerns |-> {"service"},
     active |-> active, acked |-> acked, hidden |-> hidden]
MCAlerts == {MCAlert("warning", TRUE, FALSE, FALSE), MCAlert("critical", TRUE, TRUE, FALSE),
             MCAlert("info", FALSE, TRUE, TRUE), MCAlert("warning", FALSE, FALSE, FALSE)}
MCRow(area, failed, error, severity, topic) ==
    [area |-> area, failed |-> failed, error |-> error, severity |-> severity, topic |-> topic,
     concerns |-> IF area = "advanced" THEN {"wan"} ELSE {}]
MCRows == {MCRow("ping", TRUE, FALSE, "info", "h1"), MCRow("ping", FALSE, TRUE, "info", "h1"),
           MCRow("wan", FALSE, FALSE, "info", "wan speed"), MCRow("wan", TRUE, TRUE, "info", "wan speed"),
           MCRow("advanced", FALSE, FALSE, "critical", "check")}
MCConcerns == trace :> {"wan"}

Many == [Unprobed EXCEPT !.http = [t \in Services |-> IF t \in Answering THEN MCGet(TRUE, 200, TRUE, 90)
                                                      ELSE Nothing],
                         !.dns = [t \in Lookups |-> IF t \in Answering THEN [up |-> TRUE, duration |-> 20]
                                                    ELSE Nothing],
                         !.near = Answering, !.far = Answering]

Signs == Cardinality((view.near \cup view.far) \ Answering) + view.new + view.missing
         + Cardinality({c \in Checks : view.checks[c] # "info"})
Disturbances == Cardinality(SavedSince(view.since)) + Cardinality(view.failed)
(* Bound: one target has earlier values, the row of one has left a window, and
   one thing disturbs the evaluation, which then has a sign less. *)
Bounded ==
    /\ part = "content" => view.near \cap Answering = {}
    /\ Signs + Len(alerts) + Len(rows) + Disturbances
          <= MaxSigns - IF part = "many" \/ Disturbances > 0 THEN 1 ELSE 0
    /\ Disturbances <= 1
    /\ SavedSince(view.since) \cap Answering = {}
    /\ Cardinality((view.near \cup view.far) \ (view.near \cap view.far)) <= 1
    /\ Cardinality({t \in Targets : view.past[t] # <<>>}) <= 1
    /\ part = "many" => /\ Among(view.http, Answering) = Many.http
                        /\ Among(view.dns, Answering) = Many.dns
                        /\ Answering \subseteq view.near \cap view.far
                        /\ \A t \in Answering : view.past[t] = <<>>

Init ==
    /\ part \in {"content", "many", "layout"}
    /\ LInit /\ (part # "layout" => doc.findings = 0)
    /\ view = (IF part = "many" THEN Many ELSE Unprobed) /\ alerts = <<>> /\ rows = <<>>
Next ==
    \/ part \in {"content", "many"} /\ CNext /\ UNCHANGED <<part, doc>> /\ Bounded'
    \/ part = "layout" /\ LNext /\ UNCHANGED <<part, rvars>>
Spec == Init /\ [][Next]_<<part, doc, rvars>>
=============================================================================
