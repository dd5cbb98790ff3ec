----------------------------- MODULE ReportLayout -----------------------------
(***************************************************************************)
(* How report.go sets a PDF report: a cursor that moves down the page, and *)
(* for each part of the report a height to ensure, what is drawn below the *)
(* cursor and how far the cursor then goes.  What is drawn is reduced to   *)
(* its upper and lower edge, lines and texts to the height they take.      *)
(* Coordinates are those of PDF, up from the bottom of the page, in half   *)
(* points; the parts are written in points.                                *)
(***************************************************************************)
EXTENDS Integers, Sequences, FiniteSetsExt

CONSTANTS
    MaxFindings, MaxAlerts, MaxSpeedtests,  \* bounds of what the report is about
    WrapBound                               \* bound: rows of a table with two lines

ASSUME LayoutConstants ==
    /\ MaxFindings \in Nat /\ MaxAlerts \in Nat /\ MaxSpeedtests \in Nat /\ WrapBound \in Nat

VARIABLE doc  \* the parts to draw, the cursor, and what was drawn last

Pt(n) == 2 * n
Margin == Pt(42)    \* ensure keeps the cursor's heights above it
TopOfPage == Pt(800)
Sheet == Pt(842)

-----------------------------------------------------------------------------
(* Edges relative to the cursor: a rectangle given by how far its lower edge is
   below and its height, a text by its baseline and size, of which capitals
   take three quarters, and a line. *)
Box(below, height) == [bottom |-> -Pt(below), top |-> Pt(height) - Pt(below)]
Text(below, size) == [bottom |-> -Pt(below), top |-> -Pt(below) + (3 * size) \div 2]
Line(below) == [bottom |-> -Pt(below), top |-> -Pt(below)]

Part(need, marks, down) ==
    [need |-> Pt(need), marks |-> marks, down |-> Pt(down), heads |-> FALSE]
Heading(need, marks, down) ==
    [need |-> Pt(need), marks |-> marks, down |-> Pt(down), heads |-> TRUE]
Ensure(need) == <<Part(need, {}, 0)>>
Down(points) == <<Part(0, {}, points)>>

(* The first part is drawn at fixed places of a fresh page; the agent always
   gives a label for the statistics. *)
Header == <<Part(0, {Box(30, 72)}, 56), Part(0, {Text(0, 9)}, 18)>>
ScoreCards == <<Part(120, {Box(70, 64), Text(90, 12)}, 116)>>
Section == <<Heading(40, {Text(0, 15), Line(7)}, 24)>>
ExecutiveSummary == <<Part(132, {Box(86, 74)}, 104)>>
ProblemRadar == <<Part(230, {Box(206, 198)}, 224)>>
HealthImpact == <<Part(210, {Box(168, 160)}, 184)>>
NetworkLoad == <<Part(154, {Text(0, 8), Box(72, 52), Box(92, 9), Box(108, 9), Box(124, 9)}, 146)>>

Domains == 5
TriageRow == Part(54, {Box(42, 38)}, 46)
Times(n, part) == [i \in 1..n |-> part]
TriageBoard == <<Part(Domains * 48 + 18, {Text(0, 8)}, 14)>> \o Times(Domains, TriageRow) \o Down(12)

Callout == <<Part(0, {Box(54, 46)}, 62)>>
FindingRow == Part(54, {Box(44, 40)}, 48)
Shown == 8
Findings(n) ==
    IF n = 0 THEN Callout
    ELSE IF n <= Shown THEN Times(n, FindingRow)
    ELSE Times(Shown, FindingRow) \o <<Part(0, {Text(0, 9)}, 16)>>

FaultMap == <<Part(112, {Box(76, 64)}, 94)>>
Charts(need) == <<Part(need, {Box(120, 104)}, 144)>>
Trends == Charts(240) \o Charts(130)

(* Five cards, and below them the bar and its legend. *)
AlertLifecycle == <<Part(96, {Box(46, 42), Box(74, 12), Text(92, 8)}, 108)>>

TableBlockHeight(rows) == IF rows = 0 THEN 24 ELSE rows * 20 + 34

(* A table whose rows have one line, but for some of them that have two. *)
Table(rows, wrapped) ==
    LET body == Pt(20 * rows) + 17 * wrapped
        whole == [bottom |-> -(Pt(20) + body), top |-> 0]
    IN  IF rows = 0 THEN <<Part(0, {Text(0, 9)}, 18)>>
        ELSE <<[need |-> Pt(30) + body, marks |-> {whole}, down |-> Pt(30) + body, heads |-> FALSE]>>

TableRows == 12
Least(a, b) == IF a < b THEN a ELSE b

AlertTable(n, wrapped) ==
    LET rows == Least(n, TableRows)
    IN  IF n = 0 THEN Callout
        ELSE Ensure(TableBlockHeight(rows)) \o Table(rows, wrapped) \o
             IF n > rows THEN <<Part(0, {Text(0, 8)}, 14)>> ELSE <<>>

SpeedRows == 6
(* Each table below its title. *)
CheckTables(speedtests, findings, wrapped) ==
    LET speed == Least(speedtests, SpeedRows)
        rows == Least(findings, TableRows)
    IN  <<Heading(44 + TableBlockHeight(speed), {Text(0, 11), Text(14, 8), Text(25, 8)}, 39)>> \o
        Table(speed, 0) \o
        <<Heading(22 + TableBlockHeight(rows), {Text(0, 11)}, 14)>> \o
        Table(rows, wrapped)

(* visualPDF *)
Overview == Header \o ScoreCards \o Section \o ExecutiveSummary \o Section \o ProblemRadar
Causes == Ensure(270) \o Section \o HealthImpact \o Section \o NetworkLoad \o Section \o TriageBoard
Problems(findings) ==
    Section \o Findings(findings) \o Down(10) \o Ensure(130) \o Section \o FaultMap
Courses == Ensure(288) \o Section \o Trends
AlertsUnensured(alerts, wrapped) ==
    Section \o AlertLifecycle \o AlertTable(alerts, wrapped) \o Down(12)
Alerts(alerts, wrapped) ==
    Ensure(250) \o Section \o AlertLifecycle \o AlertTable(alerts, wrapped) \o Down(12)
Details(speedtests, findings, wrapped) ==
    Ensure(160) \o Section \o CheckTables(speedtests, findings, wrapped)

-----------------------------------------------------------------------------
(* The renderer.  free is the lowest edge of what the page holds; heading says
   that what was drawn last was one, and parted that the part then drawn went to
   the next page. *)
Fresh == [y |-> TopOfPage, free |-> Sheet]

LInit == \E findings \in 0..MaxFindings :
            doc = [stage |-> "alerts", findings |-> findings,
                   todo |-> Overview \o Causes \o Problems(findings) \o Courses,
                   page |-> 1, y |-> Fresh.y, free |-> Fresh.free, heading |-> FALSE,
                   last |-> [bottom |-> Sheet, top |-> Sheet, free |-> Sheet, parted |-> FALSE]]

Draw ==
    LET part == Head(doc.todo)
        breaks == part.need > 0 /\ doc.y - part.need < Margin
        at == IF breaks THEN Fresh ELSE [y |-> doc.y, free |-> doc.free]
        drawn == part.marks # {}
        bottom == at.y + Min({m.bottom : m \in part.marks})
        top == at.y + Max({m.top : m \in part.marks})
    IN  /\ doc.todo # <<>>
        /\ doc' = [doc EXCEPT
              !.todo = Tail(@), !.page = IF breaks THEN @ + 1 ELSE @,
              !.y = at.y - part.down,
              !.free = IF drawn THEN Least(at.free, bottom) ELSE at.free,
              !.heading = part.heads \/ (doc.heading /\ ~drawn),
              !.last = IF drawn THEN [bottom |-> bottom, top |-> top, free |-> at.free,
                                      parted |-> breaks /\ doc.heading]
                       ELSE [@ EXCEPT !.parted = breaks /\ doc.heading]]

(* The tables at the end; which of their rows have two lines the texts decide. *)
Wrapped(n) == {w \in 0..Least(n, TableRows) : w <= WrapBound \/ w = Least(n, TableRows)}

ListAlerts ==
    /\ doc.todo = <<>> /\ doc.stage = "alerts"
    /\ \E n \in 0..(IF doc.findings = 0 THEN 0 ELSE MaxAlerts) : \E w \in Wrapped(n) :
          doc' = [doc EXCEPT !.stage = "details", !.todo = Alerts(n, w)]

ListDetails ==
    /\ doc.todo = <<>> /\ doc.stage = "details"
    /\ \E speedtests \in 0..MaxSpeedtests, w \in Wrapped(doc.findings) :
          doc' = [doc EXCEPT !.stage = "end", !.todo = Details(speedtests, doc.findings, w)]

LNext == Draw \/ ListAlerts \/ ListDetails

LSpec == LInit /\ [][LNext]_doc

-----------------------------------------------------------------------------
(* Whatever the report has to say, no part is drawn over another or into the
   margin: those parts, too, that ensure nothing of their own but rely on what
   was ensured some parts before.  (The line that counts further findings
   touches the last row with the upper 2.5 points of its letters.) *)
Slack == Pt(3)
NothingOverlaps ==
    doc.last.top <= doc.last.free + Slack /\ doc.last.bottom >= Margin

(* Each ensure in front of a section is so high that the heading stays on the
   page of what it heads.  (It is not so in the last section: what is ensured for
   a table counts each of its rows as one line, and the heading may be alone.) *)
HeadingKept == doc.last.parted => doc.stage = "end"
=============================================================================
