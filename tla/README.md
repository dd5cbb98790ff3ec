# Verification of the InfraCheck appliance

TLA+ modules that model the Go agent of this repository (`src/agent/`), the TLC
configurations that check them on small instances, and theorems about them that
TLAPS proves for every value of the constants. Paths below are relative to
`src/agent/internal/` unless they start with `src/`.

The agent is one process. It probes a site's network on timers, keeps what it
finds in a SQLite file, derives alerts, health scores and reports from it and
serves an HTTP API and Prometheus metrics. Nearly all of its state is in the
database, and nothing in the agent opens a transaction: what one request does
as a whole is a series of SQL statements that those of other requests, and of
the timer loops, may come between. That is what the modules are mostly about.

## Inventory

| Component | State it keeps | Operations | Hard behaviours | What makes it correct |
|---|---|---|---|---|
| Alert table (`agent/alerts_api.go`, `storage/storage.go:1221-1373`) | `alert_records`: activity, acknowledgement, first seen, cleared, suppression | refresh pass of `GET /alerts/unified`, acknowledge, suppress, close, retention cleanup | passes of several pages interleave statement by statement; stale "now"; a failing collector; suppression that ends during a pass | a row's columns agree; an operator's decision outlives refreshes; the response shows what holds; alerts are raised and cleared in the end |
| Device inventory (`storage/storage.go:588-824`, `agent/agent.go:323-374`, `agent/tools_api.go:211-260`) | `devices`, the LAN gauges | discovery rounds (loop and requests), identity requests, review, monitoring, start of the program | SELECT then INSERT by two workers; late writes of an older time; neighbour tables that still name who has left; identities by address; counts recorded late | reviews and first sightings are kept; nothing is announced twice; missing devices are noticed, and not too early |
| UDP echo service (`agent/field_api.go`) | socket, token, expiry under a mutex; one goroutine per session | start, stop, serve | goroutine of an old session cleans up after a new one started; failing start; lost and late datagrams | no socket leaks; no session ends early or never; tokens echoed only while open |
| iperf3 server manager (`iperf/manager.go`) | the `exec.Cmd` under a mutex; one waiting goroutine per process; a gauge | start, stop, status, status loop | process dies at any moment; goroutine of a killed process is late; the gauge is set after the mutex is released | no orphaned server; a death is noticed; the gauge settles |
| Device intelligence (`agent/device_intelligence.go`, `storage/storage.go:826-955`) | open ports, services, category, device events | port scan, service sightings, classification of a list | all three write everything back from a row read before; two statements; a scan replaces also the ports it did not look at | what an older reading or a scan of other ports overwrote is right again in the end |
| Device expectations (`agent/expectations_api.go`) | expected owner, switch and port | set, compare | none of its own | its alerts enter a pass of the alert table |
| Runtime configuration (`agent/config_api.go`, `config/config.go`) | two rows of `app_settings`, over a YAML file | read, replace the document, replace the networks | two rows written in opposite orders without a transaction; fallbacks of empty sections | whatever overlapping requests left, the next one puts both rows right |
| Report catalogue (`agent/agent.go:842-1046`, `storage/storage.go:469-586`) | files and rows | generate, list, serve, clean up | crash between file and row, two cleanups at once | what is listed can be served until a cleanup was entitled to it |
| Report contents (`report/report.go:139-228, 700-800, 1162-1550, 1806-1918`) | none | findings, groups, alert bar, triage board, headline | the same trouble told by verdicts, alerts and rows; words looked for in texts | nothing is left out or told milder than it is |
| Report layout (`report/report.go:507-695, 809-1134, 1552-2021`) | the cursor and the page | draw a part, break the page | estimated heights against drawn ones | nothing overlaps, no heading is alone |
| Check scheduler (`agent/agent.go:184-321, 419-495, 1229-1243`, `agent/advanced.go`, `runner/`) | samples, the health gauges | one loop per check, the same checks on request, change detection | given-up rounds, two runs of one check at once, gauges set one by one | results and gauges follow the network; no change slips in unseen |
| Health evaluation (`verdict/verdict.go`, `agent/thresholds.go`, `agent/advanced_health.go`) | none | evaluate | four stages with rules and queries of their own, between which samples are saved; limits; rows that left a window | status, score and verdicts agree; a failure is reported; worse samples do not heal |
| Discovery runner (`runner/discovery.go`, `runner/identity.go`) | none | run four tools and merge | stale entries; the merge depends on the order | one address for each MAC |
| Diagnostic and field tools (`agent/tools_api.go`, `agent/diagnostics_api.go`, `agent/field_api.go`, `runner/field.go`) | none but the above | one probe per request | timeouts | - |
| Metrics registry (`metrics/metrics.go`) | gauges | set | set from counts read before | gauges settle |
| Authentication (`agent/security_api.go`), user interface (`agent/ui.go`), mDNS (`agent/mdns.go`) | a token; none; a registration | compare; none; announce | - | - |
| Program start and stop (`src/agent/cmd/infracheck-agent/main.go`) | the open database | open, run, close | the database closes while loops run | - |
| Monitoring stack (`src/prometheus/`, `src/dashboards/`, compose file) | - | configuration of other programs | - | - |

How they interact: requests and loops call each other's components directly
(no queues and no messages); they share the database, the mutexes of the two
managers and of the agent's caches, and the gauges. The alert table reads the
health evaluation, Prometheus, the device events and the expectations; the
health evaluation reads the samples; discovery feeds the inventory, which feeds
device intelligence.

## Plan

The order of work, by importance, and which module builds on which:

1. `AlertStore`, `AlertLifecycle` (its abstract specification), `AlertMonitor`
   (the store with its environment), `AlertStoreProofs`, `AlertMonitorProofs`;
2. `UdpEcho`, `EchoSession` (abstract), `UdpEchoProofs`;
3. `IperfManager`, `IperfManagerProofs`;
4. `DeviceInventory`, `DeviceDepartures` (with the history of the network),
   `DeviceInventoryProofs`;
5. `HealthEvaluation`; `ReportContent`, which extends it; `ReportLayout`; `HealthProofs`,
   and `ReportProofs`, which extends it with the theorems about reports;
6. `RuntimeSettings`, `ReportCatalogue` and `ChangeDetection`, with `OperationProofs`
   for the three; `DeviceIntelligence`, `CheckLoops`.

All of it is done. What a reader may want next: the merge of the discovery tools'
names and services, and the order of times as texts.

## Modules

### AlertStore

State: `clock`, `rows` (the table, by fingerprint), `pass` (per handler goroutine,
the local variables of the request it serves). One SQL statement is one action:
SQLite serialises statements, and nothing serialises more than one.

| Action | Code |
|---|---|
| `Observe` | `currentAlertRecords`, `dedupeAlertRecords`: the five collectors, four of which may fail without failing the pass |
| `StartUpsert`, `UpsertOne` | `UpsertAlertRecords`: one reading of the clock, then INSERT ... ON CONFLICT per alert, whose CASE expressions are `ActiveAfter`, `AckAfter`, `ClearedAfter`, ... |
| `SweepAll` / `SelectStale`, `SweepOne` | the two sweeps: one UPDATE when nothing was observed, else a SELECT and one UPDATE per row |
| `Answer` | the SELECT of the response |
| `Fail` | a statement that fails, or a crash |
| `Acknowledge`, `Suppress`, `Close`, `Cleanup` | the operator's requests; `Close` writes the time of a reading of the clock before its statement, hence any earlier one |

The texts of a record, `last_seen` and everything that only lays out the response
are left out. Which of two records with one dedupe key survives depends on text
lengths and is left open (`Deduped`). The state "active" stands for every state a
collector reports. `Retention = 0` stands for an installation where a tick of the
model's clock is longer than the retention; the runs use that, so that a row that was
cleared is purged within the bounded clock.

`AlertLifecycle` is what the operator is promised: per alert a status (none, open,
acknowledged, muted, hidden, cleared) and the moves allowed between them.
`ImplementsLifecycle` says the table, read through `StatusOf`, never makes another
move, whatever the interleaving.

`AlertMonitor` adds the conditions that come and go and a history variable for
what the operator acknowledged.

### UdpEcho, EchoSession

State: the manager's three fields, per session its goroutine's program counter,
its socket and the datagram in hand. A method of the manager holds the mutex
throughout, so it is one step; the goroutine's loop is split at each system call.
A failing start leaves the token and the expiry of the session it closed (the code
does), which `SocketsOwned` allows only while no socket is held. `EchoSession`
promises one session at a time, with a term within the limits, never reopened, and
echoes only while it is open. The clock counts the seconds of the poll interval.
The number of sessions and the clock bound the run; a session is only started when
its term ends before `MaxTime`, otherwise the clock's bound would keep it alive.

### IperfManager

State: `cmd`, `lastError`, per process its state and whether it was killed, per
caller the status it was given and has not recorded yet, and the gauge. The three
steps of a process' end are separate: it exits, `Wait` returns, the goroutine takes
the mutex. A `Cmd` is used again once its goroutine is gone, so that three of them
represent any number of starts.

### DeviceInventory, DeviceDepartures

State: `rows` by storage key (the MAC, or the address of a host found without),
`rounds` (per worker, the local variables of `runDiscovery` or of
`toolDeviceEnrich`), the gauges, the network (`lan`), what neighbour tables still
name (`stale`) and the clock. One SQL
statement is one action.

| Action | Code |
|---|---|
| `Connect`, `Disconnect`, `Forgotten` | the network: hosts come and go, and a neighbour table may name one that left until it forgets |
| `Discover` | `DiscoveryRunner.Run`: any part of what the scans and the neighbour tables name (`Found`), merged as `mergeDevice` does: a MAC has one address, an address may have several MACs (`Scans`); the round's time is read when it begins |
| `SelectDevice`, `Insert`, `UpdateSeen` | `UpsertDevices`, in the order of the addresses |
| `InsertFails`, `StatementFails` | its error returns: the rest of the batch is dropped, the round goes on |
| `EnrichOne` | `enrichDevices` with `UpdateDeviceIdentityByIP`; hosts that do not answer are passed over |
| `CountNew`, `CountMissing`, `RecordLAN` | the end of `runDiscovery` |
| `LookUp`, `Identify` | `toolDeviceEnrich` |
| `QueryFails` | queries whose error is dropped: the round counts nothing, the request goes on without a MAC or ends |
| `MarkDeviceKnown`, `MarkAllNewDevicesKnown`, `UpdateDevice` | the operator |
| `Restart` | the start of the program, with what `migrate` does to the table |

Names, vendors, ports, `seen_count` and the total of devices are left out. A round may
take as long as it likes: its timeout does not stop what it calls to look up a name or
to wait for the database. `DeviceDepartures` adds history: when a host was last
connected, when an address was last used or named by a neighbour table, and the longest
that a round has run.

### HealthEvaluation

`Health` is a pure operator from a view - the latest sample of every target, the
values before it, device counts, severities of the advanced checks - to status,
verdicts and scores: `Evaluate` (its rules and scores), then `WithInventory`,
`WithThresholds`, `WithAdvanced`, as `evaluateHealth` calls them. The only variable
is the view; its actions are the samples that are saved and the rows that newer ones
push out of a query's window. `Evaluate` and the thresholds ask for pings, lookups and
requests by queries of their own. Their windows have different sizes, so a view knows of
each target whose row is in which (`near`, `far`). Between the two a sample may be saved
(`since`), and a query of the thresholds that fails skips its part (`failed`): the
thresholds judge `Later(view)`. `EvaluatedAnew` is the next evaluation, which finds what
was saved. A failed query for devices or advanced checks is as one that finds nothing of
note; one of `Evaluate`'s own fails the request, and nothing is computed.
Percentages are integers and ratios are compared by multiplying out.

One assumption says what the runners can store. `SampleTypes`: there are finitely many
targets and checks; earlier values are naturals; a ping is three probes (`agent/agent.go:55`), so that 0, 33, 67 or 100 percent
of them are lost, and a target that is not up lost all; a request that got an answer had
a certificate that was accepted, and it takes no longer than its time-out. As long as no
row is saved in between, a lookup or a service among the newest rows of `Evaluate` is among
those of the thresholds, which are more rows of the same table (`LeavesFar`). The values `trimmedAverage`
keeps are given by their indices (`Kept`), so that their sum is a fold over a finite set.

### ReportContent, ReportLayout

`ReportContent` extends `HealthEvaluation` with the alerts and rows of the period and
has what `report.go` makes of them: `Told` (every finding), `Grouped`, `Leading`, the
bar of alerts, the triage board, the headline. A text is the topic that decides its
group and the domains whose words occur in it. The code joins findings to groups in the
order in which it collects them; `Grouped` folds over the set of what is told in an order
that is left open, since severities and counts do not depend on it. The bar's widths are
those of the code times the number of alerts, so that its shares are integers.
`ReportLayout` is the cursor: each part of the PDF is the height it ensures, the upper
and lower edges of what it draws and how far it moves on; `Draw` breaks the page as
`ensure` does, which a part that ensures nothing (0) never does. A `Heading` is a part
that something has to follow. The numbers are those of the code, in half points.

### RuntimeSettings

State: the two rows, and where each PUT request is. `ConfigSaved` and `ConfigNamed`
are the two writes of `updateRuntimeConfig`, `NetworksNamed`, `NetworksRead` and
`NetworksSaved` the write, the read and the write of `updateDiscoveryConfig`.
`Used` is `effectiveRuntimeConfig`, `Shown` what `GET /config/discovery` answers. A
section is `Blank` where the code's `...Empty` functions call it empty; each interval
of the tests counts as a section. `alone` is a history variable: the last request
that no other overlapped, and what it asked for.

### ReportCatalogue

State: `files`, `listed` (the rows), when each report was created, how far each
request and each cleanup is. `FileWritten`/`FileFailed` and `RowSaved`/`RowFailed`
are `generateReport`; `CleanupBegun`, `FileRemoved`, `RowsDeleted` are
`DeleteReportsBefore`. `oldest` is a history variable: the latest cutoff so far.

### DeviceIntelligence

State: the ports and services in one device's row, its category, what the device
really listens on, how many other devices were seen later, and per visitor what it is
about to write. `ScanBegun` and `ScanRead` are a sweep, which scans the configured ports
(`SweptPorts`) of the devices seen last (`SweptDevices`); `RequestScanned` and
`RequestRead` are a request to scan any ports, which reads the row after it has scanned;
`ServicesRead` is an identity sighting, `ListRead` a list request; all end in
`DeviceWritten` and `IntelWritten`, the two statements of `UpdateDeviceIntelligence`.
What a scan did not look at it takes for closed. `CategoryRules` is the table of
`classifyDevice`.

### CheckLoops, ChangeDetection

`CheckLoops`: the runs of the ping, DNS and HTTP loops and of requests, each with the
targets it has still to probe and the gauges it has still to set. `Score` is a
parameter; the run gives it two targets and the shape of the real scores.
`ChangeDetection`: sweeps that find a sample, compare it with the newest saved one
that has details, and save it. Any number of samples may lack details.

## Runs

| Run | Instance | What it shows |
|---|---|---|
| `AlertRaces` | two alerts, two pages, changing conditions | `RowsConsistent`, `AcknowledgementKept` under all races of two passes and the operator |
| `AlertOnePage` | two alerts with one dedupe key, one page, suppressions of one tick or none, fair | `TypeOK`, `ImplementsLifecycle`, what one page sees (`ShowsOnlyObserved`, `ShowsAllObserved`, `OnlyCloseClearsTooSoon`), and convergence (`ClearedInTheEnd`, `RaisedInTheEnd`) |
| `UdpEcho` | two sessions, six seconds, fair | `TypeOK`, `SocketsOwned`, `NoneEndedEarly`, `ImplementsSession`, `SessionsEnd` |
| `IperfManager` | three processes, two requests, the loop, fair | `TypeOK`, `NoOrphan`, `DeathNoticed`, `GaugeSettles` |
| `DeviceTools` | one host with and without MAC, the loop and an identity request | `ReviewKept` |
| `DeviceSettles` | one host, the loop and a request, fair | `GaugesSettle` |
| `DeviceRecords` | two hosts in turn at one address, where the first may still be named, the loop and a request, time stands still, fair | `NeverAnnouncedTwice`, `RecordedInTheEnd` |
| `DeviceDepartures` | one host that comes and goes and may be named for longer, the loop and a request, three ticks, rounds of up to one tick | `TypeOK`, `NotMissedEarly`, `DepartureNoticed` |
| `Reporting` | any three signs over two hosts, two lookups, one service, one check, or one and a disturbance of the evaluation; any two next to six more services and three more lookups that answer; a layout of up to 13 findings, 13 alerts, 7 speed tests | `StatusIsWorst`, `FullScoreMeansHealthy`, `FailureIsReported`, `WorseningNeverHeals`; `NothingLeftOut`, `TriageNeverMilder`, `HeadlineIsHonest`; `NothingOverlaps`, `HeadingKept` |
| `Operation` | two configuration requests; two reports and two cleanups over three days; two sweeps and four samples; two loops and a request; one device with a sweep and a process that makes the other kinds of requests | `AloneHeals`, `ServedUntilCutoff`, `NoSilentChange`, `GaugesFollow`, `PortsReturn` |
| `DeviceNewForEver` | finding 1 | `NewWithinWindow` is violated |
| `DeviceAddressReused` | finding 2 | `AbsentIsMissing` is violated |

`Reporting` and `Operation` hold components that share no state: the variable `part`
of `MCReporting` and `MCOperation` says which one a behaviour is about, the others
are at rest. They check the parts one by one, in one run of TLC; no property of
theirs spans two parts, except that `ReportContent` is about the health it extends.

Why the bounds are enough. A race over a row needs two workers and one row; a race
that drops the rest of a batch, or a pass that observes one alert and sweeps
another, needs two rows. A third pass or round adds no statement that is not there
with two, and the theorems hold for any number. One tick of the clock
makes a "now" stale, ends a suppression and lets a cleared row be purged and inserted
again; the run with one page also has suppressions that are over at once. Three ticks pass the
missing window after a round; where only the order of statements matters the clock
stands still, which keeps the two-host instance small. `Lingering` are the addresses at
which a neighbour table may go on naming a host that left; the two hosts of `DeviceRecords`
share one, so that a round finds two devices at one address. `ShortRounds` cuts the runs of
`DeviceDepartures` off where a round has taken more than a tick, since two rounds, one of
which is a tick late, already show a late write; the theorems have no such bound. Its
`VIEW` leaves out the gauges and what a round counts for them, which of its properties
only `TypeOK` reads. The limits (300 and 1000 rows)
are at the number of alerts and so never bite. The UDP clock is six seconds, so that
sessions of the shortest, the default and the longest term (1, 2 and 3 seconds) run
out one after the other. Two pages make `ImplementsLifecycle` slow to check without
showing more than the theorem `StoreImplementsLifecycle`, which holds for any number;
its run has one page.

`Reporting`: three signs are enough for a verdict of each stage next to one another,
for a group of three findings and for an order between them; the samples straddle
each limit, global and per target, and `MaxSigns` of `MCReporting` counts the targets
with a sample, the checks and the device counts out of order, the alerts, the rows and
what disturbs an evaluation: one sample saved in its middle or one query that fails,
next to one other sign.
At a time one target has earlier values, since baselines are of single targets, and the
row of one target is in one of the two windows only. `HealthEvaluation` itself is
unbounded. The six services that answer (`Answering`, part "many" of the run, with one
sign less) make the seventh one of many: a single failing service of seven is the
smallest case in which the headline still says "Healthy", so that a state meets the
premise of `HeadlineIsHonest`; and so is one failed lookup of four, for which there are
three more lookups that answer. `WrapBound` says how many rows of a table have two lines,
from none to one or all; 13 findings pass the eight that are shown and 13 alerts and 7
speed tests pass the rows of their tables, so that more would give the same document.
`Operation`: two requests
cover each order of their two writes, and the bodies cover the three ways a body is
understood, invalid networks and values, and sections that are blank. Three days and
retentions of none, one and two days put a report on either side of two cutoffs.
`Window` is 2 where the code has 5; of the four samples any number may lack details, so
that an outage may outlast the window. `ScanPorts` is one of the two ports the device may
have, so that every sweep takes the other for closed; `ScanLimit` is one device and
`MaxAhead` one more, so that a sweep may not get to the device. One process makes all
requests about it, one at a time and next to the sweep: two writers are enough for an
older reading to be written back. `MaxTurns` (three changes, failures or requests),
`MaxMoves` and `MaxFaults` (one more change of the device's ports, one sweep cut short,
failed statement or restart) bound what goes wrong, not what goes on: the loops run for
ever.

The deadlock check is off in `Reporting` and `Operation` alone, where a layout that is
drawn and a bounded number of samples come to an end. Handlers and alerts from one
collector are interchangeable, and `AlertRaces` uses that symmetry; no other run uses
any.

## Fairness

* Alerts: a request that is being served goes on to its end, and time passes. That
  anyone asks is no promise of the code, since only an open page asks; the
  convergence properties therefore assume it (`Watched`). `Fail` and the operator
  have no fairness.
* UDP echo: the Go scheduler runs goroutines that can run, and a read whose deadline
  has passed or whose socket is closed returns. Datagrams need not arrive.
* iperf3: the ticker goes on, calls are recorded, a killed process exits, waiting
  goroutines run. A process nobody kills may run for ever.
* Devices: the loop goes round after round (weak fairness of the loop's next step),
  and time passes. The liveness runs leave out restarts and statements that fail
  without a conflict, which may not go on for ever; conflicts with other workers,
  requests and reviews stay in.
* Checks: a loop waits for its interval, at the latest a minute, and goes on; every
  probe has a timeout, so a run that began comes to its end. A request need not be
  made (`LoopsFairness` has weak fairness of a request's steps only once it began).
* Device intelligence: the loop sweeps on and on, and a visit that began writes. Only
  sweeps that are cut short and statements that fail are bounded in number; requests of
  every kind, for any ports, may come for ever, and so may sightings of other devices.
  `PortsReturn` is about a device that from some time on is always among those a sweep
  gets to, about the configured ports and, as to the category, about times after the last
  request to scan. Both loops assume a configuration that keeps the
  check switched on.

## Proofs

The proofs assume the named assumptions on the constants, which TLC evaluates on every
run: `AlertConstants`, `EchoConstants`, `IperfConstants`, `InventoryConstants`,
`CatalogueConstants`, `SettingsConstants`, `DetectionConstants`, and for health and
reports `HealthConstants`, `SampleTypes`, `ChecksConcern` (the domains the text of a
check concerns are rated ones) and `LayoutConstants`. Hypotheses beyond these are part of a theorem's
statement and named below. Every invariant that a passing run checks has a theorem, and
so has every action property.

* `AlertStoreProofs`: `TypeCorrect`, `RowsStayConsistent`, `StoreImplementsLifecycle`. The inductive invariant
  `IInv` adds to the type and to `RowsConsistent` that no pass runs ahead of the
  clock (`NowReached`): an upsert decides whether a row is suppressed by its own,
  possibly old, reading of the clock, and only because that is not from the future
  does "suppressed now" imply "suppressed then". The single-row statements have
  lemmas of their own, about any row and any time. For the refinement one lemma per
  statement says which moves of a status it can make; the one for upserts is where the old reading
  of the clock matters. Initial states map to initial states, every step to a move
  or a stutter.
* `AlertMonitorProofs`: four theorems on `IInv`. `AcknowledgementsKept`, for any number
  of pages: a pass in flight observed everything that is kept (`KeptObserved`), and what
  a pass has still to sweep it has not observed (`SweepsUnobserved`), so no pass sweeps
  what is kept, however old its reading is. The other three are about one page
  (`Handlers = {page}`), and false with two. `OnlyLateClosing`: no row was first seen after
  the reading of a pass that is still writing (`SeenBefore`), so a sweep cannot date an
  end before its beginning; only a request to close, which brings its own reading, can. `OnlyObservedShown` and `AllObservedShown` also need that
  the alerts do not outnumber the limits of the two queries (`SweepLimit`, `ShowLimit`;
  beyond them the code leaves rows out): while a pass sweeps, what is active was
  observed, is yet to be swept or was suppressed (`SweptBut`); what it observed and has
  written stays active until it answers (`WrittenHeld`).
* `UdpEchoProofs`: `TypeCorrect`, `SocketsStayOwned`, `NeverEndedEarly`,
  `EchoImplementsSession`. The invariant adds `LeavingLate`: a goroutine about to
  clean up a socket that is still open has outlived its term. It is what makes the
  clean-up harmless.
* `IperfManagerProofs`: `TypeCorrect`, `NeverOrphaned`. `NoOrphan` is inductive
  because its second part speaks of the goroutine that still waits.
* `DeviceInventoryProofs`: four layers. `Sound` is the type and that a worker about
  to update a row will find it: rows are never deleted, and a batch has one sighting
  per address. It gives `TypeCorrect` and `ReviewAlwaysKept`. `Counted` adds that
  what is announced has a row, so the constraint on the MAC keeps it from being
  inserted, and announced, again: `AnnouncedOnce`. `Timed`, with the history of
  `DeviceDepartures`, has for each worker that it began no longer ago than the longest
  round so far has taken, and for each row that its `last_seen` is behind its last
  sighting by no more: `NeverMissedEarly`, however long rounds take. A fourth layer goes the
  other way: whatever a worker has found was in use, or named by a neighbour table, when
  its round began (`Witnessed`), and no row claims to be seen later than its address was,
  by more than the longest round (`Attested`). It gives `DepartureAlwaysNoticed`, where no
  identity is asked for by hand (`Tools = {}`): with such a request it is false, as the
  findings below explain.

* `HealthProofs`. `WorstStatus` and `FailureReported` are about the operator, not about
  steps: each of the four stages keeps `Sound` - the status is that of the worst verdict,
  and praise stands alone - and keeps every problem reported so far. The others rest on
  one invariant, `Typed`: a view has of each target a sample or none, and no lookup or
  service is near that is not far. `FailureReported` is about what each query finds,
  whatever the other one found (`Later`). `FullScoreIsEarned`: each score is in 0..100, and a
  rule that reports takes its score below 100 (`WANScored`, `DNSScored`, `GatewayScored`,
  `ServiceScored`), so an average of 100 leaves no rule; each later stage that reports
  lowers what it is given. `WorseningIsSeen` is about steps between evaluations that nothing disturbs: `Said` collects
  what the four stages say of a view, and `StatusOfSaid` reads the status off it. When
  samples get worse some verdicts go - a loss of the uplink when the gateway fails, a
  DNS outage when the public lookups answer no more, the end of a certificate that is
  not accepted any more - and for each the proof names the one that takes its place
  (`PingRulesRise`, `DNSRises`, `HTTPRises`); the limits and the baselines are monotone
  (`GradeRises`, `BaselineRises`). That the kept earlier values have a natural sum and
  number (`SumIsNatural`) is an induction on the size of a set, by least counterexample.
* `ReportProofs`, five theorems:
  - `HeadlineStaysHonest` needs the sizes of the scores: 85 or more for the services
    leaves at most 15 % of them down, 85 or more for the lookups at most a quarter of
    those through the system's resolver (`FewUnresolved`), and what the thresholds or the
    inventory report takes the total below 85.
  - `TriageKeepsSeverity`: every verdict of the agent has one of the known categories and
    codes (`Worded`), and the words looked for find the domain.
  - `ReportIsComplete`: what can be said of finitely many targets is finite
    (`VerdictsFinite`, `ToldFinite`), so the fold that groups it has a solution
    (`GroupingExists`). `GroupsOf` says of some of what is told that there is a group for
    each key, which counts what has the key and has the worst of its severities;
    `JoinedGroups` is the step by which one more keeps it, and `GroupedRight` the
    induction on the number of them. From the worst of each group and the order of the
    rows follows the worst of all (`GroupsTell`). For the bar: the four kinds of segments
    are disjoint and cover all alerts (`KindsApart`), so the counts add up and each
    segment begins where those before it end (`Filled`, `SegmentFills`).
  - `ReportsAreReadable` and `HeadingsKeep` are about documents of any length, so the
    parts still to draw cannot be looked at one by one. `Known` bounds the cursor from
    both sides, and from what is drawn, and says whether a heading was drawn last; a part
    *carries* one such bound to the next (`Carries`) when, wherever within the bound it
    is drawn, on this page or after a break, it stays inside the page and overlaps
    nothing, and parts no heading. Sequences of parts compose (`CarriesAll`,
    `MoreParts`): each section has a lemma with the bounds before and after it
    (`OverviewCarries`, `CausesCarry`, ...), and the rows of a list each carry one bound
    to the next (`Repeated`). The inductive invariant `LayoutInvariant`
    adds to both properties that the rest of the document carries what is known now to
    the end of its stage (`OnItsWay`); `DrawingCarries` is its step for `Draw`.
* `OperationProofs`: three parts without common state. `CatalogueServes`:
  `ServedUntilCutoff` alone is not inductive: `RemovesOnlyExpired` says that whatever a
  cleanup has yet to remove belongs to an answered request and is older than a cutoff
  that `oldest` has passed, `WrittenHasFile` that a row about to be saved has its file,
  `ListedIsAnswered` that a request that is still to write its file has no row.
  `ChangesAreNoticed`, however many samples lack details: a sample that was compared with
  something and found to be no change has its value among those saved
  (`ComparedIsKnown`), because the newest sample with details is among those looked through
  if any with details is (`NewestIsLookedThrough`).
  `AloneAlwaysHeals`: `RunsAlone` says, for each point at which a request that runs by
  itself may be, what its first write and its read have already put right.

The proofs corrected the models twice. The arms of the CASE that rates a domain
overlapped, which left its value open where the code's order decides (`TriageStatus` is
an IF now). And "Healthy" in the headline was said to mean more than it does: see below.

Only model-checked are the liveness properties (`ClearedInTheEnd`, `RaisedInTheEnd`,
`SessionsEnd`, `DeathNoticed`, `GaugeSettles`, `GaugesSettle`, `RecordedInTheEnd`,
`GaugesFollow`, `PortsReturn`), since liveness under fairness and ENABLED are beyond the
prover.

## Findings

1. `NewDevices` ignores its window (`storage/storage.go:785-790`): a device counts as
   new until it is reviewed or the agent restarts, while the gauge's text
   (`metrics/metrics.go:108`) promises "LAN devices first seen within the recent
   new-device window." Run `DeviceNewForEver`.
2. `UpdateDeviceIdentityByIP` (`storage/storage.go:744-762`) refreshes `last_seen` of
   every row with the address. When a monitored host leaves and another is given its
   address, each identity sighting of the second keeps the first from being missing;
   the gauge's text (`metrics/metrics.go:112`) is "LAN devices missing from recent
   discovery." Run `DeviceAddressReused`. `DepartureNoticed` is the weaker property
   that does hold: a device is missing once its *address* is out of use.

Two more things a reader of the models should know. An identity request refreshes
`last_seen` whether or not the host answered (`Identify`), so the departure runs have
no identity requests: with them a device that nobody hears of stays present for as
long as somebody asks about it. So does a host that has left, for as long as a neighbour
table names it (`runner/discovery.go:47-118` takes entries of any state). And with two
pages a pass that read the clock early may clear a row that a later one created, at a time
before it was first seen; with one page only a request to close can, if the row is purged
and inserted again between its reading of the clock and its statement.

The same for the later modules; none of these contradicts a text of the repository,
so none is a finding.

* Health. A lookup or a page that was slow at a critical limit and then fails
  becomes a warning only. A warning of an advanced check lowers the score only of a
  site that was healthy so far. A certificate with 0 days left gives no TLS verdict.
  Public lookups that succeed in 90 to 95 % of cases are in the gap between two
  rules. No row pushes a disabled gateway's last row out of `Evaluate`'s window.
* Reports. The headline is made of the scores alone (`report/report.go:705-728`): one of
  seven services that is down, or whose certificate is not accepted, which is critical,
  leaves every score at 85 or more and the headline at "Healthy"; so does a warning of an
  advanced check next to another problem. The third way is an evaluation that contradicts
  itself: one of four lookups failed when `Evaluate` looked, a warning and a DNS score of
  85, and the thresholds, which would lower the total, find none, as their query fails or
  a later sample has been saved (`agent/thresholds.go:19-27`). `HeadlineIsHonest` says that
  nothing else does. The line that counts further findings overlaps the last finding's box by
  2.5 points, and the heading of the last section may be alone on its page. A critical
  advanced check is listed as a warning among the period's problems. A warning whose
  title says "failed" makes its domain critical on the triage board. The network's
  load is computed from the YAML file's intervals (`agent/agent.go:934`), not from
  those in use.
* Settings. `PUT /config/discovery` without networks is answered with none, but once a
  document exists the file's networks are scanned. A section emptied in the document
  falls back to the file's, so what the file switches on cannot be switched off.
  Thresholds per target are taken from the document even when it has none. `{}` is
  accepted as a document. Of two overlapping requests, one may undo the other's whole
  document, or leave the two rows different until the next request.
* Checks. Five samples in a row without details hide a change: the next one is compared
  with none (`blind`), and a new address after such an outage is no warning. An invalid answer of
  the address service has details, so the next valid one is reported as a change.
  A request that is given up saves a failure for each target it has not probed yet.
* Device intelligence. A sweep whose deadline passes, or a request for fewer ports,
  takes the others for closed, and every sweep does so with the ports outside its
  configured list: 631 is not in the default one (`config/config.go:244`), so what a
  request found there is gone after the next sweep. A category is sticky: services are never forgotten, and
  "ipp" keeps a device a printer after port 631 has closed.
* Catalogue. A file that cannot be removed, or whose row cannot be saved, stays for
  ever. A cleanup cut short leaves rows whose download fails until the next one.

## Not modelled, and why

The user interface (one embedded page), the mDNS registration, the token comparison
and the monitoring stack, which is the configuration of other programs, keep no state
that interacts with anything here. The diagnostic and field tools run one probe and
return its result. The start of the program is a straight line of calls (what it does
to each table is the restart action of its module); at its stop the database is closed
a moment before the process ends. The external programs are modelled by what they may
return, and so is the discovery runner: `DeviceInventory` takes any part of what its tools
may find, with one address for each MAC as `mergeDevice` leaves it, but not the merge of
names, vendors and services. The comparison of device
expectations, the device events and the Wi-Fi observations are tables that one
request appends to or upserts. Of the speed test and the other advanced checks only
the rows they leave for the health and the reports are here. Texts, fonts, curves and
PDF objects of reports, logs and metrics are left out.

What is assumed of SQLite: a statement is atomic, and its UNIQUE constraints hold.
What is assumed of times as texts: their order is that of the times, which is true of
different seconds and not always within one.
