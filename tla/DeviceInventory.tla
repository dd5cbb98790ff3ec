-------------------------- MODULE DeviceInventory --------------------------
(***************************************************************************)
(* The devices table of internal/storage/storage.go and who writes it: the *)
(* discovery rounds of internal/agent/agent.go (a loop, and requests that  *)
(* run the same round), the identity requests of tools_api.go, the         *)
(* operator, and the start of the program.                                 *)
(*                                                                         *)
(* Nothing is a transaction: a round looks a device up and inserts or      *)
(* updates it in a later statement, then refreshes identities by address,  *)
(* then counts what is new and missing and sets the gauges.  One SQL       *)
(* statement is one step.                                                  *)
(*                                                                         *)
(* A device is its storage key: the MAC, or the address of a host that was *)
(* found without one.  Names, vendors, ports, seen_count and the number of *)
(* all devices are left out.                                               *)
(***************************************************************************)
EXTENDS Integers, FiniteSets

CONSTANTS
    Macs,          \* the hosts
    IPs,           \* the addresses, numbers in the order the rounds sort them
    Bare,          \* the addresses at which hosts may be found without MAC
    Lingering,     \* the addresses at which a neighbour table may go on naming a
                   \* host that left
    Watched,       \* the devices whose absence the operator may ask to hear of
    Loop,          \* the goroutine of runDiscoveryLoop
    Requests,      \* goroutines that serve a request for a discovery round
    Tools,         \* goroutines that serve a request for a device's identity
    MissingAfter,  \* 24 hours
    MaxTime,       \* bound on the clock
    Nobody,        \* no host has the address
    NoRow

Keys == Macs \cup IPs
Workers == {Loop} \cup Requests \cup Tools

Row == [ip : IPs, first : Nat, last : Nat, known : BOOLEAN, monitored : BOOLEAN]

(* What a scan says of one host. *)
Sighting == [key : Keys, ip : IPs]

ASSUME InventoryConstants ==
    /\ IPs \subseteq Nat /\ Bare \subseteq IPs /\ Lingering \subseteq IPs
    /\ Watched \subseteq Keys /\ Macs \cap IPs = {}
    /\ IsFiniteSet(Macs) /\ IsFiniteSet(IPs)
    /\ MissingAfter \in Nat /\ MaxTime \in Nat
    /\ Loop \notin Tools /\ Requests \cap Tools = {}
    /\ Nobody \notin Keys /\ NoRow \notin Row

VARIABLES
    clock,
    lan,        \* per address, the host that has it
    stale,      \* per address, a host that left and that neighbour tables still name
    rows,       \* the table
    rounds,     \* per worker, the local variables of the round it runs
    gauge,      \* the LAN gauges: devices that are new, and missing
    announced,  \* history: the devices counted in a "new devices detected" event
    seen        \* history: when a sighting of the device was last written

vars == <<clock, lan, stale, rows, rounds, gauge, announced, seen>>

Round == [pc : {"idle", "selecting", "inserting", "updating", "enriching", "identifying",
                "counting", "recording"},
          now : Nat, batch : SUBSET Sighting, todo : SUBSET Sighting,
          device : SUBSET Sighting,  \* the one whose row was looked up
          inserted : SUBSET Keys, new : SUBSET Keys, missing : SUBSET Keys]

NewRoundSince(pc, batch) ==
    [pc |-> pc, now |-> clock - MissingAfter, batch |-> batch, todo |-> batch, device |-> {},
     inserted |-> {}, new |-> {}, missing |-> {}]
NewRound(pc, batch) ==
    [pc |-> pc, now |-> clock, batch |-> batch, todo |-> batch, device |-> {},
     inserted |-> {}, new |-> {}, missing |-> {}]

IdleRound == [pc |-> "idle", now |-> 0, batch |-> {}, todo |-> {}, device |-> {},
              inserted |-> {}, new |-> {}, missing |-> {}]

Init ==
    /\ clock = 0
    /\ lan = [ip \in IPs |-> Nobody] /\ stale = lan
    /\ rows = [k \in Keys |-> NoRow]
    /\ rounds = [w \in Workers |-> IdleRound]
    /\ gauge = [new |-> 0, missing |-> 0]
    /\ announced = {} /\ seen = [k \in Keys |-> 0]

-----------------------------------------------------------------------------
(* The surroundings. *)

(* Time passes, also while rounds run: what they wait for (a name, the database)
   does not always obey their timeout. *)
Tick ==
    /\ clock < MaxTime
    /\ clock' = clock + 1
    /\ UNCHANGED <<lan, stale, rows, rounds, gauge, announced, seen>>

(* A host gets an address, or gives it back; a neighbour table may go on naming
   it there until it forgets, whoever comes next. *)
Connect(m, ip) ==
    /\ lan[ip] = Nobody /\ \A other \in IPs : lan[other] # m
    /\ lan' = [lan EXCEPT ![ip] = m]
    /\ UNCHANGED <<clock, stale, rows, rounds, gauge, announced, seen>>

Disconnect(ip) ==
    /\ lan[ip] # Nobody
    /\ lan' = [lan EXCEPT ![ip] = Nobody]
    /\ \/ UNCHANGED stale
       \/ ip \in Lingering /\ stale' = [stale EXCEPT ![ip] = lan[ip]]
    /\ UNCHANGED <<clock, rows, rounds, gauge, announced, seen>>

Forgotten(ip) ==
    /\ stale[ip] # Nobody
    /\ stale' = [stale EXCEPT ![ip] = Nobody]
    /\ UNCHANGED <<clock, lan, rows, rounds, gauge, announced, seen>>

-----------------------------------------------------------------------------
(* What the statements make of one row. *)

Fresh(s, t) == [ip |-> s.ip, first |-> t, last |-> t, known |-> FALSE, monitored |-> FALSE]

RefreshedUnstamped(r, s, t) == [r EXCEPT !.ip = s.ip]
Refreshed(r, s, t) == [r EXCEPT !.ip = s.ip, !.last = t]

Exists(k) == rows[k] # NoRow

(* UNIQUE(site_id, mac) *)
OverwritesIt(k) == FALSE
ViolatesUnique(k) == Exists(k)

(* The batch is sorted by address; the devices of one address are in any order. *)
IsNext(w, s) == s \in rounds[w].todo /\ \A o \in rounds[w].todo : s.ip <= o.ip

-----------------------------------------------------------------------------
(* UpsertDevices, by worker w. *)

(* The batch is done, or given up.  A round goes on to the identities of those
   of its devices that lack a name and answer, an identity request is over. *)
EndUpsert(w) ==
    IF w \in Tools THEN rounds' = [rounds EXCEPT ![w] = IdleRound]
    ELSE \E named \in SUBSET rounds[w].batch :
            rounds' = [rounds EXCEPT ![w].pc = "enriching", ![w].batch = {}, ![w].todo = named,
                                        ![w].device = {}]

SelectDevice(w) ==
    /\ rounds[w].pc = "selecting"
    /\ \E s \in rounds[w].todo :
          /\ IsNext(w, s)
          /\ rounds' = [rounds EXCEPT ![w].pc = IF Exists(s.key) THEN "updating" ELSE "inserting",
                                      ![w].device = {s}]
    /\ UNCHANGED <<clock, lan, stale, rows, gauge, announced, seen>>

AllSaved(w) ==
    /\ rounds[w].pc = "selecting" /\ rounds[w].todo = {}
    /\ EndUpsert(w)
    /\ UNCHANGED <<clock, lan, stale, rows, gauge, announced, seen>>

Insert(w) ==
    /\ rounds[w].pc = "inserting"
    /\ \E s \in rounds[w].device :
          /\ ~ViolatesUnique(s.key)
          /\ rows' = [rows EXCEPT ![s.key] = Fresh(s, rounds[w].now)]
          /\ seen' = [seen EXCEPT ![s.key] = clock]
          /\ rounds' = [rounds EXCEPT ![w].pc = "selecting", ![w].todo = @ \ {s}, ![w].device = {},
                                      ![w].inserted = @ \cup {s.key}]
    /\ UNCHANGED <<clock, lan, stale, gauge, announced>>

(* Another worker inserted the device since the SELECT: the statement fails
   and the rest of the batch is dropped. *)
InsertFails(w) ==
    /\ rounds[w].pc = "inserting"
    /\ \E s \in rounds[w].device : ViolatesUnique(s.key)
    /\ EndUpsert(w)
    /\ UNCHANGED <<clock, lan, stale, rows, gauge, announced, seen>>

NothingLeft(w, s) == {}
LeftAfter(w, s) == rounds[w].todo \ {s}

UpdateSeen(w) ==
    /\ rounds[w].pc = "updating"
    /\ \E s \in rounds[w].device :
          /\ rows' = [rows EXCEPT ![s.key] = Refreshed(rows[s.key], s, rounds[w].now)]
          /\ seen' = [seen EXCEPT ![s.key] = clock]
          /\ rounds' = [rounds EXCEPT ![w].pc = "selecting", ![w].todo = LeftAfter(w, s),
                                      ![w].device = {}]
    /\ UNCHANGED <<clock, lan, stale, gauge, announced>>

(* Any of the statements fails for another reason. *)
StatementFails(w) ==
    /\ rounds[w].pc \in {"selecting", "inserting", "updating"} /\ rounds[w].todo # {}
    /\ EndUpsert(w)
    /\ UNCHANGED <<clock, lan, stale, rows, gauge, announced, seen>>

UpsertDevices(w) ==
    \/ SelectDevice(w) \/ AllSaved(w)
    \/ Insert(w) \/ InsertFails(w) \/ UpdateSeen(w)

(* UpdateDeviceIdentityByIP: every row with the address counts as seen. *)
SeenAt(ip) == [k \in Keys |-> IF Exists(k) /\ rows[k].ip = ip THEN [rows[k] EXCEPT !.last = clock]
                              ELSE rows[k]]

-----------------------------------------------------------------------------
(* A discovery round: the loop's, or a request's. *)

(* What the scans and neighbour tables may say of an address: the MAC of the
   host that has it, that of one that left or, where no tool could tell a MAC,
   just that a host is there. *)
Found(s) ==
    \/ s.key = lan[s.ip] \/ s.key = stale[s.ip]
    \/ s.key = s.ip /\ s.ip \in Bare /\ lan[s.ip] # Nobody

(* mergeDevice: some of it, at one address for each MAC and with no nameless host
   at an address for which there is a MAC. *)
Scans ==
    {B \in SUBSET {s \in Sighting : Found(s)} :
        \A s, o \in B : s.key = o.key \/ (s.key = s.ip /\ s.ip = o.ip) => s = o}

Discover(w) ==
    /\ w \notin Tools /\ rounds[w].pc = "idle"
    /\ \E B \in Scans : rounds' = [rounds EXCEPT ![w] = NewRound("selecting", B)]
    /\ UNCHANGED <<clock, lan, stale, rows, gauge, announced, seen>>

(* enrichDevices: the next device that answered; an error is passed over. *)
EnrichOne(w) ==
    /\ rounds[w].pc = "enriching"
    /\ \E s \in rounds[w].todo :
          /\ IsNext(w, s)
          /\ rows' = SeenAt(s.ip)
          /\ rounds' = [rounds EXCEPT ![w].todo = @ \ {s}]
    /\ UNCHANGED <<clock, lan, stale, gauge, announced, seen>>

(* The window that NewDevices is given plays no part in its query. *)
NewDevices == {k \in Keys : Exists(k) /\ ~rows[k].known}

MissingReviewed ==
    {k \in Keys : Exists(k) /\ rows[k].known /\ rows[k].monitored /\ rows[k].last < clock - MissingAfter}
MissingDevices ==
    {k \in Keys : Exists(k) /\ rows[k].monitored /\ rows[k].last < clock - MissingAfter}

CountNew(w) ==
    /\ rounds[w].pc = "enriching" /\ rounds[w].todo = {}
    /\ rounds' = [rounds EXCEPT ![w].pc = "counting", ![w].new = NewDevices]
    /\ UNCHANGED <<clock, lan, stale, rows, gauge, announced, seen>>

CountMissing(w) ==
    /\ rounds[w].pc = "counting"
    /\ rounds' = [rounds EXCEPT ![w].pc = "recording", ![w].missing = MissingDevices]
    /\ UNCHANGED <<clock, lan, stale, rows, gauge, announced, seen>>

GaugeIfNew(w) ==
    IF rounds[w].inserted = {} THEN gauge
    ELSE [new |-> Cardinality(rounds[w].new), missing |-> Cardinality(rounds[w].missing)]
GaugeOf(w) == [new |-> Cardinality(rounds[w].new), missing |-> Cardinality(rounds[w].missing)]

(* RecordLAN, and the event when there were new devices. *)
RecordLAN(w) ==
    /\ rounds[w].pc = "recording"
    /\ gauge' = GaugeOf(w)
    /\ announced' = announced \cup rounds[w].inserted
    /\ rounds' = [rounds EXCEPT ![w] = IdleRound]
    /\ UNCHANGED <<clock, lan, stale, rows, seen>>

RunDiscovery(w) ==
    \/ Discover(w) \/ UpsertDevices(w) \/ EnrichOne(w)
    \/ CountNew(w) \/ CountMissing(w) \/ RecordLAN(w)

-----------------------------------------------------------------------------
(* toolDeviceEnrich: the identity of whatever has, or had, an address. *)

(* The device that was seen last at the address: its MAC, if it has a row and
   the row has one.  (A row without MAC always has the address it is named for.) *)
KeysAt(ip) ==
    LET at == {k \in Keys : Exists(k) /\ rows[k].ip = ip}
    IN  IF at = {} THEN {ip}
        ELSE {k \in at : \A other \in at : rows[other].last <= rows[k].last}

LookUp(w, ip) ==
    /\ rounds[w].pc = "idle"
    /\ \E k \in KeysAt(ip) :
          rounds' = [rounds EXCEPT ![w] = NewRound("identifying", {[key |-> k, ip |-> ip]})]
    /\ UNCHANGED <<clock, lan, stale, rows, gauge, announced, seen>>

(* The update, and the upsert to come when it found no row.  The address need
   not have answered. *)
Identify(w) ==
    /\ rounds[w].pc = "identifying"
    /\ \E s \in rounds[w].batch :
          IF \E k \in Keys : Exists(k) /\ rows[k].ip = s.ip
          THEN rows' = SeenAt(s.ip) /\ rounds' = [rounds EXCEPT ![w] = IdleRound]
          ELSE /\ rounds' = [rounds EXCEPT ![w].pc = "selecting", ![w].now = clock]
               /\ UNCHANGED rows
    /\ UNCHANGED <<clock, lan, stale, gauge, announced, seen>>

(* A query or an identity update fails, and the program goes on without its
   result: nothing is counted, the address has no MAC, the request is over. *)
QueryFails(w) ==
    /\ \/ /\ rounds[w].pc = "enriching" /\ rounds[w].todo = {}
          /\ rounds' = [rounds EXCEPT ![w].pc = "counting", ![w].new = {}]
       \/ /\ rounds[w].pc = "counting"
          /\ rounds' = [rounds EXCEPT ![w].pc = "recording", ![w].missing = {}]
       \/ /\ w \in Tools /\ rounds[w].pc = "idle"
          /\ \E ip \in IPs :
                rounds' = [rounds EXCEPT ![w] = NewRound("identifying", {[key |-> ip, ip |-> ip]})]
       \/ /\ rounds[w].pc = "identifying"
          /\ rounds' = [rounds EXCEPT ![w] = IdleRound]
    /\ UNCHANGED <<clock, lan, stale, rows, gauge, announced, seen>>

-----------------------------------------------------------------------------
(* The operator, and the start of the program. *)

MarkDeviceKnown(k) ==
    /\ Exists(k)
    /\ rows' = [rows EXCEPT ![k].known = TRUE]
    /\ UNCHANGED <<clock, lan, stale, rounds, gauge, announced, seen>>

(* MarkAllNewDevicesKnown, and what migrate does to the table at every start. *)
AllKnown == [k \in Keys |-> IF Exists(k) THEN [rows[k] EXCEPT !.known = TRUE] ELSE NoRow]

MarkAllNewDevicesKnown == rows' = AllKnown /\ UNCHANGED <<clock, lan, stale, rounds, gauge, announced, seen>>

UpdateDevice(k) ==
    /\ Exists(k)
    /\ \E on \in BOOLEAN : rows' = [rows EXCEPT ![k].monitored = on]
    /\ UNCHANGED <<clock, lan, stale, rounds, gauge, announced, seen>>

Restart ==
    /\ rows' = AllKnown
    /\ rounds' = [w \in Workers |-> IdleRound]
    /\ gauge' = [new |-> 0, missing |-> 0]
    /\ UNCHANGED <<clock, lan, stale, announced, seen>>

-----------------------------------------------------------------------------
(* Everything but what the program does not do by itself again and again:
   a statement that fails although no one is in its way, and a restart. *)
Steady ==
    \/ Tick
    \/ \E ip \in IPs : Disconnect(ip) \/ Forgotten(ip) \/ \E m \in Macs : Connect(m, ip)
    \/ \E w \in {Loop} \cup Requests : RunDiscovery(w)
    \/ \E w \in Tools : Identify(w) \/ UpsertDevices(w) \/ \E ip \in IPs : LookUp(w, ip)
    \/ (\E k \in Keys : MarkDeviceKnown(k)) \/ \E k \in Watched : UpdateDevice(k)
    \/ MarkAllNewDevicesKnown

Next == Steady \/ Restart \/ \E w \in Workers : StatementFails(w) \/ QueryFails(w)

Spec == Init /\ [][Next]_vars

(* The discovery loop runs round after round.  Statements do not fail for
   ever, and nobody restarts the program for ever. *)
FairSpec == Init /\ [][Steady]_vars /\ WF_vars(RunDiscovery(Loop)) /\ WF_vars(Tick)

-----------------------------------------------------------------------------
(* The properties. *)

(* The type of the table and of the rounds' local variables. *)
TypeOK ==
    /\ clock \in Nat
    /\ lan \in [IPs -> Macs \cup {Nobody}] /\ stale \in [IPs -> Macs \cup {Nobody}]
    /\ rows \in [Keys -> Row \cup {NoRow}]
    /\ rounds \in [Workers -> Round]
    /\ gauge \in [new : Nat, missing : Nat]
    /\ announced \subseteq Keys /\ seen \in [Keys -> Nat]

(* Rounds that race for the same new device do not both count it in an event:
   what the rounds in flight have inserted is theirs alone and not announced
   yet.  (A device may never be announced: an identity request inserted it, or
   the program stopped.) *)
NeverAnnouncedTwice ==
    \A w \in Workers :
       /\ \A k \in rounds[w].inserted : Exists(k) /\ k \notin announced
       /\ \A v \in Workers \ {w} : rounds[w].inserted \cap rounds[v].inserted = {}

(* A reviewed device stays reviewed and no device's first sighting changes,
   also when a round decided to insert a device that by then another worker
   has inserted and the operator has reviewed. *)
ReviewKept ==
    [][\A k \in Keys : Exists(k) =>
          /\ rows'[k] # NoRow /\ rows'[k].first = rows[k].first
          /\ rows[k].known => rows'[k].known]_vars

(* The loop records in the end what it sees again and again, although each
   race it loses makes it drop a batch. *)
RecordedInTheEnd ==
    \A k \in Macs \cup Bare :
       []<>(\E s \in rounds[Loop].batch : s.key = k) => <>Exists(k)

(* The gauges agree in the end with a table that settles, although rounds
   record what they counted earlier and the operator's requests record nothing. *)
GaugesSettle ==
    \A n \in 0..Cardinality(Keys) :
       /\ <>[](Cardinality(NewDevices) = n) => <>[](gauge.new = n)
       /\ <>[](Cardinality(MissingDevices) = n) => <>[](gauge.missing = n)

(* "LAN devices first seen within the recent new-device window." *)
NewWithinWindow == \A k \in NewDevices : clock - rows[k].first <= MissingAfter
=============================================================================
