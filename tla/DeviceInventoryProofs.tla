----------------------- MODULE DeviceInventoryProofs ------------------------
(***************************************************************************)
(* Theorems of DeviceInventory and of DeviceDepartures, for any hosts,     *)
(* addresses and workers.                                                  *)
(*                                                                         *)
(* The invariant has four layers.  Sound: the types, and that a worker     *)
(* about to update a row will find it, because rows are never deleted.     *)
(* Counted: what is announced has a row, so what a worker inserts was not  *)
(* announced before.  Timed: no worker's time lies further back than the   *)
(* longest round has taken, so no row's last_seen does either.  Departing: *)
(* nor does a row's last_seen lie more than that ahead of the last use of  *)
(* the row's address.                                                      *)
(***************************************************************************)
EXTENDS DeviceDepartures, FiniteSetTheorems, TLAPS

Prepared(w) == rounds[w].pc = "updating" => \A s \in rounds[w].device : Exists(s.key)

Sound == TypeOK /\ \A w \in Workers : Prepared(w)

LEMMA CardinalityOfKeys ==
    ASSUME NEW S, S \subseteq Keys
    PROVE  Cardinality(S) \in Nat
  BY InventoryConstants, FS_Union, FS_Subset, FS_CardinalityType DEF Keys

(* A step that changes nothing but the local variables of worker w. *)
LEMMA LocalStep ==
    ASSUME Sound, NEW w \in Workers, NEW r \in Round, rounds' = [rounds EXCEPT ![w] = r],
           \A k \in Keys : Exists(k) => Exists(k)',
           r.pc = "updating" => \A s \in r.device : Exists(s.key)'
    PROVE  rounds' \in [Workers -> Round] /\ \A v \in Workers : Prepared(v)'
<1>1. rounds \in [Workers -> Round]
  BY DEF Sound, TypeOK
<1>2. rounds' \in [Workers -> Round] /\ rounds'[w] = r
  BY <1>1
<1>3. \A v \in Workers \ {w} : rounds'[v] = rounds[v] /\ rounds[v] \in Round
  BY <1>1
<1>4. Prepared(w)'
  BY <1>2 DEF Prepared
<1>5. ASSUME NEW v \in Workers \ {w} PROVE Prepared(v)'
  <2>1. Prepared(v) /\ rounds'[v] = rounds[v]
    BY <1>3 DEF Sound
  <2>2. \A s \in rounds[v].device : s.key \in Keys
    BY <1>3 DEF Round, Sighting
  <2> QED
    BY <2>1, <2>2 DEF Prepared
<1> QED
  BY <1>2, <1>4, <1>5

(* The end of an upsert, whatever ended it. *)
LEMMA EndUpsertSound ==
    ASSUME Sound, NEW w \in Workers, EndUpsert(w), UNCHANGED rows
    PROVE  rounds' \in [Workers -> Round] /\ \A v \in Workers : Prepared(v)'
<1>0. rounds \in [Workers -> Round] /\ rounds[w] \in Round /\ Prepared(w)
  BY DEF Sound, TypeOK
<1>1. \A k \in Keys : Exists(k) => Exists(k)'
  BY DEF Exists
<1>2. CASE w \in Tools
  <2>1. IdleRound \in Round /\ IdleRound.pc = "idle" /\ IdleRound.batch = {} /\ IdleRound.todo = {}
    BY DEF IdleRound, Round
  <2>2. rounds' = [rounds EXCEPT ![w] = IdleRound]
    BY <1>2 DEF EndUpsert
  <2> QED
    BY <1>1, <2>1, <2>2, LocalStep
<1>3. CASE w \notin Tools
  <2>1. PICK named \in SUBSET rounds[w].batch :
           rounds' = [rounds EXCEPT ![w].pc = "enriching", ![w].batch = {}, ![w].todo = named,
                                  ![w].device = {}]
    BY <1>3 DEF EndUpsert
  <2> DEFINE r == [rounds[w] EXCEPT !.pc = "enriching", !.batch = {}, !.todo = named, !.device = {}]
  <2>2. rounds' = [rounds EXCEPT ![w] = r]
    BY <1>0, <2>1
  <2>3. r \in Round /\ r.pc = "enriching" /\ r.batch = {} /\ r.todo = named
    BY <1>0 DEF Round
  <2> HIDE DEF r
  <2> QED
    BY <1>1, <2>2, <2>3, LocalStep
<1> QED
  BY <1>2, <1>3

LEMMA InitSound == Init => Sound
<1> SUFFICES ASSUME Init PROVE Sound
  OBVIOUS
<1>1. IdleRound \in Round
  BY DEF IdleRound, Round
<1>2. TypeOK
  BY <1>1 DEF Init, TypeOK
<1>3. ASSUME NEW w \in Workers PROVE Prepared(w)
  BY DEF Init, IdleRound, Prepared
<1> QED
  BY <1>2, <1>3 DEF Sound

(* One step of UpsertDevices. *)
LEMMA UpsertSound ==
    ASSUME Sound, NEW w \in Workers, UpsertDevices(w) \/ StatementFails(w)
    PROVE  Sound'
<1>0. /\ rounds \in [Workers -> Round] /\ rounds[w] \in Round /\ Prepared(w)
      /\ rows \in [Keys -> Row \cup {NoRow}] /\ seen \in [Keys -> Nat]
      /\ rounds[w].now \in Nat /\ clock \in Nat
  BY DEF Sound, TypeOK, Round
<1>s. \A s \in rounds[w].todo \cup rounds[w].device :
         s \in Sighting /\ s.key \in Keys /\ s.ip \in IPs
  BY <1>0, InventoryConstants DEF Round, Sighting
<1>1. CASE SelectDevice(w)
  <2>1. PICK s \in rounds[w].todo :
           rounds' = [rounds EXCEPT ![w].pc = IF Exists(s.key) THEN "updating" ELSE "inserting",
                                   ![w].device = {s}]
    BY <1>1 DEF SelectDevice
  <2> DEFINE r == [rounds[w] EXCEPT !.pc = IF Exists(s.key) THEN "updating" ELSE "inserting",
                               !.device = {s}]
  <2>2. rounds' = [rounds EXCEPT ![w] = r]
    BY <1>0, <2>1
  <2>3. /\ r \in Round /\ r.batch = rounds[w].batch /\ r.todo = rounds[w].todo
        /\ r.pc = IF Exists(s.key) THEN "updating" ELSE "inserting"
    BY <1>0 DEF Round
  <2>5. \A k \in Keys : Exists(k)' <=> Exists(k)
    BY <1>1 DEF SelectDevice, Exists
  <2>7. r.device = {s} /\ (r.pc = "updating" => Exists(s.key)')
    BY <1>s, <2>3, <2>5
  <2> HIDE DEF r
  <2>8. rounds' \in [Workers -> Round] /\ \A v \in Workers : Prepared(v)'
    BY <2>2, <2>3, <2>5, <2>7, LocalStep
  <2> QED
    BY <1>1, <2>8 DEF SelectDevice, Sound, TypeOK
<1>2. CASE EndUpsert(w) /\ UNCHANGED <<clock, lan, stale, rows, gauge, announced, seen>>
  BY <1>2, EndUpsertSound DEF Sound, TypeOK
<1>3. CASE Insert(w)
  <2>1. PICK s \in rounds[w].device :
           /\ rows' = [rows EXCEPT ![s.key] = Fresh(s, rounds[w].now)]
           /\ seen' = [seen EXCEPT ![s.key] = clock]
           /\ rounds' = [rounds EXCEPT ![w].pc = "selecting", ![w].todo = @ \ {s}, ![w].device = {},
                                       ![w].inserted = @ \cup {s.key}]
    BY <1>3 DEF Insert
  <2> DEFINE r == [rounds[w] EXCEPT !.pc = "selecting", !.todo = @ \ {s}, !.device = {},
                               !.inserted = @ \cup {s.key}]
  <2>2. rounds' = [rounds EXCEPT ![w] = r]
    BY <1>0, <2>1
  <2>3. /\ r \in Round /\ r.batch = rounds[w].batch /\ r.todo = rounds[w].todo \ {s}
        /\ r.pc = "selecting"
    BY <1>0, <1>s DEF Round
  <2>5. Fresh(s, rounds[w].now) \in Row
    BY <1>0, <1>s DEF Fresh, Row
  <2>6. rows' \in [Keys -> Row \cup {NoRow}] /\ seen' \in [Keys -> Nat]
    BY <1>0, <2>1, <2>5
  <2>7. \A k \in Keys : Exists(k) => Exists(k)'
    BY <1>0, <2>1, <2>5, InventoryConstants DEF Exists
  <2> HIDE DEF r
  <2>8. rounds' \in [Workers -> Round] /\ \A v \in Workers : Prepared(v)'
    BY <2>2, <2>3, <2>7, LocalStep
  <2> QED
    BY <1>3, <2>6, <2>8 DEF Insert, Sound, TypeOK
<1>4. CASE UpdateSeen(w)
  <2>1. PICK s \in rounds[w].device :
           /\ rows' = [rows EXCEPT ![s.key] = Refreshed(rows[s.key], s, rounds[w].now)]
           /\ seen' = [seen EXCEPT ![s.key] = clock]
           /\ rounds' = [rounds EXCEPT ![w].pc = "selecting", ![w].todo = rounds[w].todo \ {s},
                                       ![w].device = {}]
    BY <1>4 DEF UpdateSeen, LeftAfter
  <2> DEFINE r == [rounds[w] EXCEPT !.pc = "selecting", !.todo = rounds[w].todo \ {s}, !.device = {}]
  <2>2. rounds' = [rounds EXCEPT ![w] = r]
    BY <1>0, <2>1
  <2>3. /\ r \in Round /\ r.batch = rounds[w].batch /\ r.todo = rounds[w].todo \ {s}
        /\ r.pc = "selecting"
    BY <1>0, <1>s DEF Round
  <2>5. rows[s.key] \in Row
    BY <1>0, <1>4, <1>s, <2>1 DEF UpdateSeen, Prepared, Exists
  <2>6. Refreshed(rows[s.key], s, rounds[w].now) \in Row
    BY <1>0, <1>s, <2>5 DEF Refreshed, Row
  <2>7. rows' \in [Keys -> Row \cup {NoRow}] /\ seen' \in [Keys -> Nat]
    BY <1>0, <2>1, <2>6
  <2>8. \A k \in Keys : Exists(k) => Exists(k)'
    BY <1>0, <2>1, <2>6, InventoryConstants DEF Exists
  <2> HIDE DEF r
  <2>9. rounds' \in [Workers -> Round] /\ \A v \in Workers : Prepared(v)'
    BY <2>2, <2>3, <2>8, LocalStep
  <2> QED
    BY <1>4, <2>7, <2>9 DEF UpdateSeen, Sound, TypeOK
<1> QED
  BY <1>1, <1>2, <1>3, <1>4 DEF UpsertDevices, StatementFails, AllSaved, InsertFails

(* A step that leaves the local variables alone and keeps every row. *)
LEMMA RowsStep ==
    ASSUME Sound, UNCHANGED rounds, \A k \in Keys : Exists(k) => Exists(k)'
    PROVE  \A v \in Workers : Prepared(v)'
<1>1. ASSUME NEW v \in Workers PROVE Prepared(v)'
  <2>1. Prepared(v) /\ rounds[v] \in Round
    BY DEF Sound, TypeOK
  <2>2. \A s \in rounds[v].device : s.key \in Keys
    BY <2>1 DEF Round, Sighting
  <2> QED
    BY <2>1, <2>2 DEF Prepared
<1> QED
  BY <1>1

LEMMA IdleIsRound ==
    /\ IdleRound \in Round /\ IdleRound.pc = "idle"
    /\ IdleRound.batch = {} /\ IdleRound.todo = {} /\ IdleRound.device = {}
    /\ IdleRound.inserted = {}
  BY DEF IdleRound, Round

LEMMA SeenAtRows ==
    ASSUME TypeOK, NEW ip \in IPs, rows' = SeenAt(ip)
    PROVE  /\ rows' \in [Keys -> Row \cup {NoRow}]
           /\ \A k \in Keys : Exists(k)' <=> Exists(k)
<1>1. ASSUME NEW k \in Keys PROVE rows'[k] \in Row \cup {NoRow} /\ (Exists(k)' <=> Exists(k))
  <2>1. rows[k] \in Row \cup {NoRow} /\ clock \in Nat
    BY DEF TypeOK
  <2>2. rows'[k] = IF Exists(k) /\ rows[k].ip = ip THEN [rows[k] EXCEPT !.last = clock] ELSE rows[k]
    BY DEF SeenAt
  <2>3. rows[k] \in Row => [rows[k] EXCEPT !.last = clock] \in Row
    BY <2>1 DEF Row
  <2> QED
    BY <2>1, <2>2, <2>3, InventoryConstants DEF Exists
<1>2. rows' = [k \in Keys |-> rows'[k]]
  BY DEF SeenAt
<1> QED
  BY <1>1, <1>2

LEMMA AllKnownRows ==
    ASSUME TypeOK, rows' = AllKnown
    PROVE  /\ rows' \in [Keys -> Row \cup {NoRow}]
           /\ \A k \in Keys : Exists(k)' <=> Exists(k)
<1>1. ASSUME NEW k \in Keys PROVE rows'[k] \in Row \cup {NoRow} /\ (Exists(k)' <=> Exists(k))
  <2>1. rows[k] \in Row \cup {NoRow}
    BY DEF TypeOK
  <2>2. rows'[k] = IF Exists(k) THEN [rows[k] EXCEPT !.known = TRUE] ELSE NoRow
    BY DEF AllKnown
  <2>3. rows[k] \in Row => [rows[k] EXCEPT !.known = TRUE] \in Row
    BY DEF Row
  <2> QED
    BY <2>1, <2>2, <2>3, InventoryConstants DEF Exists
<1>2. rows' = [k \in Keys |-> rows'[k]]
  BY DEF AllKnown
<1> QED
  BY <1>1, <1>2

(* The steps of a discovery round outside UpsertDevices. *)
LEMMA DiscoverySound ==
    ASSUME Sound, NEW w \in Workers,
           Discover(w) \/ EnrichOne(w) \/ CountNew(w) \/ CountMissing(w) \/ RecordLAN(w)
    PROVE  Sound'
<1>0. /\ rounds \in [Workers -> Round] /\ rounds[w] \in Round /\ Prepared(w)
      /\ rows \in [Keys -> Row \cup {NoRow}] /\ clock \in Nat /\ TypeOK
  BY DEF Sound, TypeOK
<1>e. ASSUME UNCHANGED rows PROVE \A k \in Keys : Exists(k) => Exists(k)'
  BY <1>e DEF Exists
<1>1. CASE Discover(w)
  <2>1. PICK B \in Scans : rounds' = [rounds EXCEPT ![w] = NewRound("selecting", B)]
    BY <1>1 DEF Discover
  <2> DEFINE r == NewRound("selecting", B)
  <2>2. B \in SUBSET Sighting
    BY DEF Scans
  <2>3. r \in Round /\ r.pc = "selecting" /\ r.batch = B /\ r.todo = B
    BY <1>0, <2>2 DEF NewRound, Round
  <2>4. UNCHANGED rows
    BY <1>1 DEF Discover
  <2>5. rounds' = [rounds EXCEPT ![w] = r]
    BY <2>1
  <2> HIDE DEF r
  <2>6. rounds' \in [Workers -> Round] /\ \A v \in Workers : Prepared(v)'
    BY <1>e, <2>2, <2>3, <2>4, <2>5, LocalStep
  <2> QED
    BY <1>1, <2>6 DEF Discover, Sound, TypeOK
<1>2. CASE EnrichOne(w)
  <2>1. PICK s \in rounds[w].todo :
           rows' = SeenAt(s.ip) /\ rounds' = [rounds EXCEPT ![w].todo = @ \ {s}]
    BY <1>2 DEF EnrichOne
  <2> DEFINE r == [rounds[w] EXCEPT !.todo = @ \ {s}]
  <2>2. s.ip \in IPs
    BY <1>0 DEF Round, Sighting
  <2>3. /\ r \in Round /\ r.pc = "enriching"
        /\ r.batch = rounds[w].batch /\ r.todo = rounds[w].todo \ {s}
    BY <1>0, <1>2 DEF Round, EnrichOne
  <2>5. rounds' = [rounds EXCEPT ![w] = r]
    BY <1>0, <2>1
  <2>6. rows' \in [Keys -> Row \cup {NoRow}] /\ \A k \in Keys : Exists(k)' <=> Exists(k)
    BY <1>0, <2>1, <2>2, SeenAtRows
  <2> HIDE DEF r
  <2>7. rounds' \in [Workers -> Round] /\ \A v \in Workers : Prepared(v)'
    BY <2>3, <2>5, <2>6, LocalStep
  <2> QED
    BY <1>2, <2>6, <2>7 DEF EnrichOne, Sound, TypeOK
<1>3. CASE CountNew(w)
  <2> DEFINE r == [rounds[w] EXCEPT !.pc = "counting", !.new = NewDevices]
  <2>1. rounds' = [rounds EXCEPT ![w] = r] /\ UNCHANGED rows
    BY <1>0, <1>3 DEF CountNew
  <2>2. /\ r \in Round /\ r.pc = "counting"
        /\ r.batch = rounds[w].batch /\ r.todo = rounds[w].todo
    BY <1>0 DEF Round, NewDevices
  <2> HIDE DEF r
  <2>4. rounds' \in [Workers -> Round] /\ \A v \in Workers : Prepared(v)'
    BY <1>e, <2>1, <2>2, LocalStep
  <2> QED
    BY <1>3, <2>4 DEF CountNew, Sound, TypeOK
<1>4. CASE CountMissing(w)
  <2> DEFINE r == [rounds[w] EXCEPT !.pc = "recording", !.missing = MissingDevices]
  <2>1. rounds' = [rounds EXCEPT ![w] = r] /\ UNCHANGED rows
    BY <1>0, <1>4 DEF CountMissing
  <2>2. /\ r \in Round /\ r.pc = "recording"
        /\ r.batch = rounds[w].batch /\ r.todo = rounds[w].todo
    BY <1>0 DEF Round, MissingDevices
  <2> HIDE DEF r
  <2>4. rounds' \in [Workers -> Round] /\ \A v \in Workers : Prepared(v)'
    BY <1>e, <2>1, <2>2, LocalStep
  <2> QED
    BY <1>4, <2>4 DEF CountMissing, Sound, TypeOK
<1>5. CASE RecordLAN(w)
  <2>1. rounds' = [rounds EXCEPT ![w] = IdleRound] /\ UNCHANGED rows
    BY <1>5 DEF RecordLAN
  <2>2. rounds' \in [Workers -> Round] /\ \A v \in Workers : Prepared(v)'
    BY <1>e, <2>1, IdleIsRound, LocalStep
  <2>3. gauge' \in [new : Nat, missing : Nat]
    <3>1. Cardinality(rounds[w].new) \in Nat /\ Cardinality(rounds[w].missing) \in Nat
      BY <1>0, CardinalityOfKeys DEF Round
    <3> QED
      BY <1>5, <3>1 DEF RecordLAN, GaugeOf
  <2>4. announced' \subseteq Keys
    BY <1>0, <1>5 DEF RecordLAN, Round, TypeOK
  <2> QED
    BY <1>0, <1>5, <2>2, <2>3, <2>4 DEF RecordLAN, Sound, TypeOK
<1> QED
  BY <1>1, <1>2, <1>3, <1>4, <1>5

(* The steps of an identity request outside UpsertDevices. *)
LEMMA ToolSound ==
    ASSUME Sound, NEW w \in Workers, Identify(w) \/ \E ip \in IPs : LookUp(w, ip)
    PROVE  Sound'
<1>0. /\ rounds \in [Workers -> Round] /\ rounds[w] \in Round /\ Prepared(w)
      /\ rows \in [Keys -> Row \cup {NoRow}] /\ clock \in Nat /\ TypeOK
  BY DEF Sound, TypeOK
<1>e. ASSUME UNCHANGED rows PROVE \A k \in Keys : Exists(k) => Exists(k)'
  BY <1>e DEF Exists
<1>1. ASSUME NEW ip \in IPs, LookUp(w, ip) PROVE Sound'
  <2>1. PICK k \in KeysAt(ip) :
           rounds' = [rounds EXCEPT ![w] = NewRound("identifying", {[key |-> k, ip |-> ip]})]
    BY <1>1 DEF LookUp
  <2> DEFINE r == NewRound("identifying", {[key |-> k, ip |-> ip]})
  <2>2. k \in Keys
    BY DEF KeysAt, Keys
  <2>3. /\ r \in Round /\ r.pc = "identifying"
        /\ r.batch = {[key |-> k, ip |-> ip]} /\ r.todo = {[key |-> k, ip |-> ip]}
    BY <1>0, <2>2 DEF NewRound, Round, Sighting
  <2>5. rounds' = [rounds EXCEPT ![w] = r] /\ UNCHANGED rows
    BY <1>1, <2>1 DEF LookUp
  <2> HIDE DEF r
  <2>6. rounds' \in [Workers -> Round] /\ \A v \in Workers : Prepared(v)'
    BY <1>e, <2>3, <2>5, LocalStep
  <2> QED
    BY <1>1, <2>6 DEF LookUp, Sound, TypeOK
<1>2. CASE Identify(w)
  <2>1. PICK s \in rounds[w].batch :
          IF \E k \in Keys : Exists(k) /\ rows[k].ip = s.ip
          THEN rows' = SeenAt(s.ip) /\ rounds' = [rounds EXCEPT ![w] = IdleRound]
          ELSE /\ rounds' = [rounds EXCEPT ![w].pc = "selecting", ![w].now = clock]
               /\ UNCHANGED rows
    BY <1>2 DEF Identify
  <2>2. CASE rows' = SeenAt(s.ip) /\ rounds' = [rounds EXCEPT ![w] = IdleRound]
    <3>1. s.ip \in IPs
      BY <1>0 DEF Round, Sighting
    <3>2. rows' \in [Keys -> Row \cup {NoRow}] /\ \A k \in Keys : Exists(k)' <=> Exists(k)
      BY <1>0, <2>2, <3>1, SeenAtRows
    <3>3. rounds' \in [Workers -> Round] /\ \A v \in Workers : Prepared(v)'
      BY <2>2, <3>2, IdleIsRound, LocalStep
    <3> QED
      BY <1>2, <3>2, <3>3 DEF Identify, Sound, TypeOK
  <2>3. CASE /\ rounds' = [rounds EXCEPT ![w].pc = "selecting", ![w].now = clock]
             /\ UNCHANGED rows
    <3> DEFINE r == [rounds[w] EXCEPT !.pc = "selecting", !.now = clock]
    <3>1. rounds' = [rounds EXCEPT ![w] = r] /\ UNCHANGED rows
      BY <1>0, <2>3
    <3>2. /\ r \in Round /\ r.pc = "selecting"
          /\ r.batch = rounds[w].batch /\ r.todo = rounds[w].todo
      BY <1>0 DEF Round
    <3> HIDE DEF r
    <3>4. rounds' \in [Workers -> Round] /\ \A v \in Workers : Prepared(v)'
      BY <1>e, <3>1, <3>2, LocalStep
    <3> QED
      BY <1>2, <2>3, <3>4 DEF Identify, Sound, TypeOK
  <2> QED
    BY <2>1, <2>2, <2>3
<1> QED
  BY <1>1, <1>2

(* A query that fails touches its worker's local variables only. *)
LEMMA QueryFailsLocally ==
    ASSUME Sound, NEW w \in Workers, QueryFails(w)
    PROVE  /\ UNCHANGED <<clock, lan, stale, rows, gauge, announced, seen>>
           /\ \E r \in Round :
                 /\ rounds' = [rounds EXCEPT ![w] = r] /\ r.pc # "updating"
                 /\ r.inserted \subseteq rounds[w].inserted
                 /\ \/ r.pc = "idle"
                    \/ r.now = clock
                    \/ r.now = rounds[w].now /\ rounds[w].pc # "idle"
<1>0. rounds \in [Workers -> Round] /\ rounds[w] \in Round /\ Prepared(w) /\ clock \in Nat
  BY DEF Sound, TypeOK
<1>u. UNCHANGED <<clock, lan, stale, rows, gauge, announced, seen>>
  BY DEF QueryFails
<1>1. CASE /\ rounds[w].pc = "enriching"
           /\ rounds' = [rounds EXCEPT ![w].pc = "counting", ![w].new = {}]
  <2> DEFINE r == [rounds[w] EXCEPT !.pc = "counting", !.new = {}]
  <2>1. /\ r \in Round /\ r.pc = "counting" /\ r.batch = rounds[w].batch
        /\ r.todo = rounds[w].todo /\ r.inserted = rounds[w].inserted /\ r.now = rounds[w].now
    BY <1>0 DEF Round
  <2>2. rounds' = [rounds EXCEPT ![w] = r]
    BY <1>0, <1>1
  <2> HIDE DEF r
  <2> QED
    BY <1>0, <1>1, <1>u, <2>1, <2>2 DEF Prepared
<1>2. CASE /\ rounds[w].pc = "counting"
           /\ rounds' = [rounds EXCEPT ![w].pc = "recording", ![w].missing = {}]
  <2> DEFINE r == [rounds[w] EXCEPT !.pc = "recording", !.missing = {}]
  <2>1. /\ r \in Round /\ r.pc = "recording" /\ r.batch = rounds[w].batch
        /\ r.todo = rounds[w].todo /\ r.inserted = rounds[w].inserted /\ r.now = rounds[w].now
    BY <1>0 DEF Round
  <2>2. rounds' = [rounds EXCEPT ![w] = r]
    BY <1>0, <1>2
  <2> HIDE DEF r
  <2> QED
    BY <1>0, <1>2, <1>u, <2>1, <2>2 DEF Prepared
<1>3. ASSUME NEW ip \in IPs,
             rounds' = [rounds EXCEPT ![w] = NewRound("identifying", {[key |-> ip, ip |-> ip]})]
      PROVE  \E r \in Round :
                /\ rounds' = [rounds EXCEPT ![w] = r] /\ r.pc # "updating"
                /\ r.inserted \subseteq rounds[w].inserted /\ r.now = clock
  <2> DEFINE r == NewRound("identifying", {[key |-> ip, ip |-> ip]})
  <2>1. /\ r \in Round /\ r.pc = "identifying" /\ r.inserted = {} /\ r.now = clock
        /\ r.batch = {[key |-> ip, ip |-> ip]} /\ r.todo = {[key |-> ip, ip |-> ip]}
    BY <1>0 DEF NewRound, Round, Sighting, Keys
  <2>2. rounds' = [rounds EXCEPT ![w] = r]
    BY <1>3
  <2> HIDE DEF r
  <2> QED
    BY <2>1, <2>2
<1>4. CASE rounds' = [rounds EXCEPT ![w] = IdleRound]
  BY <1>4, <1>u, IdleIsRound
<1> QED
  BY <1>1, <1>2, <1>3, <1>4, <1>u DEF QueryFails

LEMMA QueryFailsSound ==
    ASSUME Sound, NEW w \in Workers, QueryFails(w)
    PROVE  Sound'
<1>1. \A k \in Keys : Exists(k) => Exists(k)'
  BY QueryFailsLocally DEF Exists
<1>2. rounds' \in [Workers -> Round] /\ \A v \in Workers : Prepared(v)'
  BY <1>1, QueryFailsLocally, LocalStep
<1> QED
  BY <1>2, QueryFailsLocally DEF Sound, TypeOK

(* The network, the clock, the operator and the start of the program. *)
LEMMA OthersSound ==
    ASSUME Sound,
           \/ Tick
           \/ \E ip \in IPs : Disconnect(ip) \/ Forgotten(ip) \/ \E m \in Macs : Connect(m, ip)
           \/ (\E k \in Keys : MarkDeviceKnown(k)) \/ (\E k \in Watched : UpdateDevice(k))
           \/ MarkAllNewDevicesKnown \/ Restart \/ UNCHANGED vars
    PROVE  Sound'
<1>0. TypeOK /\ rows \in [Keys -> Row \cup {NoRow}] /\ clock \in Nat
  BY DEF Sound, TypeOK
<1>e. ASSUME UNCHANGED rows PROVE \A k \in Keys : Exists(k) => Exists(k)'
  BY <1>e DEF Exists
<1>1. CASE Tick
  BY <1>0, <1>1, <1>e, RowsStep DEF Tick, Sound, TypeOK
<1>2. ASSUME NEW ip \in IPs, Disconnect(ip) \/ Forgotten(ip) PROVE Sound'
  BY <1>2, <1>e, RowsStep DEF Disconnect, Forgotten, Sound, TypeOK
<1>3. ASSUME NEW ip \in IPs, NEW m \in Macs, Connect(m, ip) PROVE Sound'
  BY <1>3, <1>e, RowsStep DEF Connect, Sound, TypeOK
<1>4. ASSUME NEW k \in Keys, MarkDeviceKnown(k) PROVE Sound'
  <2>1. rows[k] \in Row /\ [rows[k] EXCEPT !.known = TRUE] \in Row
    BY <1>0, <1>4 DEF MarkDeviceKnown, Exists, Row
  <2>2. rows' = [rows EXCEPT ![k] = [rows[k] EXCEPT !.known = TRUE]]
    BY <1>0, <1>4 DEF MarkDeviceKnown
  <2>3. rows' \in [Keys -> Row \cup {NoRow}] /\ \A j \in Keys : Exists(j) => Exists(j)'
    BY <1>0, <2>1, <2>2, InventoryConstants DEF Exists
  <2> QED
    BY <1>4, <2>3, RowsStep DEF MarkDeviceKnown, Sound, TypeOK
<1>5. ASSUME NEW k \in Watched, UpdateDevice(k) PROVE Sound'
  <2>1. k \in Keys
    BY InventoryConstants
  <2>2. PICK on \in BOOLEAN : rows' = [rows EXCEPT ![k].monitored = on]
    BY <1>5 DEF UpdateDevice
  <2>3. rows[k] \in Row /\ [rows[k] EXCEPT !.monitored = on] \in Row
    BY <1>0, <1>5, <2>1 DEF UpdateDevice, Exists, Row
  <2>4. rows' = [rows EXCEPT ![k] = [rows[k] EXCEPT !.monitored = on]]
    BY <1>0, <2>1, <2>2
  <2>5. rows' \in [Keys -> Row \cup {NoRow}] /\ \A j \in Keys : Exists(j) => Exists(j)'
    BY <1>0, <2>1, <2>3, <2>4, InventoryConstants DEF Exists
  <2> QED
    BY <1>5, <2>5, RowsStep DEF UpdateDevice, Sound, TypeOK
<1>6. CASE MarkAllNewDevicesKnown
  BY <1>0, <1>6, AllKnownRows, RowsStep DEF MarkAllNewDevicesKnown, Sound, TypeOK
<1>7. CASE Restart
  <2>1. rows' \in [Keys -> Row \cup {NoRow}] /\ rounds' = [w \in Workers |-> IdleRound]
    BY <1>0, <1>7, AllKnownRows DEF Restart
  <2>2. rounds' \in [Workers -> Round]
    BY <2>1, IdleIsRound
  <2>3. ASSUME NEW v \in Workers PROVE Prepared(v)'
    BY <2>1, IdleIsRound DEF Prepared
  <2> QED
    BY <1>7, <2>1, <2>2, <2>3 DEF Restart, Sound, TypeOK
<1>8. CASE UNCHANGED vars
  BY <1>8, <1>e, RowsStep DEF vars, Sound, TypeOK
<1> QED
  BY <1>1, <1>2, <1>3, <1>4, <1>5, <1>6, <1>7, <1>8

LEMMA NextSound == Sound /\ [Next]_vars => Sound'
<1> SUFFICES ASSUME Sound, [Next]_vars PROVE Sound'
  OBVIOUS
<1>1. ASSUME NEW w \in {Loop} \cup Requests, RunDiscovery(w) PROVE Sound'
  BY <1>1, UpsertSound, DiscoverySound DEF RunDiscovery, Workers
<1>2. ASSUME NEW w \in Tools, Identify(w) \/ UpsertDevices(w) \/ \E ip \in IPs : LookUp(w, ip)
      PROVE  Sound'
  BY <1>2, UpsertSound, ToolSound DEF Workers
<1>3. ASSUME NEW w \in Workers, StatementFails(w) \/ QueryFails(w) PROVE Sound'
  BY <1>3, UpsertSound, QueryFailsSound
<1> QED
  BY <1>1, <1>2, <1>3, OthersSound DEF Next, Steady

LEMMA AlwaysSound == Spec => []Sound
<1>1. Init => Sound
  BY InitSound
<1>2. Sound /\ [Next]_vars => Sound'
  BY NextSound
<1> QED
  BY <1>1, <1>2, PTL DEF Spec

(* The table, the workers' local variables and the gauges keep their types,
   for any number of hosts, addresses and overlapping rounds. *)
THEOREM TypeCorrect == Spec => []TypeOK
<1>1. Sound => TypeOK
  BY DEF Sound
<1> QED
  BY <1>1, AlwaysSound, PTL

-----------------------------------------------------------------------------
(* What a step may do to a row. *)
Kept(k) ==
    /\ rows'[k] # NoRow /\ rows'[k].first = rows[k].first
    /\ rows[k].known => rows'[k].known

LEMMA ReviewStep ==
    ASSUME Sound, [Next]_vars, NEW k \in Keys, Exists(k)
    PROVE  Kept(k)
<1>0. /\ rows \in [Keys -> Row \cup {NoRow}] /\ rows[k] \in Row /\ rows[k] # NoRow
      /\ rows' \in [Keys -> Row \cup {NoRow}]
  BY NextSound DEF Sound, TypeOK, Exists
<1>u. ASSUME UNCHANGED rows PROVE Kept(k)
  BY <1>0, <1>u DEF Kept
<1>s. ASSUME NEW ip \in IPs, rows' = SeenAt(ip) PROVE Kept(k)
  <2>1. rows'[k] = IF rows[k].ip = ip THEN [rows[k] EXCEPT !.last = clock] ELSE rows[k]
    BY <1>s DEF SeenAt, Exists
  <2>2. [rows[k] EXCEPT !.last = clock] \in Row
    BY <1>0 DEF Row, Sound, TypeOK
  <2> QED
    BY <1>0, <2>1, <2>2, InventoryConstants DEF Row, Kept
<1>k. ASSUME rows' = AllKnown PROVE Kept(k)
  <2>1. rows'[k] = [rows[k] EXCEPT !.known = TRUE]
    BY <1>k DEF AllKnown, Exists
  <2>2. [rows[k] EXCEPT !.known = TRUE] \in Row
    BY <1>0 DEF Row
  <2> QED
    BY <1>0, <2>1, <2>2, InventoryConstants DEF Row, Kept
<1>t. ASSUME NEW w \in Workers, NEW s \in rounds[w].todo \cup rounds[w].batch \cup rounds[w].device
      PROVE  s.key \in Keys /\ s.ip \in IPs /\ rounds[w].now \in Nat
  BY DEF Sound, TypeOK, Round, Sighting
<1>1. ASSUME NEW w \in Workers, UpsertDevices(w) \/ StatementFails(w) PROVE Kept(k)
  <2>1. CASE Insert(w)
    <3>1. PICK s \in rounds[w].device :
             /\ ~Exists(s.key)
             /\ rows' = [rows EXCEPT ![s.key] = Fresh(s, rounds[w].now)]
      BY <2>1 DEF Insert, ViolatesUnique
    <3> QED
      BY <1>0, <3>1 DEF Kept
  <2>2. CASE UpdateSeen(w)
    <3>1. PICK s \in rounds[w].device :
             rows' = [rows EXCEPT ![s.key] = Refreshed(rows[s.key], s, rounds[w].now)]
      BY <2>2 DEF UpdateSeen
    <3>2. [rows[k] EXCEPT !.ip = s.ip, !.last = rounds[w].now] \in Row
      BY <1>0, <1>t DEF Row
    <3> QED
      BY <1>0, <3>1, <3>2, InventoryConstants DEF Refreshed, Row, Kept
  <2> QED
    BY <1>1, <1>u, <2>1, <2>2
       DEF UpsertDevices, SelectDevice, AllSaved, InsertFails, StatementFails
<1>2. ASSUME NEW w \in Workers,
             Discover(w) \/ EnrichOne(w) \/ CountNew(w) \/ CountMissing(w) \/ RecordLAN(w)
      PROVE  Kept(k)
  BY <1>2, <1>u, <1>s, <1>t DEF Discover, EnrichOne, CountNew, CountMissing, RecordLAN
<1>3. ASSUME NEW w \in Workers, Identify(w) \/ \E ip \in IPs : LookUp(w, ip) PROVE Kept(k)
  BY <1>3, <1>u, <1>s, <1>t DEF Identify, LookUp
<1>4. ASSUME NEW j \in Keys, MarkDeviceKnown(j) PROVE Kept(k)
  <2>1. [rows[k] EXCEPT !.known = TRUE] \in Row
    BY <1>0 DEF Row
  <2> QED
    BY <1>0, <1>4, <2>1, InventoryConstants DEF MarkDeviceKnown, Row, Kept
<1>5. ASSUME NEW j \in Watched, UpdateDevice(j) PROVE Kept(k)
  <2>1. PICK on \in BOOLEAN : rows' = [rows EXCEPT ![j].monitored = on]
    BY <1>5 DEF UpdateDevice
  <2>2. [rows[k] EXCEPT !.monitored = on] \in Row
    BY <1>0 DEF Row
  <2> QED
    BY <1>0, <2>1, <2>2, InventoryConstants DEF Row, Kept
<1>6. CASE \/ Tick
           \/ \E ip \in IPs : Disconnect(ip) \/ Forgotten(ip) \/ \E m \in Macs : Connect(m, ip)
  BY <1>6, <1>u DEF Tick, Disconnect, Forgotten, Connect
<1>7. CASE MarkAllNewDevicesKnown \/ Restart
  BY <1>7, <1>k DEF MarkAllNewDevicesKnown, Restart
<1>8. CASE UNCHANGED vars \/ \E w \in Workers : QueryFails(w)
  BY <1>8, <1>u DEF vars, QueryFails
<1> QED
  BY <1>1, <1>2, <1>3, <1>4, <1>5, <1>6, <1>7, <1>8 DEF Next, Steady, RunDiscovery, Workers

(* A reviewed device stays reviewed and a first sighting stays what it was,
   whatever workers race for the device's row. *)
THEOREM ReviewAlwaysKept == Spec => ReviewKept
<1>1. Sound /\ [Next]_vars =>
        [\A k \in Keys : Exists(k) =>
            /\ rows'[k] # NoRow /\ rows'[k].first = rows[k].first
            /\ rows[k].known => rows'[k].known]_vars
  BY ReviewStep DEF Kept
<1> QED
  BY <1>1, AlwaysSound, PTL DEF Spec, ReviewKept

-----------------------------------------------------------------------------
(* What is announced has a row, and what is in flight is not announced. *)
Counted == NeverAnnouncedTwice /\ \A k \in announced : Exists(k)

(* A step that adds nothing to what workers have inserted, nor to what is
   announced. *)
LEMMA NothingCounted ==
    ASSUME Sound, Sound', Counted, \A k \in Keys : Exists(k) => Exists(k)',
           \A w \in Workers : rounds'[w].inserted \subseteq rounds[w].inserted,
           UNCHANGED announced
    PROVE  Counted'
<1>1. announced \subseteq Keys /\ \A w \in Workers : rounds[w].inserted \subseteq Keys
  BY DEF Sound, TypeOK, Round
<1>2. ASSUME NEW w \in Workers, NEW k \in rounds'[w].inserted PROVE Exists(k)' /\ k \notin announced'
  BY <1>1 DEF Counted, NeverAnnouncedTwice
<1>3. ASSUME NEW w \in Workers, NEW v \in Workers \ {w}
      PROVE  rounds'[w].inserted \cap rounds'[v].inserted = {}
  <2>1. rounds[w].inserted \cap rounds[v].inserted = {}
    BY DEF Counted, NeverAnnouncedTwice
  <2>2. /\ rounds'[w].inserted \subseteq rounds[w].inserted
        /\ rounds'[v].inserted \subseteq rounds[v].inserted
    OBVIOUS
  <2> QED
    BY <2>1, <2>2
<1>4. \A k \in announced' : Exists(k)'
  BY <1>1 DEF Counted
<1>5. NeverAnnouncedTwice'
  BY <1>2, <1>3 DEF NeverAnnouncedTwice
<1> QED
  BY <1>4, <1>5 DEF Counted

LEMMA CountedStep ==
    ASSUME Sound, Sound', Counted, [Next]_vars
    PROVE  Counted'
<1>0. /\ rounds \in [Workers -> Round] /\ rounds' \in [Workers -> Round]
      /\ rows \in [Keys -> Row \cup {NoRow}] /\ announced \subseteq Keys
      /\ \A w \in Workers : rounds[w].inserted \subseteq Keys
  BY DEF Sound, TypeOK, Round
<1>k. \A k \in Keys : Exists(k) => Exists(k)'
  BY ReviewStep DEF Kept, Exists
<1>r. ASSUME NEW w \in Workers, NEW r, r.inserted \subseteq rounds[w].inserted,
             rounds' = [rounds EXCEPT ![w] = r], UNCHANGED announced
      PROVE  Counted'
  <2>1. \A v \in Workers : rounds'[v].inserted \subseteq rounds[v].inserted
    BY <1>0, <1>r
  <2> QED
    BY <1>k, <1>r, <2>1, NothingCounted
<1>u. ASSUME UNCHANGED <<rounds, announced>> PROVE Counted'
  BY <1>k, <1>u, NothingCounted
<1>1. ASSUME NEW w \in Workers, EndUpsert(w), UNCHANGED announced PROVE Counted'
  <2>1. CASE w \in Tools
    BY <1>1, <1>r, <2>1, IdleIsRound DEF EndUpsert
  <2>2. CASE w \notin Tools
    <3>1. PICK named \in SUBSET rounds[w].batch :
             rounds' = [rounds EXCEPT ![w].pc = "enriching", ![w].batch = {}, ![w].todo = named,
                                  ![w].device = {}]
      BY <1>1, <2>2 DEF EndUpsert
    <3> DEFINE r == [rounds[w] EXCEPT !.pc = "enriching", !.batch = {}, !.todo = named, !.device = {}]
    <3>2. rounds' = [rounds EXCEPT ![w] = r] /\ r.inserted = rounds[w].inserted
      BY <1>0, <3>1 DEF Round
    <3> HIDE DEF r
    <3> QED
      BY <1>1, <1>r, <3>2
  <2> QED
    BY <2>1, <2>2
<1>2. ASSUME NEW w \in Workers, Insert(w) PROVE Counted'
  <2>1. PICK s \in rounds[w].device :
           /\ ~Exists(s.key)
           /\ rows' = [rows EXCEPT ![s.key] = Fresh(s, rounds[w].now)]
           /\ rounds' = [rounds EXCEPT ![w].pc = "selecting", ![w].todo = @ \ {s}, ![w].device = {},
                                       ![w].inserted = @ \cup {s.key}]
    BY <1>2 DEF Insert, ViolatesUnique
  <2>2. s.key \in Keys /\ s.ip \in IPs /\ rounds[w].now \in Nat
    BY <1>0 DEF Round, Sighting
  <2>3. Exists(s.key)'
    <3>1. Fresh(s, rounds[w].now) \in Row
      BY <2>2 DEF Fresh, Row
    <3> QED
      BY <1>0, <2>1, <2>2, <3>1, InventoryConstants DEF Exists
  <2>4. /\ rounds'[w].inserted = rounds[w].inserted \cup {s.key}
        /\ \A v \in Workers \ {w} : rounds'[v].inserted = rounds[v].inserted
    BY <1>0, <2>1 DEF Round
  <2>5. announced' = announced
    BY <1>2 DEF Insert
  <2>6. s.key \notin announced /\ \A v \in Workers : s.key \notin rounds[v].inserted
    BY <2>1 DEF Counted, NeverAnnouncedTwice
  <2> QED
    BY <1>0, <1>k, <2>3, <2>4, <2>5, <2>6 DEF Counted, NeverAnnouncedTwice
<1>3. ASSUME NEW w \in Workers, RecordLAN(w) PROVE Counted'
  <2>1. /\ rounds' = [rounds EXCEPT ![w] = IdleRound]
        /\ announced' = announced \cup rounds[w].inserted
    BY <1>3 DEF RecordLAN
  <2>2. /\ rounds'[w].inserted = {}
        /\ \A v \in Workers \ {w} : rounds'[v].inserted = rounds[v].inserted
    BY <1>0, <2>1, IdleIsRound
  <2> QED
    BY <1>0, <1>k, <2>1, <2>2 DEF Counted, NeverAnnouncedTwice
<1>4. ASSUME NEW w \in Workers, SelectDevice(w) \/ UpdateSeen(w) PROVE Counted'
  <2>1. CASE SelectDevice(w)
    <3>1. PICK s \in rounds[w].todo :
             rounds' = [rounds EXCEPT ![w].pc = IF Exists(s.key) THEN "updating" ELSE "inserting",
                                   ![w].device = {s}]
      BY <2>1 DEF SelectDevice
    <3> DEFINE r == [rounds[w] EXCEPT !.pc = IF Exists(s.key) THEN "updating" ELSE "inserting",
                               !.device = {s}]
    <3>2. rounds' = [rounds EXCEPT ![w] = r] /\ r.inserted = rounds[w].inserted
      BY <1>0, <3>1 DEF Round
    <3> HIDE DEF r
    <3> QED
      BY <1>r, <2>1, <3>2 DEF SelectDevice
  <2>2. CASE UpdateSeen(w)
    <3>1. PICK s \in rounds[w].device :
             rounds' = [rounds EXCEPT ![w].pc = "selecting", ![w].todo = LeftAfter(w, s),
                                       ![w].device = {}]
      BY <2>2 DEF UpdateSeen
    <3> DEFINE r == [rounds[w] EXCEPT !.pc = "selecting", !.todo = LeftAfter(w, s), !.device = {}]
    <3>2. rounds' = [rounds EXCEPT ![w] = r] /\ r.inserted = rounds[w].inserted
      BY <1>0, <3>1 DEF Round
    <3> HIDE DEF r
    <3> QED
      BY <1>r, <2>2, <3>2 DEF UpdateSeen
  <2> QED
    BY <1>4, <2>1, <2>2
<1>5. ASSUME NEW w \in Workers, Discover(w) \/ \E ip \in IPs : LookUp(w, ip) PROVE Counted'
  <2>1. PICK pc, B : rounds' = [rounds EXCEPT ![w] = NewRound(pc, B)]
    BY <1>5 DEF Discover, LookUp
  <2>2. NewRound(pc, B).inserted = {}
    BY DEF NewRound
  <2>3. UNCHANGED announced
    BY <1>5 DEF Discover, LookUp
  <2> QED
    BY <1>r, <2>1, <2>2, <2>3
<1>6. ASSUME NEW w \in Workers, EnrichOne(w) PROVE Counted'
  <2>1. PICK s \in rounds[w].todo : rounds' = [rounds EXCEPT ![w].todo = @ \ {s}]
    BY <1>6 DEF EnrichOne
  <2> DEFINE r == [rounds[w] EXCEPT !.todo = @ \ {s}]
  <2>2. rounds' = [rounds EXCEPT ![w] = r] /\ r.inserted = rounds[w].inserted
    BY <1>0, <2>1 DEF Round
  <2> HIDE DEF r
  <2> QED
    BY <1>6, <1>r, <2>2 DEF EnrichOne
<1>7. ASSUME NEW w \in Workers, CountNew(w) PROVE Counted'
  <2> DEFINE r == [rounds[w] EXCEPT !.pc = "counting", !.new = NewDevices]
  <2>1. rounds' = [rounds EXCEPT ![w] = r] /\ r.inserted = rounds[w].inserted
    BY <1>0, <1>7 DEF CountNew, Round
  <2> HIDE DEF r
  <2> QED
    BY <1>7, <1>r, <2>1 DEF CountNew
<1>8. ASSUME NEW w \in Workers, CountMissing(w) PROVE Counted'
  <2> DEFINE r == [rounds[w] EXCEPT !.pc = "recording", !.missing = MissingDevices]
  <2>1. rounds' = [rounds EXCEPT ![w] = r] /\ r.inserted = rounds[w].inserted
    BY <1>0, <1>8 DEF CountMissing, Round
  <2> HIDE DEF r
  <2> QED
    BY <1>8, <1>r, <2>1 DEF CountMissing
<1>9. ASSUME NEW w \in Workers, Identify(w) PROVE Counted'
  <2>1. \/ rounds' = [rounds EXCEPT ![w] = IdleRound]
        \/ rounds' = [rounds EXCEPT ![w].pc = "selecting", ![w].now = clock]
    BY <1>9 DEF Identify
  <2> DEFINE r == [rounds[w] EXCEPT !.pc = "selecting", !.now = clock]
  <2>2. r.inserted = rounds[w].inserted
    BY <1>0 DEF Round
  <2>3. rounds' = [rounds EXCEPT ![w] = IdleRound] \/ rounds' = [rounds EXCEPT ![w] = r]
    BY <1>0, <2>1
  <2> HIDE DEF r
  <2> QED
    BY <1>9, <1>r, <2>2, <2>3, IdleIsRound DEF Identify
<1>10. CASE Restart
  <2>1. UNCHANGED announced /\ \A w \in Workers : rounds'[w].inserted = {}
    BY <1>10, IdleIsRound DEF Restart
  <2> QED
    BY <1>k, <2>1, NothingCounted
<1>11. CASE \/ Tick
            \/ \E ip \in IPs : Disconnect(ip) \/ Forgotten(ip) \/ \E m \in Macs : Connect(m, ip)
            \/ (\E k \in Keys : MarkDeviceKnown(k)) \/ (\E k \in Watched : UpdateDevice(k))
            \/ MarkAllNewDevicesKnown \/ UNCHANGED vars
  BY <1>11, <1>u DEF Tick, Disconnect, Forgotten, Connect, MarkDeviceKnown, UpdateDevice,
                     MarkAllNewDevicesKnown, vars
<1>12. ASSUME NEW w \in Workers, UpsertDevices(w) \/ StatementFails(w) PROVE Counted'
  BY <1>1, <1>2, <1>4, <1>12 DEF UpsertDevices, AllSaved, InsertFails, StatementFails
<1>13. ASSUME NEW w \in Workers, QueryFails(w) PROVE Counted'
  BY <1>13, <1>r, QueryFailsLocally
<1> QED
  BY <1>3, <1>5, <1>6, <1>7, <1>8, <1>9, <1>10, <1>11, <1>12, <1>13
     DEF Next, Steady, RunDiscovery, Workers

(* However many rounds race for the same new devices, each device is counted
   in at most one event. *)
THEOREM AnnouncedOnce == Spec => []NeverAnnouncedTwice
<1>1. Init => Counted
  BY DEF Init, IdleRound, Counted, NeverAnnouncedTwice
<1>2. Sound /\ Sound' /\ Counted /\ [Next]_vars => Counted'
  BY CountedStep
<1>3. Counted => NeverAnnouncedTwice
  BY DEF Counted
<1> QED
  BY <1>1, <1>2, <1>3, AlwaysSound, PTL DEF Spec

-----------------------------------------------------------------------------
(* No worker's time lies further back than the longest round has taken, nor any
   row's last_seen further behind the last sighting that was written. *)
OnTime(w) ==
    rounds[w].pc # "idle" => rounds[w].now <= clock /\ clock - rounds[w].now <= longest

Fair(k) ==
    /\ seen[k] <= clock
    /\ Exists(k) => rows[k].last + longest >= seen[k]

Timed == longest \in Nat /\ (\A w \in Workers : OnTime(w)) /\ \A k \in Keys : Fair(k)

(* What a step makes of the longest that a round has taken. *)
Longer == longest \in Nat /\ longest' \in Nat /\ longest <= longest'

LEMMA LongestStep ==
    ASSUME longest \in Nat, KeepTrack \/ UNCHANGED dvars
    PROVE  Longer
BY DEF KeepTrack, dvars, Longer

(* Steps of a worker that began its round in time, or begins one now. *)
LEMMA WorkerOnTime ==
    ASSUME Sound, Timed, Longer, NEW w \in Workers, NEW r, rounds' = [rounds EXCEPT ![w] = r],
           UNCHANGED clock,
           \/ r.pc = "idle"
           \/ r.now = clock
           \/ r.now = rounds[w].now /\ rounds[w].pc # "idle"
    PROVE  \A v \in Workers : OnTime(v)'
<1>0. /\ rounds \in [Workers -> Round] /\ clock \in Nat /\ rounds[w].now \in Nat
      /\ longest \in Nat
      /\ longest' \in Nat /\ longest <= longest'
  BY DEF Sound, TypeOK, Round, Longer
<1>1. OnTime(w)'
  <2>1. rounds'[w] = r
    BY <1>0
  <2>2. CASE r.pc = "idle"
    BY <2>1, <2>2 DEF OnTime
  <2>3. CASE r.now = clock
    BY <1>0, <2>1, <2>3 DEF OnTime
  <2>4. CASE r.now = rounds[w].now /\ rounds[w].pc # "idle"
    BY <1>0, <2>1, <2>4 DEF OnTime, Timed
  <2> QED
    BY <2>2, <2>3, <2>4
<1>2. ASSUME NEW v \in Workers \ {w} PROVE OnTime(v)'
  <2>1. rounds'[v] = rounds[v] /\ OnTime(v) /\ rounds[v].now \in Nat
    BY <1>0 DEF Timed, Round
  <2> QED
    BY <1>0, <2>1 DEF OnTime
<1> QED
  BY <1>1, <1>2

(* Statements that touch no last_seen, or set it to the present. *)
LEMMA NothingSighted ==
    ASSUME Sound, Timed, Longer, UNCHANGED <<clock, seen>>,
           \A k \in Keys : Exists(k)' =>
              Exists(k) /\ (rows'[k].last = rows[k].last \/ rows'[k].last = clock)
    PROVE  \A k \in Keys : Fair(k)'
<1>1. ASSUME NEW k \in Keys PROVE Fair(k)'
  <2>1. /\ Fair(k) /\ clock \in Nat /\ seen[k] \in Nat
        /\ longest \in Nat /\ longest' \in Nat /\ longest <= longest'
        /\ Exists(k) => rows[k].last \in Nat
    BY DEF Timed, Sound, TypeOK, Longer, Exists, Row
  <2>2. CASE Exists(k)'
    BY <2>1, <2>2 DEF Fair
  <2>3. CASE ~Exists(k)'
    BY <2>1, <2>3 DEF Fair
  <2> QED
    BY <2>2, <2>3
<1> QED
  BY <1>1

(* A statement that writes a sighting. *)
LEMMA Sighted ==
    ASSUME Sound, Timed, Longer, NEW j \in Keys, NEW row \in Row, NEW w \in Workers,
           rounds[w].pc # "idle", row.last = rounds[w].now, UNCHANGED clock,
           rows' = [rows EXCEPT ![j] = row], seen' = [seen EXCEPT ![j] = clock]
    PROVE  \A k \in Keys : Fair(k)'
<1>0. /\ rows \in [Keys -> Row \cup {NoRow}] /\ seen \in [Keys -> Nat]
      /\ clock \in Nat /\ rounds[w].now \in Nat /\ OnTime(w)
      /\ longest \in Nat /\ longest' \in Nat /\ longest <= longest'
  BY DEF Sound, TypeOK, Round, Timed, Longer
<1>1. Fair(j)'
  BY <1>0 DEF Fair, OnTime
<1>2. ASSUME NEW k \in Keys \ {j} PROVE Fair(k)'
  <2>1. /\ Fair(k) /\ rows'[k] = rows[k] /\ seen'[k] = seen[k]
        /\ seen[k] \in Nat /\ (Exists(k) => rows[k].last \in Nat)
    BY <1>0 DEF Timed, Exists, Row
  <2> QED
    BY <1>0, <2>1 DEF Fair, Exists
<1> QED
  BY <1>1, <1>2

LEMMA SeenAtLast ==
    ASSUME Sound, NEW ip \in IPs, rows' = SeenAt(ip)
    PROVE  \A k \in Keys : Exists(k)' =>
              Exists(k) /\ (rows'[k].last = rows[k].last \/ rows'[k].last = clock)
<1>1. ASSUME NEW k \in Keys, Exists(k)'
      PROVE  Exists(k) /\ (rows'[k].last = rows[k].last \/ rows'[k].last = clock)
  <2>1. rows[k] \in Row \cup {NoRow} /\ clock \in Nat
    BY DEF Sound, TypeOK
  <2>2. rows'[k] = IF Exists(k) /\ rows[k].ip = ip THEN [rows[k] EXCEPT !.last = clock] ELSE rows[k]
    BY DEF SeenAt
  <2>3. rows[k] \in Row => [rows[k] EXCEPT !.last = clock].last = clock
    BY DEF Row
  <2> QED
    BY <1>1, <2>1, <2>2, <2>3 DEF Exists
<1> QED
  BY <1>1

LEMMA AllKnownLast ==
    ASSUME Sound, rows' = AllKnown
    PROVE  \A k \in Keys :
              Exists(k)' => Exists(k) /\ rows'[k].last = rows[k].last /\ rows'[k].ip = rows[k].ip
<1>1. ASSUME NEW k \in Keys, Exists(k)'
      PROVE  Exists(k) /\ rows'[k].last = rows[k].last /\ rows'[k].ip = rows[k].ip
  <2>1. rows[k] \in Row \cup {NoRow}
    BY DEF Sound, TypeOK
  <2>2. rows'[k] = IF Exists(k) THEN [rows[k] EXCEPT !.known = TRUE] ELSE NoRow
    BY DEF AllKnown
  <2>3. rows[k] \in Row =>
           /\ [rows[k] EXCEPT !.known = TRUE].last = rows[k].last
           /\ [rows[k] EXCEPT !.known = TRUE].ip = rows[k].ip
    BY DEF Row
  <2> QED
    BY <1>1, <2>1, <2>2, <2>3 DEF Exists
<1> QED
  BY <1>1

(* One step of UpsertDevices. *)
LEMMA UpsertTimed ==
    ASSUME Sound, Timed, Longer, NEW w \in Workers, UpsertDevices(w) \/ StatementFails(w)
    PROVE  Timed'
<1>0. /\ rounds \in [Workers -> Round] /\ rounds[w] \in Round /\ rounds[w].now \in Nat
      /\ rows \in [Keys -> Row \cup {NoRow}] /\ UNCHANGED clock /\ rounds[w].pc # "idle"
  BY DEF Sound, TypeOK, Round, UpsertDevices, SelectDevice, AllSaved, Insert, InsertFails,
         UpdateSeen, StatementFails
<1>s. ASSUME NEW s \in rounds[w].todo \cup rounds[w].device PROVE s.key \in Keys /\ s.ip \in IPs
  BY <1>0 DEF Round, Sighting
<1>1. CASE EndUpsert(w) /\ UNCHANGED <<clock, lan, stale, rows, gauge, announced, seen>>
  <2>1. \A v \in Workers : OnTime(v)'
    <3>1. CASE w \in Tools
      BY <1>0, <1>1, <3>1, IdleIsRound, WorkerOnTime DEF EndUpsert
    <3>2. CASE w \notin Tools
      <4>1. PICK named \in SUBSET rounds[w].batch :
               rounds' = [rounds EXCEPT ![w].pc = "enriching", ![w].batch = {}, ![w].todo = named,
                                  ![w].device = {}]
        BY <1>1, <3>2 DEF EndUpsert
      <4> DEFINE r == [rounds[w] EXCEPT !.pc = "enriching", !.batch = {}, !.todo = named, !.device = {}]
      <4>2. rounds' = [rounds EXCEPT ![w] = r] /\ r.now = rounds[w].now
        BY <1>0, <4>1 DEF Round
      <4> HIDE DEF r
      <4> QED
        BY <1>0, <4>2, WorkerOnTime
    <3> QED
      BY <3>1, <3>2
  <2>2. \A k \in Keys : Fair(k)'
    BY <1>1, NothingSighted DEF Exists
  <2> QED
    BY <2>1, <2>2 DEF Timed, Longer
<1>2. CASE SelectDevice(w)
  <2>1. PICK s \in rounds[w].todo :
           rounds' = [rounds EXCEPT ![w].pc = IF Exists(s.key) THEN "updating" ELSE "inserting",
                                   ![w].device = {s}]
    BY <1>2 DEF SelectDevice
  <2> DEFINE r == [rounds[w] EXCEPT !.pc = IF Exists(s.key) THEN "updating" ELSE "inserting",
                               !.device = {s}]
  <2>2. rounds' = [rounds EXCEPT ![w] = r] /\ r.now = rounds[w].now
    BY <1>0, <2>1 DEF Round
  <2> HIDE DEF r
  <2>3. \A v \in Workers : OnTime(v)'
    BY <1>0, <2>2, WorkerOnTime
  <2>4. \A k \in Keys : Fair(k)'
    BY <1>2, NothingSighted DEF SelectDevice, Exists
  <2> QED
    BY <2>3, <2>4 DEF Timed, Longer
<1>3. CASE Insert(w)
  <2>1. PICK s \in rounds[w].device :
           /\ rows' = [rows EXCEPT ![s.key] = Fresh(s, rounds[w].now)]
           /\ seen' = [seen EXCEPT ![s.key] = clock]
           /\ rounds' = [rounds EXCEPT ![w].pc = "selecting", ![w].todo = @ \ {s}, ![w].device = {},
                                       ![w].inserted = @ \cup {s.key}]
    BY <1>3 DEF Insert
  <2> DEFINE r == [rounds[w] EXCEPT !.pc = "selecting", !.todo = @ \ {s}, !.device = {},
                               !.inserted = @ \cup {s.key}]
  <2>2. rounds' = [rounds EXCEPT ![w] = r] /\ r.now = rounds[w].now
    BY <1>0, <2>1 DEF Round
  <2> HIDE DEF r
  <2>3. \A v \in Workers : OnTime(v)'
    BY <1>0, <2>2, WorkerOnTime
  <2>4. Fresh(s, rounds[w].now) \in Row /\ Fresh(s, rounds[w].now).last = rounds[w].now
    BY <1>0, <1>s DEF Fresh, Row
  <2>5. \A k \in Keys : Fair(k)'
    BY <1>0, <1>s, <2>1, <2>4, Sighted
  <2> QED
    BY <2>3, <2>5 DEF Timed, Longer
<1>4. CASE UpdateSeen(w)
  <2>1. PICK s \in rounds[w].device :
           /\ rows' = [rows EXCEPT ![s.key] = Refreshed(rows[s.key], s, rounds[w].now)]
           /\ seen' = [seen EXCEPT ![s.key] = clock]
           /\ rounds' = [rounds EXCEPT ![w].pc = "selecting", ![w].todo = LeftAfter(w, s),
                                       ![w].device = {}]
    BY <1>4 DEF UpdateSeen
  <2> DEFINE r == [rounds[w] EXCEPT !.pc = "selecting", !.todo = LeftAfter(w, s), !.device = {}]
  <2>2. rounds' = [rounds EXCEPT ![w] = r] /\ r.now = rounds[w].now
    BY <1>0, <2>1 DEF Round
  <2> HIDE DEF r
  <2>3. \A v \in Workers : OnTime(v)'
    BY <1>0, <2>2, WorkerOnTime
  <2>4. rows[s.key] \in Row
    BY <1>0, <1>4, <1>s, <2>1 DEF UpdateSeen, Sound, Prepared, Exists
  <2>5. /\ Refreshed(rows[s.key], s, rounds[w].now) \in Row
        /\ Refreshed(rows[s.key], s, rounds[w].now).last = rounds[w].now
    BY <1>0, <1>s, <2>4 DEF Refreshed, Row
  <2>6. \A k \in Keys : Fair(k)'
    BY <1>0, <1>s, <2>1, <2>5, Sighted
  <2> QED
    BY <2>3, <2>6 DEF Timed, Longer
<1> QED
  BY <1>1, <1>2, <1>3, <1>4 DEF UpsertDevices, StatementFails, AllSaved, InsertFails

(* A step that changes the local variables of worker w and no last_seen. *)
LEMMA QuietStep ==
    ASSUME Sound, Timed, Longer, NEW w \in Workers, NEW r, rounds' = [rounds EXCEPT ![w] = r],
           UNCHANGED <<clock, rows, seen>>,
           \/ r.pc = "idle"
           \/ r.now = clock
           \/ r.now = rounds[w].now /\ rounds[w].pc # "idle"
    PROVE  Timed'
<1>1. \A v \in Workers : OnTime(v)'
  BY WorkerOnTime
<1>2. \A k \in Keys : Fair(k)'
  BY NothingSighted DEF Exists
<1> QED
  BY <1>1, <1>2 DEF Timed, Longer

LEMMA TimedStep == Sound /\ Timed /\ [DNext]_dvars => Timed'
<1> SUFFICES ASSUME Sound, Timed, [DNext]_dvars PROVE Timed'
  OBVIOUS
<1>0. /\ rounds \in [Workers -> Round] /\ clock \in Nat /\ seen \in [Keys -> Nat]
      /\ longest \in Nat /\ longest' \in Nat /\ longest <= longest' /\ Longer
  BY LongestStep DEF Sound, TypeOK, Timed, Longer, DNext
<1>v. ASSUME UNCHANGED <<rounds, clock>> PROVE \A v \in Workers : OnTime(v)'
  <2> SUFFICES ASSUME NEW v \in Workers, rounds[v].pc # "idle"
               PROVE  rounds[v].now <= clock /\ clock - rounds[v].now <= longest'
    BY <1>v DEF OnTime
  <2>1. rounds[v].now \in Nat /\ rounds[v].now <= clock /\ clock - rounds[v].now <= longest
    BY <1>0 DEF Timed, OnTime, Round
  <2> QED
    BY <1>0, <2>1
<1>w. ASSUME NEW w \in Workers PROVE rounds[w] \in Round /\ rounds[w].now \in Nat
  BY <1>0 DEF Round
<1>1. ASSUME NEW w \in Workers, Discover(w) \/ \E ip \in IPs : LookUp(w, ip) PROVE Timed'
  <2>1. PICK pc, B : rounds' = [rounds EXCEPT ![w] = NewRound(pc, B)]
    BY <1>1 DEF Discover, LookUp
  <2>2. NewRound(pc, B).now = clock
    BY DEF NewRound
  <2>3. UNCHANGED <<clock, rows, seen>>
    BY <1>1 DEF Discover, LookUp
  <2> QED
    BY <1>0, <2>1, <2>2, <2>3, QuietStep
<1>2. ASSUME NEW w \in Workers, EnrichOne(w) PROVE Timed'
  <2>1. PICK s \in rounds[w].todo :
           rows' = SeenAt(s.ip) /\ rounds' = [rounds EXCEPT ![w].todo = @ \ {s}]
    BY <1>2 DEF EnrichOne
  <2> DEFINE r == [rounds[w] EXCEPT !.todo = @ \ {s}]
  <2>2. /\ rounds' = [rounds EXCEPT ![w] = r] /\ r.now = rounds[w].now
        /\ rounds[w].pc # "idle" /\ UNCHANGED <<clock, seen>> /\ s.ip \in IPs
    BY <1>0, <1>2, <1>w, <2>1 DEF Round, Sighting, EnrichOne
  <2> HIDE DEF r
  <2>3. \A v \in Workers : OnTime(v)'
    BY <1>0, <2>2, WorkerOnTime
  <2>4. \A k \in Keys : Exists(k)' =>
           Exists(k) /\ (rows'[k].last = rows[k].last \/ rows'[k].last = clock)
    BY <2>1, <2>2, SeenAtLast
  <2>5. \A k \in Keys : Fair(k)'
    BY <1>0, <2>2, <2>4, NothingSighted
  <2> QED
    BY <1>0, <2>3, <2>5 DEF Timed
<1>3. ASSUME NEW w \in Workers, CountNew(w) PROVE Timed'
  <2> DEFINE r == [rounds[w] EXCEPT !.pc = "counting", !.new = NewDevices]
  <2>1. /\ rounds' = [rounds EXCEPT ![w] = r] /\ r.now = rounds[w].now
        /\ rounds[w].pc # "idle" /\ UNCHANGED <<clock, rows, seen>>
    BY <1>0, <1>3, <1>w DEF CountNew, Round
  <2> HIDE DEF r
  <2> QED
    BY <1>0, <2>1, QuietStep
<1>4. ASSUME NEW w \in Workers, CountMissing(w) PROVE Timed'
  <2> DEFINE r == [rounds[w] EXCEPT !.pc = "recording", !.missing = MissingDevices]
  <2>1. /\ rounds' = [rounds EXCEPT ![w] = r] /\ r.now = rounds[w].now
        /\ rounds[w].pc # "idle" /\ UNCHANGED <<clock, rows, seen>>
    BY <1>0, <1>4, <1>w DEF CountMissing, Round
  <2> HIDE DEF r
  <2> QED
    BY <1>0, <2>1, QuietStep
<1>5. ASSUME NEW w \in Workers, RecordLAN(w) PROVE Timed'
  <2>1. rounds' = [rounds EXCEPT ![w] = IdleRound] /\ UNCHANGED <<clock, rows, seen>>
    BY <1>5 DEF RecordLAN
  <2> QED
    BY <1>0, <2>1, IdleIsRound, QuietStep
<1>6. ASSUME NEW w \in Workers, Identify(w) PROVE Timed'
  <2>1. PICK s \in rounds[w].batch :
           \/ rows' = SeenAt(s.ip) /\ rounds' = [rounds EXCEPT ![w] = IdleRound]
           \/ /\ rounds' = [rounds EXCEPT ![w].pc = "selecting", ![w].now = clock]
              /\ UNCHANGED rows
    BY <1>6 DEF Identify
  <2>2. UNCHANGED <<clock, seen>> /\ s.ip \in IPs
    BY <1>6, <1>w DEF Identify, Round, Sighting
  <2>3. CASE rows' = SeenAt(s.ip) /\ rounds' = [rounds EXCEPT ![w] = IdleRound]
    <3>1. \A v \in Workers : OnTime(v)'
      BY <1>0, <2>2, <2>3, IdleIsRound, WorkerOnTime
    <3>2. \A k \in Keys : Exists(k)' =>
             Exists(k) /\ (rows'[k].last = rows[k].last \/ rows'[k].last = clock)
      BY <2>2, <2>3, SeenAtLast
    <3>3. \A k \in Keys : Fair(k)'
      BY <1>0, <2>2, <3>2, NothingSighted
    <3> QED
      BY <1>0, <3>1, <3>3 DEF Timed
  <2>4. CASE /\ rounds' = [rounds EXCEPT ![w].pc = "selecting", ![w].now = clock]
             /\ UNCHANGED rows
    <3> DEFINE r == [rounds[w] EXCEPT !.pc = "selecting", !.now = clock]
    <3>1. rounds' = [rounds EXCEPT ![w] = r] /\ r.now = clock
      BY <1>0, <1>w, <2>4 DEF Round
    <3> HIDE DEF r
    <3> QED
      BY <1>0, <2>2, <2>4, <3>1, QuietStep
  <2> QED
    BY <2>1, <2>3, <2>4
<1>7. CASE Tick /\ KeepTrack
  <2>1. ASSUME NEW w \in Workers, rounds[w].pc # "idle"
        PROVE  rounds[w].now <= clock' /\ clock' - rounds[w].now <= longest'
    <3>1. clock' = clock + 1 /\ rounds' = rounds
      BY <1>7 DEF Tick
    <3>2. rounds[w].now \in Nat /\ rounds[w].now <= clock /\ clock - rounds[w].now <= longest
      BY <1>w, <2>1 DEF Timed, OnTime
    <3>3. clock' - rounds[w].now > longest => longest' = longest + 1
      BY <1>7, <2>1, <3>1 DEF KeepTrack
    <3> QED
      BY <1>0, <3>1, <3>2, <3>3
  <2>2. ASSUME NEW w \in Workers PROVE OnTime(w)'
    BY <1>7, <2>1 DEF OnTime, Tick
  <2>3. ASSUME NEW k \in Keys PROVE Fair(k)'
    <3>1. /\ clock' = clock + 1 /\ rows' = rows /\ seen' = seen
          /\ seen[k] \in Nat /\ seen[k] <= clock
          /\ Exists(k) => rows[k].last \in Nat /\ rows[k].last + longest >= seen[k]
      BY <1>0, <1>7 DEF Tick, Fair, Timed, Exists, Sound, TypeOK, Row
    <3> QED
      BY <1>0, <3>1 DEF Fair, Exists
  <2> QED
    BY <1>0, <2>2, <2>3 DEF Timed
<1>8. CASE (\E k \in Keys : MarkDeviceKnown(k)) \/ \E k \in Watched : UpdateDevice(k)
  <2>1. PICK j \in Keys, f \in BOOLEAN :
           /\ Exists(j)
           /\ \/ rows' = [rows EXCEPT ![j].known = TRUE]
              \/ rows' = [rows EXCEPT ![j].monitored = f]
    BY <1>8, InventoryConstants DEF MarkDeviceKnown, UpdateDevice
  <2>2. UNCHANGED <<clock, seen, rounds>>
    BY <1>8 DEF MarkDeviceKnown, UpdateDevice
  <2>3. ASSUME NEW k \in Keys, Exists(k)' PROVE Exists(k) /\ rows'[k].last = rows[k].last
    <3>1. rows \in [Keys -> Row \cup {NoRow}]
      BY DEF Sound, TypeOK
    <3>2. CASE k = j
      BY <2>1, <3>1, <3>2 DEF Exists, Row
    <3>3. CASE k # j
      BY <2>1, <2>3, <3>1, <3>3 DEF Exists
    <3> QED
      BY <3>2, <3>3
  <2>4. \A k \in Keys : Fair(k)'
    BY <1>0, <2>2, <2>3, NothingSighted
  <2> QED
    BY <1>0, <1>v, <2>2, <2>4 DEF Timed
<1>9. CASE MarkAllNewDevicesKnown \/ Restart
  <2>1. rows' = AllKnown /\ UNCHANGED <<clock, seen>>
    BY <1>9 DEF MarkAllNewDevicesKnown, Restart
  <2>2. \A k \in Keys : Fair(k)'
    BY <1>0, <2>1, AllKnownLast, NothingSighted
  <2>3. \A v \in Workers : OnTime(v)'
    <3>1. CASE MarkAllNewDevicesKnown
      BY <1>v, <3>1 DEF MarkAllNewDevicesKnown
    <3>2. CASE Restart
      BY <3>2, IdleIsRound DEF Restart, OnTime
    <3> QED
      BY <1>9, <3>1, <3>2
  <2> QED
    BY <1>0, <2>2, <2>3 DEF Timed
<1>10. CASE UNCHANGED vars \/ \E ip \in IPs : Disconnect(ip) \/ Forgotten(ip)
                                             \/ \E m \in Macs : Connect(m, ip)
  <2>1. UNCHANGED <<clock, rounds, rows, seen>>
    BY <1>10 DEF Disconnect, Forgotten, Connect, vars
  <2>2. \A k \in Keys : Fair(k)'
    BY <1>0, <2>1, NothingSighted DEF Exists
  <2> QED
    BY <1>0, <1>v, <2>1, <2>2 DEF Timed
<1>11. ASSUME NEW w \in Workers, QueryFails(w) PROVE Timed'
  BY <1>0, <1>11, QueryFailsLocally, QuietStep
<1> QED
  BY <1>0, <1>1, <1>2, <1>3, <1>4, <1>5, <1>6, <1>7, <1>8, <1>9, <1>10, <1>11, UpsertTimed
     DEF DNext, dvars, vars, Next, Steady, RunDiscovery, Workers

LEMMA AlwaysTimed == DSpec => [](Sound /\ Timed)
<1>1. DInit => Sound /\ Timed
  BY InitSound DEF DInit, Init, IdleRound, Timed, OnTime, Fair, Exists
<1>2. Sound /\ Timed /\ [DNext]_dvars => (Sound /\ Timed)'
  BY NextSound, TimedStep DEF DNext, dvars, vars
<1> QED
  BY <1>1, <1>2, PTL DEF DSpec

(* No device counts as missing earlier than the longest round's length before
   its time, however the statements of overlapping rounds interleave and however
   long rounds take. *)
THEOREM NeverMissedEarly == DSpec => []NotMissedEarly
<1>1. Sound /\ Timed => NotMissedEarly
  <2> SUFFICES ASSUME Sound, Timed, NEW k \in MissingDevices
               PROVE  clock - seen[k] > MissingAfter - longest
    BY DEF NotMissedEarly
  <2>1. /\ k \in Keys /\ Exists(k) /\ rows[k].last < clock - MissingAfter
        /\ rows[k] \in Row \cup {NoRow} /\ seen[k] \in Nat
        /\ clock \in Nat /\ MissingAfter \in Nat /\ longest \in Nat /\ Fair(k)
    BY InventoryConstants DEF MissingDevices, Sound, TypeOK, Timed
  <2>2. rows[k].last \in Nat /\ rows[k].last + longest >= seen[k]
    BY <2>1 DEF Row, Exists, Fair
  <2> QED
    BY <2>1, <2>2
<1> QED
  BY <1>1, AlwaysTimed, PTL

-----------------------------------------------------------------------------
(* What is known of a departure: a round's time is no later than the last use
   of any address it found in use, so a row's last_seen outruns the last use of
   its address by no more than the time a round has taken to write it. *)
Held(r) == r.batch \cup r.todo \cup r.device

Witnessed(w) == \A s \in Held(rounds[w]) : rounds[w].now <= lastUsed[s.ip]

Attested(k) == Exists(k) => rows[k].last <= lastUsed[rows[k].ip] + longest

Tracked == lastUsed \in [IPs -> Nat] /\ \A ip \in IPs : lastUsed[ip] <= clock

Departing ==
    Tracked /\ (\A w \in Workers : Witnessed(w)) /\ \A k \in Keys : Attested(k)

(* The history goes forward. *)
Forward ==
    /\ Longer
    /\ \A ip \in IPs : /\ lastUsed[ip] \in Nat /\ lastUsed'[ip] \in Nat
                        /\ lastUsed[ip] <= lastUsed'[ip]

LEMMA ClockAdvances ==
    ASSUME Sound, [Next]_vars
    PROVE  clock' \in Nat /\ clock <= clock'
<1>1. clock \in Nat /\ (clock' = clock \/ clock' = clock + 1)
  BY DEF Sound, TypeOK, vars, Next, Steady, Tick, Connect, Disconnect, Forgotten, RunDiscovery, Discover,
         UpsertDevices, SelectDevice, AllSaved, Insert, InsertFails, UpdateSeen, StatementFails,
         EnrichOne, CountNew, CountMissing, RecordLAN, LookUp, Identify, QueryFails,
         MarkDeviceKnown, UpdateDevice, MarkAllNewDevicesKnown, Restart
<1> QED
  BY <1>1

LEMMA TrackedStep ==
    ASSUME Sound, Tracked, longest \in Nat, [Next]_vars, KeepTrack \/ UNCHANGED dvars
    PROVE  Tracked' /\ Forward
<1>0. clock \in Nat /\ clock' \in Nat /\ clock <= clock' /\ Longer
  BY ClockAdvances, LongestStep DEF Sound, TypeOK
<1>1. CASE KeepTrack
  <2>1. lastUsed' = [ip \in IPs |-> IF lan'[ip] # Nobody \/ stale'[ip] # Nobody THEN clock'
                                 ELSE lastUsed[ip]]
    BY <1>1 DEF KeepTrack
  <2>2. ASSUME NEW ip \in IPs
        PROVE  /\ lastUsed[ip] \in Nat /\ lastUsed'[ip] \in Nat
               /\ lastUsed[ip] <= lastUsed'[ip] /\ lastUsed'[ip] <= clock'
    <3>1. lastUsed[ip] \in Nat /\ lastUsed[ip] <= clock
      BY DEF Tracked
    <3>2. lastUsed'[ip] = clock' \/ lastUsed'[ip] = lastUsed[ip]
      BY <2>1
    <3> QED
      BY <1>0, <3>1, <3>2
  <2>3. lastUsed' \in [IPs -> Nat]
    BY <2>1, <2>2
  <2> QED
    BY <1>0, <2>2, <2>3 DEF Tracked, Forward
<1>2. CASE UNCHANGED dvars
  BY <1>0, <1>2 DEF dvars, Tracked, Forward
<1> QED
  BY <1>1, <1>2

(* A worker goes on with sightings it has, or stops. *)
LEMMA WitnessesStay ==
    ASSUME Sound, Departing, NEW w \in Workers, NEW r \in Round,
           rounds' = [rounds EXCEPT ![w] = r], Forward,
           Held(r) = {} \/ r.now = rounds[w].now,
           Held(r) \subseteq Held(rounds[w])
    PROVE  \A v \in Workers : Witnessed(v)'
<1>0. rounds \in [Workers -> Round]
  BY DEF Sound, TypeOK
<1>1. ASSUME NEW v \in Workers, NEW s \in Held(rounds'[v])
      PROVE  rounds'[v].now <= lastUsed'[s.ip]
  <2>1. /\ s \in Held(rounds[v])
        /\ rounds'[v].now = rounds[v].now
    <3>1. CASE v = w
      BY <1>0, <1>1, <3>1
    <3>2. CASE v # w
      BY <1>0, <1>1, <3>2
    <3> QED
      BY <3>1, <3>2
  <2>2. s.ip \in IPs /\ rounds[v].now \in Nat
    BY <1>0, <2>1 DEF Round, Sighting, Held
  <2>3. rounds[v].now <= lastUsed[s.ip]
    BY <2>1 DEF Departing, Witnessed
  <2>4. lastUsed[s.ip] \in Nat /\ lastUsed'[s.ip] \in Nat /\ lastUsed[s.ip] <= lastUsed'[s.ip]
    BY <2>2 DEF Forward
  <2> QED
    BY <2>1, <2>2, <2>3, <2>4
<1> QED
  BY <1>1 DEF Witnessed

(* A row that is written keeps its address and time, or gets those of a use. *)
LEMMA AttestedWhen ==
    ASSUME Sound, Sound', Departing, Forward,
           \A k \in Keys : Exists(k)' =>
              \/ Exists(k) /\ rows'[k].last = rows[k].last /\ rows'[k].ip = rows[k].ip
              \/ rows'[k].last <= lastUsed[rows'[k].ip] + longest
    PROVE  \A k \in Keys : Attested(k)'
<1>1. ASSUME NEW k \in Keys, Exists(k)' PROVE rows'[k].last <= lastUsed'[rows'[k].ip] + longest'
  <2>1. /\ rows'[k].last \in Nat /\ rows'[k].ip \in IPs
        /\ longest \in Nat /\ longest' \in Nat /\ longest <= longest'
    <3>1. rows'[k] \in Row
      BY <1>1 DEF Sound, TypeOK, Exists
    <3> QED
      BY <3>1 DEF Row, Forward, Longer
  <2>2. rows'[k].last <= lastUsed[rows'[k].ip] + longest
    <3>1. CASE Exists(k) /\ rows'[k].last = rows[k].last /\ rows'[k].ip = rows[k].ip
      BY <3>1 DEF Departing, Attested
    <3> QED
      BY <1>1, <3>1
  <2>3. /\ lastUsed[rows'[k].ip] \in Nat /\ lastUsed'[rows'[k].ip] \in Nat
        /\ lastUsed[rows'[k].ip] <= lastUsed'[rows'[k].ip]
    BY <2>1 DEF Forward
  <2> QED
    BY <2>1, <2>2, <2>3
<1> QED
  BY <1>1 DEF Attested

LEMMA UpsertWitnessed ==
    ASSUME Sound, Sound', Departing, Forward, NEW w \in Workers,
           UpsertDevices(w) \/ StatementFails(w)
    PROVE  (\A v \in Workers : Witnessed(v)') /\ \A k \in Keys : Attested(k)'
<1>0. /\ rounds \in [Workers -> Round] /\ rounds[w] \in Round /\ rounds[w].now \in Nat
      /\ rows \in [Keys -> Row \cup {NoRow}] /\ longest \in Nat
  BY DEF Sound, TypeOK, Round, Forward, Longer
<1>s. ASSUME NEW s \in rounds[w].todo \cup rounds[w].device
      PROVE  /\ s.key \in Keys /\ s.ip \in IPs
             /\ rounds[w].now <= lastUsed[s.ip] + longest
  <2>1. s.key \in Keys /\ s.ip \in IPs
    BY <1>0 DEF Round, Sighting
  <2>2. rounds[w].now <= lastUsed[s.ip] /\ lastUsed[s.ip] \in Nat
    BY <2>1 DEF Departing, Witnessed, Held, Forward
  <2> QED
    BY <1>0, <2>1, <2>2
<1>u. ASSUME UNCHANGED rows PROVE \A k \in Keys : Attested(k)'
  BY <1>u, AttestedWhen DEF Exists
<1>1. CASE EndUpsert(w) /\ UNCHANGED <<clock, lan, stale, rows, gauge, announced, seen>>
  <2>1. CASE w \in Tools
    <3>1. rounds' = [rounds EXCEPT ![w] = IdleRound]
      BY <1>1, <2>1 DEF EndUpsert
    <3> QED
      BY <1>1, <1>u, <3>1, IdleIsRound, WitnessesStay DEF Held
  <2>2. CASE w \notin Tools
    <3>1. PICK named \in SUBSET rounds[w].batch :
             rounds' = [rounds EXCEPT ![w].pc = "enriching", ![w].batch = {}, ![w].todo = named,
                                  ![w].device = {}]
      BY <1>1, <2>2 DEF EndUpsert
    <3> DEFINE r == [rounds[w] EXCEPT !.pc = "enriching", !.batch = {}, !.todo = named, !.device = {}]
    <3>2. /\ r \in Round /\ rounds' = [rounds EXCEPT ![w] = r] /\ r.now = rounds[w].now
          /\ r.batch = {} /\ r.todo = named /\ r.device = {}
      BY <1>0, <3>1 DEF Round
    <3> HIDE DEF r
    <3> QED
      BY <1>1, <1>u, <3>2, WitnessesStay DEF Held
  <2> QED
    BY <2>1, <2>2
<1>2. CASE SelectDevice(w)
  <2>1. PICK s \in rounds[w].todo :
           rounds' = [rounds EXCEPT ![w].pc = IF Exists(s.key) THEN "updating" ELSE "inserting",
                                   ![w].device = {s}]
    BY <1>2 DEF SelectDevice
  <2> DEFINE r == [rounds[w] EXCEPT !.pc = IF Exists(s.key) THEN "updating" ELSE "inserting",
                               !.device = {s}]
  <2>2. /\ r \in Round /\ rounds' = [rounds EXCEPT ![w] = r] /\ r.now = rounds[w].now
        /\ r.batch = rounds[w].batch /\ r.todo = rounds[w].todo
        /\ r.device = {s} /\ s \in rounds[w].todo
    BY <1>0, <2>1 DEF Round
  <2> HIDE DEF r
  <2> QED
    BY <1>2, <1>u, <2>2, WitnessesStay DEF Held, SelectDevice
<1>3. CASE Insert(w)
  <2>1. PICK s \in rounds[w].device :
           /\ rows' = [rows EXCEPT ![s.key] = Fresh(s, rounds[w].now)]
           /\ rounds' = [rounds EXCEPT ![w].pc = "selecting", ![w].todo = @ \ {s}, ![w].device = {},
                                       ![w].inserted = @ \cup {s.key}]
    BY <1>3 DEF Insert
  <2> DEFINE r == [rounds[w] EXCEPT !.pc = "selecting", !.todo = @ \ {s}, !.device = {},
                               !.inserted = @ \cup {s.key}]
  <2>2. /\ r \in Round /\ rounds' = [rounds EXCEPT ![w] = r] /\ r.now = rounds[w].now
        /\ r.batch = rounds[w].batch /\ r.todo = rounds[w].todo \ {s}
        /\ r.device \subseteq rounds[w].device
    BY <1>0, <1>s, <2>1 DEF Round
  <2> HIDE DEF r
  <2>3. \A v \in Workers : Witnessed(v)'
    BY <2>2, WitnessesStay DEF Held
  <2>4. ASSUME NEW k \in Keys, Exists(k)'
        PROVE  \/ Exists(k) /\ rows'[k].last = rows[k].last /\ rows'[k].ip = rows[k].ip
               \/ rows'[k].last <= lastUsed[rows'[k].ip] + longest
    BY <1>0, <1>s, <2>1, <2>4 DEF Fresh, Exists
  <2> QED
    BY <2>3, <2>4, AttestedWhen
<1>4. CASE UpdateSeen(w)
  <2>1. PICK s \in rounds[w].device :
           /\ rows' = [rows EXCEPT ![s.key] = Refreshed(rows[s.key], s, rounds[w].now)]
           /\ rounds' = [rounds EXCEPT ![w].pc = "selecting", ![w].todo = rounds[w].todo \ {s},
                                       ![w].device = {}]
    BY <1>4 DEF UpdateSeen, LeftAfter
  <2> DEFINE r == [rounds[w] EXCEPT !.pc = "selecting", !.todo = rounds[w].todo \ {s}, !.device = {}]
  <2>2. /\ r \in Round /\ rounds' = [rounds EXCEPT ![w] = r] /\ r.now = rounds[w].now
        /\ r.batch = rounds[w].batch /\ r.todo = rounds[w].todo \ {s}
        /\ r.device \subseteq rounds[w].device
    BY <1>0, <1>s, <2>1 DEF Round
  <2> HIDE DEF r
  <2>3. \A v \in Workers : Witnessed(v)'
    BY <2>2, WitnessesStay DEF Held
  <2>4. rows[s.key] \in Row
    BY <1>0, <1>4, <1>s, <2>1 DEF UpdateSeen, Sound, Prepared, Exists
  <2>5. /\ Refreshed(rows[s.key], s, rounds[w].now).last = rounds[w].now
        /\ Refreshed(rows[s.key], s, rounds[w].now).ip = s.ip
    BY <2>4 DEF Refreshed, Row
  <2>6. ASSUME NEW k \in Keys, Exists(k)'
        PROVE  \/ Exists(k) /\ rows'[k].last = rows[k].last /\ rows'[k].ip = rows[k].ip
               \/ rows'[k].last <= lastUsed[rows'[k].ip] + longest
    BY <1>0, <1>s, <2>1, <2>5, <2>6 DEF Exists
  <2> QED
    BY <2>3, <2>6, AttestedWhen
<1> QED
  BY <1>1, <1>2, <1>3, <1>4 DEF UpsertDevices, StatementFails, AllSaved, InsertFails

(* The steps of a round outside UpsertDevices.  A scan finds hosts that are
   there, whatever happens to them while the round runs. *)
LEMMA RoundWitnessed ==
    ASSUME Sound, Sound', Timed, Departing, Forward, NEW w \in Workers, KeepTrack,
           Discover(w) \/ EnrichOne(w) \/ CountNew(w) \/ CountMissing(w) \/ RecordLAN(w)
    PROVE  (\A v \in Workers : Witnessed(v)') /\ \A k \in Keys : Attested(k)'
<1>0. /\ rounds \in [Workers -> Round] /\ rounds[w] \in Round /\ rounds[w].now \in Nat
      /\ rows \in [Keys -> Row \cup {NoRow}] /\ longest \in Nat /\ clock \in Nat
  BY DEF Sound, TypeOK, Round, Forward, Longer
<1>u. ASSUME UNCHANGED rows PROVE \A k \in Keys : Attested(k)'
  BY <1>u, AttestedWhen DEF Exists
<1>1. CASE Discover(w)
  <2>1. PICK B \in Scans : rounds' = [rounds EXCEPT ![w] = NewRound("selecting", B)]
    BY <1>1 DEF Discover
  <2>2. ASSUME NEW s \in B PROVE s.ip \in IPs /\ lastUsed'[s.ip] = clock
    <3>1. s.ip \in IPs /\ (lan[s.ip] # Nobody \/ stale[s.ip] # Nobody)
      BY InventoryConstants DEF Scans, Sighting, Found
    <3>2. lan' = lan /\ stale' = stale /\ clock' = clock
      BY <1>1 DEF Discover
    <3> QED
      BY <3>1, <3>2 DEF KeepTrack
  <2>3. /\ NewRound("selecting", B).now = clock
        /\ NewRound("selecting", B).batch = B /\ NewRound("selecting", B).todo = B
        /\ NewRound("selecting", B).device = {}
    BY DEF NewRound
  <2>4. Witnessed(w)'
    BY <1>0, <2>1, <2>2, <2>3 DEF Witnessed, Held
  <2>5. ASSUME NEW v \in Workers \ {w} PROVE Witnessed(v)'
    <3>1. rounds'[v] = rounds[v] /\ rounds[v] \in Round
      BY <1>0, <2>1
    <3>2. ASSUME NEW s \in Held(rounds[v])
          PROVE  rounds[v].now <= lastUsed'[s.ip]
      <4>1. s.ip \in IPs /\ rounds[v].now \in Nat
        BY <3>1 DEF Round, Sighting, Held
      <4>2. rounds[v].now <= lastUsed[s.ip]
        BY DEF Departing, Witnessed
      <4> QED
        BY <4>1, <4>2 DEF Forward
    <3> QED
      BY <3>1, <3>2 DEF Witnessed
  <2> QED
    BY <1>1, <1>u, <2>4, <2>5 DEF Discover
<1>2. CASE EnrichOne(w)
  <2>1. PICK s \in rounds[w].todo :
           rows' = SeenAt(s.ip) /\ rounds' = [rounds EXCEPT ![w].todo = @ \ {s}]
    BY <1>2 DEF EnrichOne
  <2> DEFINE r == [rounds[w] EXCEPT !.todo = @ \ {s}]
  <2>2. /\ r \in Round /\ rounds' = [rounds EXCEPT ![w] = r] /\ r.now = rounds[w].now
        /\ r.batch = rounds[w].batch /\ r.todo = rounds[w].todo \ {s}
        /\ r.device \subseteq rounds[w].device
    BY <1>0, <2>1 DEF Round
  <2> HIDE DEF r
  <2>3. \A v \in Workers : Witnessed(v)'
    BY <2>2, WitnessesStay DEF Held
  <2>4. s.ip \in IPs /\ clock <= lastUsed[s.ip] + longest
    <3>1. s.ip \in IPs /\ lastUsed[s.ip] \in Nat /\ rounds[w].now <= lastUsed[s.ip]
      BY <1>0 DEF Round, Sighting, Held, Forward, Departing, Witnessed
    <3>2. clock - rounds[w].now <= longest
      BY <1>2 DEF EnrichOne, Timed, OnTime
    <3> QED
      BY <1>0, <3>1, <3>2
  <2>5. ASSUME NEW k \in Keys, Exists(k)'
        PROVE  \/ Exists(k) /\ rows'[k].last = rows[k].last /\ rows'[k].ip = rows[k].ip
               \/ rows'[k].last <= lastUsed[rows'[k].ip] + longest
    <3>1. rows'[k] = IF Exists(k) /\ rows[k].ip = s.ip THEN [rows[k] EXCEPT !.last = clock]
                     ELSE rows[k]
      BY <2>1 DEF SeenAt
    <3>2. CASE Exists(k) /\ rows[k].ip = s.ip
      <4>1. rows[k] \in Row /\ rows'[k] = [rows[k] EXCEPT !.last = clock]
        BY <1>0, <3>1, <3>2 DEF Exists
      <4>2. rows'[k].last = clock /\ rows'[k].ip = s.ip
        BY <3>2, <4>1 DEF Row
      <4> QED
        BY <2>4, <4>2
    <3>3. CASE ~(Exists(k) /\ rows[k].ip = s.ip)
      BY <2>5, <3>1, <3>3 DEF Exists
    <3> QED
      BY <3>2, <3>3
  <2> QED
    BY <2>3, <2>5, AttestedWhen
<1>3. CASE CountNew(w)
  <2> DEFINE r == [rounds[w] EXCEPT !.pc = "counting", !.new = NewDevices]
  <2>1. /\ r \in Round /\ rounds' = [rounds EXCEPT ![w] = r] /\ r.now = rounds[w].now
        /\ r.batch = rounds[w].batch /\ r.todo = rounds[w].todo
        /\ r.device = rounds[w].device
    BY <1>0, <1>3 DEF CountNew, Round, NewDevices
  <2> HIDE DEF r
  <2> QED
    BY <1>3, <1>u, <2>1, WitnessesStay DEF Held, CountNew
<1>4. CASE CountMissing(w)
  <2> DEFINE r == [rounds[w] EXCEPT !.pc = "recording", !.missing = MissingDevices]
  <2>1. /\ r \in Round /\ rounds' = [rounds EXCEPT ![w] = r] /\ r.now = rounds[w].now
        /\ r.batch = rounds[w].batch /\ r.todo = rounds[w].todo
        /\ r.device = rounds[w].device
    BY <1>0, <1>4 DEF CountMissing, Round, MissingDevices
  <2> HIDE DEF r
  <2> QED
    BY <1>4, <1>u, <2>1, WitnessesStay DEF Held, CountMissing
<1>5. CASE RecordLAN(w)
  <2>1. rounds' = [rounds EXCEPT ![w] = IdleRound]
    BY <1>5 DEF RecordLAN
  <2> QED
    BY <1>5, <1>u, <2>1, IdleIsRound, WitnessesStay DEF Held, RecordLAN
<1> QED
  BY <1>1, <1>2, <1>3, <1>4, <1>5

LEMMA DepartingStep ==
    ASSUME Tools = {}, Sound, Timed, Departing, [DNext]_dvars
    PROVE  Departing'
<1>0. [Next]_vars /\ (KeepTrack \/ UNCHANGED dvars)
  BY DEF DNext, dvars, vars
<1>1. Sound' /\ Forward /\ Tracked'
  BY <1>0, NextSound, TrackedStep DEF Departing, Timed
<1>2. rounds \in [Workers -> Round] /\ rows \in [Keys -> Row \cup {NoRow}]
  BY DEF Sound, TypeOK
<1> DEFINE Goal == (\A v \in Workers : Witnessed(v)') /\ \A k \in Keys : Attested(k)'
<1> SUFFICES Goal
  BY <1>1 DEF Departing
<1>u. ASSUME UNCHANGED rows PROVE \A k \in Keys : Attested(k)'
  BY <1>1, <1>u, AttestedWhen DEF Exists
<1>w. ASSUME UNCHANGED rounds PROVE \A v \in Workers : Witnessed(v)'
  <2> SUFFICES ASSUME NEW v \in Workers, NEW s \in Held(rounds[v])
               PROVE  rounds[v].now <= lastUsed'[s.ip]
    BY <1>w DEF Witnessed
  <2>1. s.ip \in IPs /\ rounds[v].now \in Nat /\ rounds[v].now <= lastUsed[s.ip]
    BY <1>2 DEF Round, Sighting, Held, Departing, Witnessed
  <2> QED
    BY <1>1, <2>1 DEF Forward
<1>3. ASSUME NEW w \in Workers, UpsertDevices(w) \/ StatementFails(w) PROVE Goal
  BY <1>1, <1>3, UpsertWitnessed
<1>4. ASSUME NEW w \in Workers, KeepTrack,
             Discover(w) \/ EnrichOne(w) \/ CountNew(w) \/ CountMissing(w) \/ RecordLAN(w)
      PROVE  Goal
  BY <1>1, <1>4, RoundWitnessed
<1>5. ASSUME NEW w \in Workers, QueryFails(w) PROVE Goal
  <2>0. UNCHANGED rows /\ rounds[w] \in Round
    BY <1>2, <1>5 DEF QueryFails
  <2>1. CASE rounds' = [rounds EXCEPT ![w].pc = "counting", ![w].new = {}]
    <3> DEFINE r == [rounds[w] EXCEPT !.pc = "counting", !.new = {}]
    <3>1. /\ r \in Round /\ rounds' = [rounds EXCEPT ![w] = r] /\ r.now = rounds[w].now
          /\ r.batch = rounds[w].batch /\ r.todo = rounds[w].todo
          /\ r.device = rounds[w].device
      BY <1>2, <2>0, <2>1 DEF Round
    <3> HIDE DEF r
    <3> QED
      BY <1>1, <1>u, <2>0, <3>1, WitnessesStay DEF Held
  <2>2. CASE rounds' = [rounds EXCEPT ![w].pc = "recording", ![w].missing = {}]
    <3> DEFINE r == [rounds[w] EXCEPT !.pc = "recording", !.missing = {}]
    <3>1. /\ r \in Round /\ rounds' = [rounds EXCEPT ![w] = r] /\ r.now = rounds[w].now
          /\ r.batch = rounds[w].batch /\ r.todo = rounds[w].todo
          /\ r.device = rounds[w].device
      BY <1>2, <2>0, <2>2 DEF Round
    <3> HIDE DEF r
    <3> QED
      BY <1>1, <1>u, <2>0, <3>1, WitnessesStay DEF Held
  <2>3. CASE rounds' = [rounds EXCEPT ![w] = IdleRound]
    BY <1>1, <1>u, <2>0, <2>3, IdleIsRound, WitnessesStay DEF Held
  <2> QED
    BY <1>5, <2>1, <2>2, <2>3 DEF QueryFails
<1>6. CASE (\E k \in Keys : MarkDeviceKnown(k)) \/ \E k \in Watched : UpdateDevice(k)
  <2>1. PICK j \in Keys, f \in BOOLEAN :
           /\ Exists(j) /\ UNCHANGED rounds
           /\ \/ rows' = [rows EXCEPT ![j].known = TRUE]
              \/ rows' = [rows EXCEPT ![j].monitored = f]
    BY <1>6, InventoryConstants DEF MarkDeviceKnown, UpdateDevice
  <2>2. ASSUME NEW k \in Keys, Exists(k)'
        PROVE  Exists(k) /\ rows'[k].last = rows[k].last /\ rows'[k].ip = rows[k].ip
    <3>1. CASE k = j
      BY <1>2, <2>1, <3>1 DEF Exists, Row
    <3>2. CASE k # j
      BY <1>2, <2>1, <2>2, <3>2 DEF Exists
    <3> QED
      BY <3>1, <3>2
  <2>3. \A k \in Keys : Attested(k)'
    BY <1>1, <2>2, AttestedWhen
  <2> QED
    BY <1>w, <2>1, <2>3
<1>7. CASE MarkAllNewDevicesKnown \/ Restart
  <2>1. rows' = AllKnown
    BY <1>7 DEF MarkAllNewDevicesKnown, Restart
  <2>2. \A k \in Keys : Attested(k)'
    BY <1>1, <2>1, AllKnownLast, AttestedWhen
  <2>3. \A v \in Workers : Witnessed(v)'
    <3>1. CASE MarkAllNewDevicesKnown
      BY <1>w, <3>1 DEF MarkAllNewDevicesKnown
    <3>2. CASE Restart
      BY <3>2, IdleIsRound DEF Restart, Witnessed, Held
    <3> QED
      BY <1>7, <3>1, <3>2
  <2> QED
    BY <2>2, <2>3
<1>8. CASE \/ Tick \/ UNCHANGED dvars
           \/ \E ip \in IPs : Disconnect(ip) \/ Forgotten(ip) \/ \E m \in Macs : Connect(m, ip)
  BY <1>8, <1>u, <1>w DEF Tick, Disconnect, Forgotten, Connect, dvars
<1> QED
  BY <1>3, <1>4, <1>5, <1>6, <1>7, <1>8 DEF DNext, Next, Steady, RunDiscovery, Workers

(* Where no identity is asked for by hand, a monitored device whose address has
   been out of use and out of the neighbour tables for the window and the length
   of the longest round is missing, whatever rounds overlap, fail or write late. *)
THEOREM DepartureAlwaysNoticed == ASSUME Tools = {} PROVE DSpec => []DepartureNoticed
<1>1. DInit => Departing
  <2> SUFFICES ASSUME DInit PROVE Departing
    OBVIOUS
  <2>1. Tracked
    BY DEF DInit, Init, Tracked
  <2>2. (\A w \in Workers : Witnessed(w)) /\ \A k \in Keys : Attested(k)
    BY DEF DInit, Init, IdleRound, Witnessed, Held, Attested, Exists
  <2> QED
    BY <2>1, <2>2 DEF Departing
<1>2. Sound /\ Timed /\ Departing /\ [DNext]_dvars => Departing'
  BY DepartingStep
<1>3. Sound /\ Timed /\ Departing => DepartureNoticed
  <2> SUFFICES ASSUME Sound, Timed, Departing, NEW k \in Keys, Exists(k), rows[k].monitored,
                      LongAgo(lastUsed[rows[k].ip])
               PROVE  rows[k].last < clock - MissingAfter
    BY DEF DepartureNoticed, MissingDevices
  <2>1. rows[k] \in Row
    BY DEF Sound, TypeOK, Exists
  <2>2. /\ rows[k].last \in Nat /\ lastUsed[rows[k].ip] \in Nat /\ clock \in Nat
        /\ longest \in Nat /\ MissingAfter \in Nat
    BY <2>1, InventoryConstants DEF Row, Departing, Tracked, Timed, Sound, TypeOK
  <2>3. /\ rows[k].last <= lastUsed[rows[k].ip] + longest
        /\ clock - lastUsed[rows[k].ip] > MissingAfter + longest
    BY DEF Departing, Attested, LongAgo
  <2> QED
    BY <2>2, <2>3
<1> QED
  BY <1>1, <1>2, <1>3, AlwaysTimed, PTL DEF DSpec
=============================================================================
