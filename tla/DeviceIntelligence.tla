------------------------- MODULE DeviceIntelligence -------------------------
(***************************************************************************)
(* What the agent knows of one device beyond its address: the open ports   *)
(* and the services in its row of the table devices, and the category in   *)
(* device_intelligence.  Four kinds of visitors read the device, look at   *)
(* it, and write all of that back in two statements, from what they read:  *)
(* a sweep, which scans the configured ports of the devices seen last, a   *)
(* request to scan whatever ports it names, an identity request or round   *)
(* that found services, and a list request that finds a device nobody has  *)
(* classified.  Devices do not touch one another's rows: of the others it  *)
(* matters how many were seen later.  The events that tell of a change are *)
(* left out.                                                               *)
(*                                                                         *)
(* Ports and services are those of the classifier that a device may have;  *)
(* what its host name and vendor hint at is fixed; confidence, evidence,   *)
(* flags and times are left out.                                           *)
(***************************************************************************)
EXTENDS Integers, FiniteSets

CONSTANTS
    Sweepers, Requesters, Enrichers, Listers,  \* concurrent visitors
    OpenPorts,       \* port numbers a device may listen on
    Announced,       \* services it may announce
    HostHints,       \* what its host name, its vendor and its source hint at
    ScanPorts,       \* the ports a sweep is configured to look at
    ScanLimit,       \* and for how many devices
    MaxAhead,        \* bound: devices seen later than this one
    MaxMoves,        \* bound: how often the device changes
    MaxFaults        \* bound: sweeps cut short, failed writes, restarts

ASSUME SweepConstants == ScanLimit \in Int /\ MaxAhead \in Nat

VARIABLES
    device,   \* the row of devices
    intel,    \* the row of device_intelligence
    actual,   \* what the device listens on, and how often that changed
    ahead,    \* the number of devices that were seen later
    visits,   \* where each visitor is
    faults

dvars == <<device, intel, actual, ahead, visits, faults>>

Visitors == Sweepers \cup Requesters \cup Enrichers \cup Listers

-----------------------------------------------------------------------------
(* classifyDevice: the first category whose ports, services or names fit. *)

(* Each category's ports, services and hints, in the order of the cases. *)
CategoryRule(name, ports, services, hints) ==
    [name |-> name, ports |-> ports, services |-> services, hints |-> hints]
CategoryRules == <<
    CategoryRule("Printer", {631, 9100, 515}, {"ipp", "printer", "airprint"}, {}),
    CategoryRule("Camera / video", {554, 8554}, {"rtsp", "rtsp-alt", "onvif"}, {"camera"}),
    CategoryRule("Media / IoT", {}, {"airplay", "googlecast", "chromecast", "roku", "homekit", "sonos", "upnp"}, {}),
    CategoryRule("Network infrastructure", {}, {}, {"network"}),
    CategoryRule("Server / NAS", {445, 2049, 111}, {"smb", "nfs", "nas"}, {"server"}),
    CategoryRule("Workstation", {3389}, {"workstation", "rdp"}, {"workstation"})>>

Category(ports, services) ==
    LET fit == {i \in DOMAIN CategoryRules : \/ ports \cap CategoryRules[i].ports # {}
                                      \/ services \cap CategoryRules[i].services # {}
                                      \/ HostHints \cap CategoryRules[i].hints # {}}
    IN  IF fit # {} THEN CategoryRules[CHOOSE i \in fit : \A j \in fit : i <= j].name
        ELSE IF ports # {} THEN "Service host"
        ELSE IF "lease" \in HostHints THEN "Client device" ELSE "Unclassified device"

(* serviceNames *)
ServiceNames(ports) ==
    {CASE p = 22 -> "ssh" [] p = 80 -> "http" [] p = 111 -> "rpcbind" [] p = 443 -> "https"
       [] p = 445 -> "smb" [] p = 515 -> "lpd" [] p = 554 -> "rtsp" [] p = 631 -> "ipp"
       [] p = 2049 -> "nfs" [] p = 3389 -> "rdp" [] p = 8554 -> "rtsp-alt" [] p = 9100 -> "jetdirect"
       [] OTHER -> "none" : p \in ports} \ {"none"}

-----------------------------------------------------------------------------
(* A visit: the ports, services and category it will write. *)

Away == [step |-> "away"]
Bound(v, ports, services, category) ==
    visits' = [visits EXCEPT ![v] = [step |-> "read", ports |-> ports, services |-> services,
                                     category |-> category]]
FaultUnless(well) == IF well THEN faults' = faults ELSE faults < MaxFaults /\ faults' = faults + 1

(* The ports a sweep looks at and the devices it gets to, unless it is told. *)
SweptPorts == IF ScanPorts = {} THEN {22, 80, 443, 445, 3389} ELSE ScanPorts
SweptDevices == IF ScanLimit \in 1..128 THEN ScanLimit ELSE 32

(* A sweep reads the rows, those seen last first, and scans the first of them. *)
ScanBegun(v) ==
    /\ visits[v] = Away /\ ahead < SweptDevices
    /\ visits' = [visits EXCEPT ![v] = [step |-> "scanning", services |-> device.services]]
    /\ UNCHANGED <<device, intel, actual, ahead, faults>>

(* PortScan and persistDevicePortScan.  What was not looked at is taken for
   closed, and so is the rest of a scan that is cut short. *)
Merged(ports, known) == ports \cup known
ScanResult(open, known) == open

Scanned(v, ports, services) ==
    LET kept == ScanResult(ports, device.ports)
    IN  Bound(v, kept, services \cup ServiceNames(kept), Category(kept, services))

ScanRead(v) ==
    /\ visits[v].step = "scanning"
    /\ \E ports \in SUBSET (actual.ports \cap SweptPorts) :
          /\ FaultUnless(ports = actual.ports \cap SweptPorts)
          /\ Scanned(v, ports, visits[v].services)
    /\ UNCHANGED <<device, intel, actual, ahead>>

(* A request looks at the ports it names, and then reads the row. *)
RequestScanned(v) ==
    /\ visits[v] = Away
    /\ \E ports \in SUBSET actual.ports :
          visits' = [visits EXCEPT ![v] = [step |-> "scanned", ports |-> ports]]
    /\ UNCHANGED <<device, intel, actual, ahead, faults>>

RequestRead(v) ==
    /\ visits[v].step = "scanned"
    /\ Scanned(v, visits[v].ports, device.services)
    /\ UNCHANGED <<device, intel, actual, ahead, faults>>

(* persistDeviceServices keeps the ports of the row it was given. *)
ServicesRead(v) ==
    /\ visits[v] = Away
    /\ \E found \in SUBSET Announced \ {{}} :
          LET services == device.services \cup found
          IN  Bound(v, device.ports, services, Category(device.ports, services))
    /\ UNCHANGED <<device, intel, actual, ahead, faults>>

(* ensureDeviceIntelligence, for a row without a classification. *)
ListRead(v) ==
    /\ visits[v] = Away /\ intel = "none"
    /\ Bound(v, device.ports, device.services \cup ServiceNames(device.ports),
             Category(device.ports, device.services))
    /\ UNCHANGED <<device, intel, actual, ahead, faults>>

(* UpdateDeviceIntelligence: the row of devices, then that of device_intelligence;
   either statement may fail, and the visit is over. *)
DeviceWritten(v) ==
    /\ visits[v].step = "read"
    /\ \E written \in BOOLEAN :
          /\ device' = IF written THEN [ports |-> visits[v].ports, services |-> visits[v].services]
                       ELSE device
          /\ visits' = [visits EXCEPT ![v] = IF written THEN [@ EXCEPT !.step = "half"] ELSE Away]
          /\ FaultUnless(written)
    /\ UNCHANGED <<intel, actual, ahead>>

IntelWritten(v) ==
    /\ visits[v].step = "half"
    /\ \E written \in BOOLEAN :
          /\ intel' = IF written THEN visits[v].category ELSE intel
          /\ FaultUnless(written)
    /\ visits' = [visits EXCEPT ![v] = Away]
    /\ UNCHANGED <<device, actual, ahead>>

-----------------------------------------------------------------------------
(* The device itself, and the process. *)
Moves ==
    /\ actual.moves < MaxMoves
    /\ \E ports \in SUBSET OpenPorts :
          actual' = [ports |-> ports, moves |-> actual.moves + 1]
    /\ UNCHANGED <<device, intel, ahead, visits, faults>>

(* Sightings: those of the others put them ahead, its own puts it first. *)
Sightings ==
    /\ ahead' \in 0..MaxAhead /\ ahead' # ahead
    /\ UNCHANGED <<device, intel, actual, visits, faults>>

DeviceRestart ==
    /\ FaultUnless(FALSE) /\ visits' = [v \in Visitors |-> Away]
    /\ UNCHANGED <<device, intel, actual, ahead>>

DIInit ==
    /\ device = [ports |-> {}, services |-> {}] /\ intel = "none"
    /\ actual \in [ports : SUBSET OpenPorts, moves : {0}] /\ ahead = 0
    /\ visits = [v \in Visitors |-> Away] /\ faults = 0

Written(v) == DeviceWritten(v) \/ IntelWritten(v)

DINext ==
    \/ \E v \in Sweepers : ScanBegun(v) \/ ScanRead(v)
    \/ \E v \in Requesters : RequestScanned(v) \/ RequestRead(v)
    \/ \E v \in Enrichers : ServicesRead(v)
    \/ \E v \in Listers : ListRead(v)
    \/ \E v \in Visitors : Written(v)
    \/ Moves \/ Sightings \/ DeviceRestart

(* The loop sweeps on and on, and nobody stops in the middle of a visit. *)
DIFairness ==
    /\ \A v \in Sweepers : WF_dvars(ScanBegun(v) \/ ScanRead(v))
    /\ \A v \in Requesters : WF_dvars(RequestRead(v))
    /\ \A v \in Visitors : WF_dvars(Written(v))

-----------------------------------------------------------------------------
(* Other visitors write back ports they read before, over those of a sweep, a
   request writes those of the ports it named, and a sweep that was cut short
   writes too few.  Still, once the device has come to rest and stays one of those
   that a sweep gets to, the ports in its row are again and again those it listens
   on of the ports a sweep looks at; and once no port is requested any more, its
   category is again and again one that fits them and services it was seen with. *)
PortsReturn ==
    LET open == actual.ports \cap SweptPorts
    IN  <>[](ahead < SweptDevices) =>
           /\ []<>(device.ports = open)
           /\ <>[](\A v \in Requesters : visits[v] = Away) =>
                 []<>(intel = Category(open, device.services))
=============================================================================
