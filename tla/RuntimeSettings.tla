--------------------------- MODULE RuntimeSettings ---------------------------
(***************************************************************************)
(* The runtime configuration: two rows of app_settings, runtime.config and *)
(* discovery.cidrs, that two requests write in opposite orders and without *)
(* a transaction, and what the agent reads of them over its YAML file.     *)
(*                                                                         *)
(* A document is its discovery networks and its other sections.  A section *)
(* is Blank when the code counts it as empty; each interval of "tests" is  *)
(* a section, and the path that an unnamed report directory gets is left   *)
(* out.                                                                    *)
(***************************************************************************)
EXTENDS FiniteSets

CONSTANTS
    PutRequests,     \* concurrent PUT requests
    Nets, ValidNets, \* texts for a network, and those that are one; NoText is the empty one
    NoText,
    Sections, Values, ValidValues, Blank,
    Uncounted,       \* the sections runtimeConfigLooksEmpty does not look at
    Replaced,        \* those taken from the document even when they are blank
    Yaml,            \* the document of the file
    Bodies,          \* what a request may send
    Absent           \* no row

Docs == [cidrs : SUBSET Nets, parts : [Sections -> Values \cup {Blank}]]

ASSUME SettingsConstants ==
    /\ ValidNets \subseteq Nets \ {NoText} /\ ValidValues \subseteq Values
    /\ Blank \notin Values /\ Uncounted \subseteq Sections /\ Replaced \subseteq Uncounted
    /\ Yaml \in Docs /\ Yaml.cidrs \subseteq ValidNets
    /\ Bodies \subseteq [bare : Docs, effective : Docs, yaml : Docs]
    /\ Absent \notin Docs \cup PutRequests /\ \A cidrs \in SUBSET Nets : cidrs # Absent

VARIABLES
    runtime,    \* the row runtime.config
    discovery,  \* the row discovery.cidrs
    puts,       \* where each request is
    alone       \* the request no other one overlapped, and what was in use before

svars == <<runtime, discovery, puts, alone>>

-----------------------------------------------------------------------------
(* What is read. *)

(* advancedConfigEmpty, reportsConfigEmpty, thresholdSetEmpty and so on. *)
IsEmpty(d, s) == d.parts[s] = Blank

(* effectiveRuntimeConfig: empty sections of the document fall back to the file;
   thresholds per target never do. *)
Used ==
    IF runtime = Absent
    THEN [Yaml EXCEPT !.cidrs = IF discovery = Absent THEN @ ELSE discovery]
    ELSE [cidrs |-> IF runtime.cidrs = {} THEN Yaml.cidrs ELSE runtime.cidrs,
          parts |-> [s \in Sections |-> IF IsEmpty(runtime, s) /\ s \notin Replaced
                                        THEN Yaml.parts[s] ELSE runtime.parts[s]]]

(* What GET /config/discovery answers. *)
Shown == IF discovery = Absent THEN Yaml.cidrs ELSE discovery

-----------------------------------------------------------------------------
(* What is written. *)

Normalized(cidrs) == cidrs \ {NoText}

LooksEmpty(d) == d.cidrs = {} /\ \A s \in Sections \ Uncounted : IsEmpty(d, s)

(* A body that looks empty may be an answer of the agent sent back to it. *)
Meant(body) ==
    IF ~LooksEmpty(body.bare) THEN body.bare
    ELSE IF ~LooksEmpty(body.effective) THEN body.effective
    ELSE IF ~LooksEmpty(body.yaml) THEN body.yaml ELSE body.bare

Accepted(d) ==
    d.cidrs \subseteq ValidNets /\ \A s \in Sections : d.parts[s] \in ValidValues \cup {Blank}

Idle == [step |-> "idle"]
Begun(r) ==
    alone' = [who |-> IF \A q \in PutRequests : puts[q] = Idle THEN r ELSE Absent,
              done |-> FALSE, cidrs |-> {}, parts |-> Used.parts]
(* The request is answered; both rows are written if both is true. *)
Answered(r, both, cidrs, parts) ==
    /\ puts' = [puts EXCEPT ![r] = Idle]
    /\ alone' = IF alone.who = r
                THEN [who |-> IF both THEN r ELSE Absent, done |-> both,
                      cidrs |-> cidrs, parts |-> parts]
                ELSE alone

(* PUT /config.  A row that cannot be written the first time ends the request
   before it has changed anything. *)
ConfigSaved(r) ==
    \E body \in Bodies :
       LET d == [Meant(body) EXCEPT !.cidrs = Normalized(@)]
       IN  /\ puts[r] = Idle /\ Accepted(d)
           /\ runtime' = d
           /\ puts' = [puts EXCEPT ![r] = [step |-> "saved", doc |-> d]]
           /\ Begun(r) /\ UNCHANGED discovery

ConfigNamed(r) ==
    /\ puts[r].step = "saved"
    /\ LET d == puts[r].doc
           parts == [s \in Sections |-> IF IsEmpty(d, s) THEN Yaml.parts[s] ELSE d.parts[s]]
       IN  \E written \in BOOLEAN :
              /\ discovery' = IF written THEN d.cidrs ELSE discovery
              /\ Answered(r, written, d.cidrs, parts)
    /\ UNCHANGED runtime

(* PUT /config/discovery *)
NetworksNamed(r) ==
    \E cidrs \in SUBSET Nets :
       /\ puts[r] = Idle /\ Normalized(cidrs) \subseteq ValidNets
       /\ discovery' = Normalized(cidrs)
       /\ puts' = [puts EXCEPT ![r] = [step |-> "named", cidrs |-> Normalized(cidrs)]]
       /\ Begun(r) /\ UNCHANGED runtime

NetworksForgotten(r) ==
    /\ puts[r].step = "named"
    /\ Answered(r, TRUE, puts[r].cidrs, alone.parts)
    /\ UNCHANGED <<runtime, discovery>>

NetworksRead(r) ==
    /\ puts[r].step = "named"
    /\ \/ Answered(r, runtime = Absent, puts[r].cidrs, alone.parts)  \* no document, or unreadable
       \/ /\ runtime # Absent
          /\ puts' = [puts EXCEPT ![r] = [step |-> "read", doc |-> [runtime EXCEPT !.cidrs = puts[r].cidrs]]]
          /\ UNCHANGED alone
    /\ UNCHANGED <<runtime, discovery>>

NetworksSaved(r) ==
    /\ puts[r].step = "read"
    /\ \E written \in BOOLEAN :
          /\ runtime' = IF written THEN puts[r].doc ELSE runtime
          /\ Answered(r, written, puts[r].doc.cidrs, alone.parts)
    /\ UNCHANGED discovery

(* The rows alone survive the process. *)
SettingsRestart ==
    /\ puts' = [r \in PutRequests |-> Idle]
    /\ alone' = IF \E r \in PutRequests : puts[r] # Idle
                THEN [alone EXCEPT !.who = Absent, !.done = FALSE] ELSE alone
    /\ UNCHANGED <<runtime, discovery>>

SInit ==
    /\ runtime = Absent /\ discovery = Absent
    /\ puts = [r \in PutRequests |-> Idle]
    /\ alone = [who |-> Absent, done |-> FALSE, cidrs |-> {}, parts |-> Yaml.parts]

SNext ==
    \/ \E r \in PutRequests : \/ ConfigSaved(r) \/ ConfigNamed(r)
                              \/ NetworksNamed(r) \/ NetworksRead(r) \/ NetworksSaved(r)
    \/ SettingsRestart

SettingsSpec == SInit /\ [][SNext]_svars

-----------------------------------------------------------------------------
(* Whatever overlapping requests, failed writes and restarts left in the two
   rows, one request that runs by itself puts them right: the networks that are
   shown are the ones asked for and, unless a document exists and none was asked
   for, those that are scanned; what was asked for of the other sections is in
   use; and a request about networks leaves the other sections as they were. *)
AloneHeals ==
    alone.done =>
        /\ Shown = alone.cidrs
        /\ Used.cidrs = IF alone.cidrs = {} /\ runtime # Absent THEN Yaml.cidrs ELSE alone.cidrs
        /\ \A s \in Sections \ Replaced : Used.parts[s] = alone.parts[s]
=============================================================================
