--------------------------- MODULE OperationProofs ---------------------------
(***************************************************************************)
(* Theorems of the parts of the running agent that share no state: the     *)
(* catalogue of reports, the runtime configuration, the detection of       *)
(* changes.  Each has an inductive invariant of its own.                   *)
(***************************************************************************)
EXTENDS ReportCatalogue, RuntimeSettings, ChangeDetection, FiniteSetTheorems, TLAPS

-----------------------------------------------------------------------------
(* ReportCatalogue.                                                        *)
(* A listed report has its file until a cleanup was entitled to it.        *)
(* ServedUntilCutoff alone is not inductive: whoever removes a file must   *)
(* be known to remove an answered report's that is older than the cutoff,  *)
(* and a row about to be saved must be known to have its file.             *)

CatTypeOK ==
    /\ files \subseteq Ids /\ listed \subseteq Ids
    /\ created \in [Ids -> Nat]
    /\ making \in [Ids -> {"unasked", "written", "answered", "failed"}]
    /\ cleaning \in [Cleaners -> [cutoff : Nat, left : SUBSET Ids, on : BOOLEAN]]
    /\ day \in Nat /\ oldest \in Nat

WrittenHasFile == \A r \in Ids : making[r] = "written" => r \in files
ListedIsAnswered == \A r \in listed : making[r] = "answered"
RemovesOnlyExpired ==
    \A c \in Cleaners :
        /\ cleaning[c].cutoff <= oldest
        /\ \A r \in cleaning[c].left : making[r] = "answered" /\ created[r] < cleaning[c].cutoff

CatInv == CatTypeOK /\ WrittenHasFile /\ ListedIsAnswered /\ RemovesOnlyExpired /\ ServedUntilCutoff

LEMMA CatInitInv == CatInit => CatInv
BY CatalogueConstants DEF CatInit, CatInv, CatTypeOK, WrittenHasFile, ListedIsAnswered,
   RemovesOnlyExpired, ServedUntilCutoff, NoCleanup

(* A request: a report is written, then listed, or fails. *)
LEMMA RequestKeepsInv ==
    ASSUME CatInv, NEW r \in Ids,
           FileWritten(r) \/ FileFailed(r) \/ RowSaved(r) \/ RowFailed(r)
    PROVE CatInv'
<1> USE DEF CatInv
<1>1. CASE FileWritten(r)
  <2>1. CatTypeOK' BY <1>1 DEF FileWritten, CatTypeOK
  <2>2. WrittenHasFile' BY <1>1 DEF FileWritten, CatTypeOK, WrittenHasFile
  <2>3. r \notin listed /\ \A c \in Cleaners : r \notin cleaning[c].left
    BY <1>1 DEF FileWritten, ListedIsAnswered, RemovesOnlyExpired
  <2>4. ListedIsAnswered' BY <1>1, <2>3 DEF FileWritten, CatTypeOK, ListedIsAnswered
  <2>5. RemovesOnlyExpired' BY <1>1, <2>3 DEF FileWritten, CatTypeOK, RemovesOnlyExpired
  <2>6. ServedUntilCutoff' BY <1>1, <2>3 DEF FileWritten, CatTypeOK, ServedUntilCutoff
  <2> QED BY <2>1, <2>2, <2>4, <2>5, <2>6
<1>2. CASE FileFailed(r)
  <2>1. CatTypeOK' BY <1>2 DEF FileFailed, CatTypeOK
  <2>2. WrittenHasFile' BY <1>2 DEF FileFailed, CatTypeOK, WrittenHasFile
  <2>3. ListedIsAnswered' BY <1>2 DEF FileFailed, CatTypeOK, ListedIsAnswered
  <2>4. RemovesOnlyExpired' BY <1>2 DEF FileFailed, CatTypeOK, RemovesOnlyExpired
  <2>5. ServedUntilCutoff' BY <1>2 DEF FileFailed, CatTypeOK, ServedUntilCutoff
  <2> QED BY <2>1, <2>2, <2>3, <2>4, <2>5
<1>3. CASE RowSaved(r)
  <2>1. CatTypeOK' BY <1>3 DEF RowSaved, CatTypeOK
  <2>2. WrittenHasFile' BY <1>3 DEF RowSaved, CatTypeOK, WrittenHasFile
  <2>3. ListedIsAnswered' BY <1>3 DEF RowSaved, CatTypeOK, ListedIsAnswered
  <2>4. RemovesOnlyExpired' BY <1>3 DEF RowSaved, CatTypeOK, RemovesOnlyExpired
  <2>5. ServedUntilCutoff'
    BY <1>3 DEF RowSaved, CatTypeOK, ServedUntilCutoff, WrittenHasFile
  <2> QED BY <2>1, <2>2, <2>3, <2>4, <2>5
<1>4. CASE RowFailed(r)
  <2>1. CatTypeOK' BY <1>4 DEF RowFailed, CatTypeOK
  <2>2. WrittenHasFile' BY <1>4 DEF RowFailed, CatTypeOK, WrittenHasFile
  <2>3. ListedIsAnswered' BY <1>4 DEF RowFailed, CatTypeOK, ListedIsAnswered
  <2>4. RemovesOnlyExpired' BY <1>4 DEF RowFailed, CatTypeOK, RemovesOnlyExpired
  <2>5. ServedUntilCutoff' BY <1>4 DEF RowFailed, CatTypeOK, ServedUntilCutoff
  <2> QED BY <2>1, <2>2, <2>3, <2>4, <2>5
<1> QED BY <1>1, <1>2, <1>3, <1>4

(* A cleanup begins with rows that are listed, hence answered. *)
LEMMA CleanupBegunKeepsInv ==
    ASSUME CatInv, NEW c \in Cleaners, CleanupBegun(c)
    PROVE CatInv'
<1> USE DEF CatInv
<1>1. PICK n \in Retentions \ {0} :
         /\ n <= day
         /\ cleaning' = [cleaning EXCEPT ![c] =
                            [cutoff |-> day - n, left |-> Expired(day - n), on |-> TRUE]]
         /\ oldest' = IF day - n > oldest THEN day - n ELSE oldest
         /\ UNCHANGED <<files, listed, created, making, day>>
  BY DEF CleanupBegun
<1>2. n \in Nat /\ day - n \in Nat /\ oldest \in Nat /\ oldest' \in Nat
  <2>1. n \in Nat /\ day \in Nat /\ oldest \in Nat /\ n <= day
    BY <1>1, CatalogueConstants DEF CatTypeOK
  <2> QED
    BY <1>1, <2>1
<1>3. day - n <= oldest' /\ oldest <= oldest'
  BY <1>1, <1>2
<1>4. Expired(day - n) \subseteq Ids /\ \A r \in Expired(day - n) : r \in listed /\ created[r] < day - n
  BY DEF Expired, CatTypeOK
<1>5. CatTypeOK'
  BY <1>1, <1>2, <1>4 DEF CatTypeOK
<1>6. WrittenHasFile' /\ ListedIsAnswered'
  BY <1>1 DEF WrittenHasFile, ListedIsAnswered
<1>7. RemovesOnlyExpired'
  <2> SUFFICES ASSUME NEW d \in Cleaners
               PROVE (/\ cleaning[d].cutoff <= oldest
                      /\ \A r \in cleaning[d].left :
                            making[r] = "answered" /\ created[r] < cleaning[d].cutoff)'
    BY DEF RemovesOnlyExpired
  <2>1. CASE d = c
    <3>1. cleaning'[d] = [cutoff |-> day - n, left |-> Expired(day - n), on |-> TRUE]
      BY <1>1, <2>1 DEF CatTypeOK
    <3> QED BY <1>1, <1>3, <1>4, <3>1 DEF ListedIsAnswered
  <2>2. CASE d # c
    <3>1. cleaning'[d] = cleaning[d] /\ cleaning[d].cutoff \in Nat
      BY <1>1, <2>2 DEF CatTypeOK
    <3> QED BY <1>1, <1>2, <1>3, <3>1 DEF RemovesOnlyExpired
  <2> QED BY <2>1, <2>2
<1>8. ServedUntilCutoff'
  <2>1. \A r \in Ids : created[r] \in Nat BY DEF CatTypeOK
  <2> QED BY <1>1, <1>2, <1>3, <2>1 DEF ServedUntilCutoff, CatTypeOK
<1> QED BY <1>5, <1>6, <1>7, <1>8

(* What a cleanup removes and deletes is older than its cutoff. *)
LEMMA CleanupKeepsInv ==
    ASSUME CatInv, NEW c \in Cleaners, FileRemoved(c) \/ RowsDeleted(c)
    PROVE CatInv'
<1> USE DEF CatInv
<1>1. CASE FileRemoved(c)
  <2>1. PICK r \in cleaning[c].left :
           /\ files' \in {files, files \ {r}}
           /\ cleaning' = [cleaning EXCEPT ![c].left = @ \ {r}]
           /\ UNCHANGED <<listed, created, making, day, oldest>>
    BY <1>1 DEF FileRemoved
  <2>2. making[r] = "answered" /\ r \in Ids /\ created[r] \in Nat /\ ~(created[r] >= oldest)
    BY DEF RemovesOnlyExpired, CatTypeOK
  <2>3. CatTypeOK' BY <2>1 DEF CatTypeOK
  <2>4. WrittenHasFile' /\ ListedIsAnswered'
    BY <2>1, <2>2 DEF WrittenHasFile, ListedIsAnswered
  <2>5. RemovesOnlyExpired' BY <2>1 DEF RemovesOnlyExpired, CatTypeOK
  <2>6. ServedUntilCutoff' BY <2>1, <2>2 DEF ServedUntilCutoff
  <2> QED BY <2>3, <2>4, <2>5, <2>6
<1>2. CASE RowsDeleted(c)
  <2>1. listed' \subseteq listed /\ \A r \in listed \ listed' : created[r] < cleaning[c].cutoff
    BY <1>2 DEF RowsDeleted, Expired
  <2>2. \A r \in listed \ listed' : ~(created[r] >= oldest)
    BY <2>1 DEF RemovesOnlyExpired, CatTypeOK
  <2>3. CatTypeOK' BY <1>2, <2>1 DEF RowsDeleted, CatTypeOK, NoCleanup
  <2>4. WrittenHasFile' /\ ListedIsAnswered'
    BY <1>2, <2>1 DEF RowsDeleted, WrittenHasFile, ListedIsAnswered
  <2>5. RemovesOnlyExpired' BY <1>2 DEF RowsDeleted, RemovesOnlyExpired, NoCleanup, CatTypeOK
  <2>6. ServedUntilCutoff' BY <1>2, <2>1, <2>2 DEF RowsDeleted, ServedUntilCutoff
  <2> QED BY <2>3, <2>4, <2>5, <2>6
<1> QED BY <1>1, <1>2

LEMMA CatNextKeepsInv == CatInv /\ [CatNext]_cvars => CatInv'
<1> SUFFICES ASSUME CatInv, [CatNext]_cvars PROVE CatInv'
  OBVIOUS
<1>1. CASE DayPasses
  BY <1>1 DEF DayPasses, CatInv, CatTypeOK, WrittenHasFile, ListedIsAnswered,
     RemovesOnlyExpired, ServedUntilCutoff
<1>2. CASE CatalogueRestart
  BY <1>2 DEF CatalogueRestart, CatInv, CatTypeOK, WrittenHasFile, ListedIsAnswered,
     RemovesOnlyExpired, ServedUntilCutoff, NoCleanup
<1>3. CASE UNCHANGED cvars
  BY <1>3 DEF cvars, CatInv, CatTypeOK, WrittenHasFile, ListedIsAnswered,
     RemovesOnlyExpired, ServedUntilCutoff
<1> QED
  BY <1>1, <1>2, <1>3, RequestKeepsInv, CleanupBegunKeepsInv, CleanupKeepsInv DEF CatNext

(* A report that was answered with 201 is listed, and a listed one has its file,
   unless a cleanup had a cutoff later than its creation: whatever requests and
   cleanups overlap, fail, or end with the process (generateReport, cleanupReports). *)
THEOREM CatalogueServes == CatSpec => []ServedUntilCutoff
<1>1. CatInv => ServedUntilCutoff BY DEF CatInv
<1> QED BY <1>1, CatInitInv, CatNextKeepsInv, PTL DEF CatSpec

-----------------------------------------------------------------------------
(* ChangeDetection.                                                        *)
(* NoSilentChange needs to know what a sample that is about to be saved    *)
(* was compared with, and that there is a newest sample with details: if   *)
(* any that has them is looked through, then so is that one.               *)

Sample == [at : Nat, value : Found \cup {Junk, NoDetails}, changed : BOOLEAN, blind : BOOLEAN]
Carried == [step : {"found", "compared"}, at : Nat, value : Found \cup {Junk, NoDetails},
            changed : BOOLEAN, blind : BOOLEAN]

DetectionTypeOK ==
    /\ samples \subseteq Sample /\ IsFiniteSet(samples)
    /\ sweeps \in [Sweeps -> Carried \cup {None}] /\ probes \in Nat

NewestKnown == Detailed(samples) # {} => Decisive(samples) # {}
ComparedIsKnown ==
    \A s \in Sweeps :
       sweeps[s].step = "compared" /\ sweeps[s].value \in Found
          /\ ~sweeps[s].changed /\ ~sweeps[s].blind
       => \E y \in samples : y.value = sweeps[s].value

DetectionInv == DetectionTypeOK /\ NewestKnown /\ ComparedIsKnown /\ NoSilentChange

(* The newest sample with details is one of those that are looked through, if
   any of them has details. *)
LEMMA NewestIsLookedThrough ==
    ASSUME DetectionInv, Detailed(LatestAdvanced) # {}
    PROVE  Decisive(LatestAdvanced) # {}
<1>1. PICK e \in Detailed(LatestAdvanced) : TRUE
  OBVIOUS
<1>2. e \in Detailed(samples) /\ Cardinality({y \in samples : y.at > e.at}) < Window
  BY <1>1 DEF Detailed, LatestAdvanced
<1>3. PICK d \in Decisive(samples) : TRUE
  BY <1>2 DEF DetectionInv, NewestKnown
<1>4. d \in samples /\ d.value # NoDetails /\ \A y \in Detailed(samples) : y.at <= d.at
  BY <1>3 DEF Decisive, Detailed
<1>5. \A y \in samples : y.at \in Nat
  BY DEF DetectionInv, DetectionTypeOK, Sample
<1> DEFINE newer == {y \in samples : y.at > d.at}
           others == {y \in samples : y.at > e.at}
<1>6. newer \subseteq others /\ others \subseteq samples /\ IsFiniteSet(samples)
  BY <1>2, <1>4, <1>5 DEF Detailed, DetectionInv, DetectionTypeOK
<1>7. Cardinality(others) < Window
  BY <1>2
<1> HIDE DEF newer, others
<1>8. Cardinality(newer) < Window
  <2>1. IsFiniteSet(others) /\ IsFiniteSet(newer) /\ Cardinality(newer) <= Cardinality(others)
    BY <1>6, FS_Subset
  <2>2. Cardinality(newer) \in Nat /\ Cardinality(others) \in Nat
    BY <2>1, FS_CardinalityType
  <2> QED BY <1>7, <2>1, <2>2, DetectionConstants
<1>9. d \in Detailed(LatestAdvanced)
  BY <1>4, <1>8 DEF LatestAdvanced, Detailed, newer
<1>10. \A y \in Detailed(LatestAdvanced) : y.at <= d.at
  BY <1>4 DEF LatestAdvanced, Detailed
<1> QED
  BY <1>9, <1>10 DEF Decisive

LEMMA DetectionStep ==
    ASSUME DetectionInv, [DetectionNext]_avars
    PROVE  DetectionInv'
<1>0. /\ samples \subseteq Sample /\ IsFiniteSet(samples) /\ probes \in Nat
      /\ sweeps \in [Sweeps -> Carried \cup {None}]
  BY DEF DetectionInv, DetectionTypeOK
<1>n. None \notin Carried /\ None.step = "none"
  BY DEF None, Carried
<1>u. ASSUME UNCHANGED samples
      PROVE  NewestKnown' /\ NoSilentChange'
  BY <1>u DEF DetectionInv, NewestKnown, NoSilentChange, Detailed, Decisive
<1>1. ASSUME NEW s \in Sweeps, SampleFound(s) PROVE DetectionInv'
  <2>1. PICK value \in Found \cup {Junk, NoDetails} :
           sweeps' = [sweeps EXCEPT ![s] = [step |-> "found", at |-> probes + 1, value |-> value,
                                            changed |-> FALSE, blind |-> FALSE]]
    BY <1>1 DEF SampleFound
  <2>2. DetectionTypeOK'
    BY <1>0, <1>1, <2>1 DEF SampleFound, DetectionTypeOK, Carried
  <2>3. ComparedIsKnown'
    BY <1>0, <1>1, <2>1 DEF SampleFound, DetectionInv, ComparedIsKnown
  <2> QED
    BY <1>1, <1>u, <2>2, <2>3 DEF SampleFound, DetectionInv
<1>2. ASSUME NEW s \in Sweeps, SampleCompared(s) PROVE DetectionInv'
  <2>1. PICK rowsRead \in BOOLEAN :
           sweeps' = [sweeps EXCEPT ![s].step = "compared",
                                    ![s].changed = rowsRead /\ Changed(sweeps[s].value),
                                    ![s].blind = ~rowsRead \/ Detailed(LatestAdvanced) = {}]
    BY <1>2 DEF SampleCompared
  <2>2. sweeps[s] \in Carried
    BY <1>0, <1>2, <1>n DEF SampleCompared
  <2>3. Changed(sweeps[s].value) \in BOOLEAN
    BY DEF Changed
  <2> DEFINE r == [sweeps[s] EXCEPT !.step = "compared",
                                    !.changed = rowsRead /\ Changed(sweeps[s].value),
                                    !.blind = ~rowsRead \/ Detailed(LatestAdvanced) = {}]
  <2>4. sweeps' = [sweeps EXCEPT ![s] = r]
    BY <1>0, <2>1
  <2>5. /\ r \in Carried /\ r.value = sweeps[s].value
        /\ r.changed = (rowsRead /\ Changed(sweeps[s].value))
        /\ r.blind = (~rowsRead \/ Detailed(LatestAdvanced) = {})
    BY <2>2, <2>3 DEF Carried
  <2> HIDE DEF r
  <2>6. DetectionTypeOK'
    BY <1>0, <1>2, <2>4, <2>5 DEF SampleCompared, DetectionTypeOK
  <2>7. ASSUME r.value \in Found, ~r.changed, ~r.blind
        PROVE  \E y \in samples : y.value = r.value
    <3>1. rowsRead /\ ~Changed(sweeps[s].value) /\ Detailed(LatestAdvanced) # {}
      BY <2>5, <2>7
    <3>2. PICK y \in Decisive(LatestAdvanced) : TRUE
      BY <3>1, NewestIsLookedThrough
    <3>3. y \in samples /\ y.value = sweeps[s].value
      BY <2>5, <2>7, <3>1, <3>2 DEF Changed, Decisive, Detailed, LatestAdvanced
    <3> QED
      BY <2>5, <3>3
  <2>8. ComparedIsKnown'
    BY <1>0, <1>2, <2>4, <2>7 DEF SampleCompared, DetectionInv, ComparedIsKnown
  <2> QED
    BY <1>2, <1>u, <2>6, <2>8 DEF SampleCompared, DetectionInv
<1>3. ASSUME NEW s \in Sweeps, SampleSaved(s) PROVE DetectionInv'
  <2> DEFINE x == [at |-> sweeps[s].at, value |-> sweeps[s].value, changed |-> sweeps[s].changed,
                   blind |-> sweeps[s].blind]
  <2>1. /\ samples' \in {samples, samples \cup {x}}
        /\ sweeps' = [sweeps EXCEPT ![s] = None] /\ probes' = probes
    BY <1>3 DEF SampleSaved
  <2>2. sweeps[s] \in Carried /\ x \in Sample
    BY <1>0, <1>3, <1>n DEF SampleSaved, Carried, Sample
  <2>3. /\ x.value = sweeps[s].value /\ x.changed = sweeps[s].changed
        /\ x.blind = sweeps[s].blind /\ sweeps[s].step = "compared"
    BY <1>3 DEF SampleSaved
  <2> HIDE DEF x
  <2>4. DetectionTypeOK'
    <3>1. IsFiniteSet(samples \cup {x})
      BY <1>0, FS_AddElement
    <3> QED
      BY <1>0, <2>1, <2>2, <3>1 DEF DetectionTypeOK
  <2>6. NewestKnown'
    <3>1. \A y \in samples \cup {x} : y.at \in Nat
      BY <1>0, <2>2 DEF Sample
    <3>2. Detailed(samples) # {} =>
             \E d \in Detailed(samples) : \A y \in Detailed(samples) : y.at <= d.at
      BY DEF DetectionInv, NewestKnown, Decisive
    <3>3. CASE samples' = samples
      BY <1>u, <3>3
    <3>4. CASE samples' = samples \cup {x} /\ x.value = NoDetails
      BY <3>2, <3>4 DEF NewestKnown, Detailed, Decisive
    <3>5. CASE samples' = samples \cup {x} /\ x.value # NoDetails
      <4>1. Detailed(samples') = Detailed(samples) \cup {x}
        BY <3>5 DEF Detailed
      <4>2. CASE Detailed(samples) = {}
        BY <3>1, <4>1, <4>2, <3>5 DEF NewestKnown, Detailed, Decisive
      <4>3. CASE Detailed(samples) # {}
        <5>1. PICK d \in Detailed(samples) : \A y \in Detailed(samples) : y.at <= d.at
          BY <3>2, <4>3
        <5>2. d.at \in Nat /\ x.at \in Nat /\ \A y \in Detailed(samples) : y.at \in Nat
          BY <3>1 DEF Detailed
        <5>3. \E e \in Detailed(samples) \cup {x} : \A y \in Detailed(samples) \cup {x} : y.at <= e.at
          BY <5>1, <5>2
        <5>4. Decisive(samples') # {}
          BY <4>1, <5>3 DEF Decisive
        <5> QED
          BY <5>4 DEF NewestKnown, Decisive, Detailed
      <4> QED
        BY <4>2, <4>3
    <3> QED
      BY <2>1, <3>3, <3>4, <3>5
  <2>7. ComparedIsKnown'
    BY <1>0, <1>n, <2>1 DEF DetectionInv, ComparedIsKnown
  <2>8. NoSilentChange'
    <3>1. CASE samples' = samples
      BY <1>u, <3>1
    <3>2. CASE samples' = samples \cup {x}
      <4>1. ASSUME NEW z \in samples, z.value \in Found
            PROVE  \E y \in samples' : y.value = z.value /\ (y.changed \/ y.blind)
        BY <3>2, <4>1 DEF DetectionInv, NoSilentChange
      <4>2. ASSUME x.value \in Found
            PROVE  \E y \in samples' : y.value = x.value /\ (y.changed \/ y.blind)
        <5>1. CASE x.changed \/ x.blind
          BY <3>2, <5>1
        <5>2. CASE ~x.changed /\ ~x.blind
          <6>1. PICK z \in samples : z.value = x.value
            BY <2>3, <4>2, <5>2 DEF DetectionInv, ComparedIsKnown
          <6> QED
            BY <4>1, <4>2, <6>1
        <5> QED
          BY <5>1, <5>2
      <4> QED
        BY <3>2, <4>1, <4>2 DEF NoSilentChange
    <3> QED
      BY <2>1, <3>1, <3>2
  <2> QED
    BY <2>4, <2>6, <2>7, <2>8 DEF DetectionInv
<1>4. CASE UNCHANGED avars
  BY <1>4, <1>u DEF avars, DetectionInv, DetectionTypeOK, ComparedIsKnown
<1> QED
  BY <1>1, <1>2, <1>3, <1>4 DEF DetectionNext

(* No value becomes the current one without a sample that says it is a change, or
   that had nothing to be compared with among the samples looked through, however
   many sweeps overlap and however long an outage is (applyChangeDetection,
   LatestAdvanced). *)
THEOREM ChangesAreNoticed == DetectionSpec => []NoSilentChange
<1>1. DetectionInit => DetectionInv
  <2> SUFFICES ASSUME DetectionInit PROVE DetectionInv
    OBVIOUS
  <2>1. IsFiniteSet({})
    BY FS_EmptySet
  <2>2. Detailed(samples) = {}
    BY DEF DetectionInit, Detailed
  <2>3. \A s \in Sweeps : sweeps[s].step = "none"
    BY DEF DetectionInit, None
  <2> QED
    BY <2>1, <2>2, <2>3, DetectionConstants DEF DetectionInit, DetectionInv, DetectionTypeOK,
       NewestKnown, ComparedIsKnown, NoSilentChange
<1>2. DetectionInv /\ [DetectionNext]_avars => DetectionInv'
  BY DetectionStep
<1>3. DetectionInv => NoSilentChange
  BY DEF DetectionInv
<1> QED
  BY <1>1, <1>2, <1>3, PTL DEF DetectionSpec

-----------------------------------------------------------------------------
(* RuntimeSettings.                                                        *)
(* A request that nobody overlaps is followed from its beginning: while it *)
(* runs, all others are idle and the two rows are as its last step left    *)
(* them; what it will answer with is determined by them.                   *)

Put == [step : {"saved", "read"}, doc : Docs] \cup [step : {"named"}, cidrs : SUBSET Nets]

SettingsTypeOK ==
    /\ runtime \in Docs \cup {Absent} /\ discovery \in (SUBSET Nets) \cup {Absent}
    /\ puts \in [PutRequests -> Put \cup {Idle}]
    /\ alone \in [who : PutRequests \cup {Absent}, done : BOOLEAN, cidrs : SUBSET Nets,
                  parts : [Sections -> Values \cup {Blank}]]

PartsAsBefore == \A s \in Sections : Used.parts[s] = alone.parts[s]

(* What the rows hold in the middle of a request that runs alone. *)
Halfway(r) ==
    /\ puts[r].step = "saved" => runtime = puts[r].doc
    /\ puts[r].step = "named" => discovery = puts[r].cidrs /\ PartsAsBefore
    /\ puts[r].step = "read" =>
          /\ PartsAsBefore /\ runtime # Absent
          /\ puts[r].doc = [runtime EXCEPT !.cidrs = puts[r].doc.cidrs]
          /\ discovery = puts[r].doc.cidrs

RunsAlone ==
    \A r \in PutRequests : alone.who = r /\ ~alone.done =>
       /\ puts[r] # Idle /\ Halfway(r)
       /\ \A q \in PutRequests \ {r} : puts[q] = Idle

SettingsInv ==
    /\ SettingsTypeOK /\ RunsAlone /\ AloneHeals
    /\ alone.done => \A q \in PutRequests : puts[q] = Idle

LEMMA IdleIsNoPut == Idle \notin Put /\ Idle.step = "idle"
  BY DEF Idle, Put

(* The other sections that are in use, for either kind of row. *)
LEMMA UsedSections ==
    ASSUME SettingsTypeOK
    PROVE  /\ Used.parts \in [Sections -> Values \cup {Blank}]
           /\ runtime = Absent => Used.parts = Yaml.parts
           /\ runtime # Absent =>
                 /\ Used.cidrs = IF runtime.cidrs = {} THEN Yaml.cidrs ELSE runtime.cidrs
                 /\ \A s \in Sections :
                       Used.parts[s] = IF IsEmpty(runtime, s) /\ s \notin Replaced
                                       THEN Yaml.parts[s] ELSE runtime.parts[s]
<1>1. Yaml \in Docs
  BY SettingsConstants
<1>2. CASE runtime = Absent
  <2>1. Used = [Yaml EXCEPT !.cidrs = IF discovery = Absent THEN @ ELSE discovery]
    BY <1>2 DEF Used
  <2> QED
    BY <1>1, <1>2, <2>1 DEF Docs
<1>3. CASE runtime # Absent
  <2>1. Used = [cidrs |-> IF runtime.cidrs = {} THEN Yaml.cidrs ELSE runtime.cidrs,
                parts |-> [s \in Sections |-> IF IsEmpty(runtime, s) /\ s \notin Replaced
                                              THEN Yaml.parts[s] ELSE runtime.parts[s]]]
    BY <1>3 DEF Used
  <2>2. runtime \in Docs
    BY <1>3 DEF SettingsTypeOK
  <2> QED
    BY <1>1, <1>3, <2>1, <2>2 DEF Docs
<1> QED
  BY <1>2, <1>3

LEMMA MeantIsDoc == ASSUME NEW body \in Bodies PROVE Meant(body) \in Docs
  BY SettingsConstants DEF Meant

(* A request begins. *)
LEMMA BegunKeepsInv ==
    ASSUME SettingsInv, NEW r \in PutRequests, NEW p \in Put, puts[r] = Idle, Begun(r),
           puts' = [puts EXCEPT ![r] = p],
           runtime' \in Docs \cup {Absent}, discovery' \in (SUBSET Nets) \cup {Absent},
           p.step = "saved" => runtime' = p.doc,
           p.step = "named" => discovery' = p.cidrs /\ runtime' = runtime,
           p.step # "read"
    PROVE  SettingsInv'
<1>0. SettingsTypeOK /\ puts \in [PutRequests -> Put \cup {Idle}]
  BY DEF SettingsInv, SettingsTypeOK
<1>1. /\ alone'.who = IF \A q \in PutRequests : puts[q] = Idle THEN r ELSE Absent
      /\ alone'.done = FALSE /\ alone'.parts = Used.parts
  BY DEF Begun
<1>2. SettingsTypeOK'
  BY <1>0, UsedSections DEF SettingsTypeOK, Begun
<1>3. puts'[r] = p /\ p # Idle /\ \A q \in PutRequests \ {r} : puts'[q] = puts[q]
  BY <1>0, IdleIsNoPut
<1>4. RunsAlone'
  <2> SUFFICES ASSUME NEW a \in PutRequests, alone'.who = a
               PROVE  /\ puts'[a] # Idle /\ Halfway(a)'
                      /\ \A q \in PutRequests \ {a} : puts'[q] = Idle
    BY DEF RunsAlone
  <2>1. a = r /\ \A q \in PutRequests : puts[q] = Idle
    BY <1>1, SettingsConstants
  <2>2. p.step = "named" => PartsAsBefore'
    BY <1>1 DEF PartsAsBefore, Used, IsEmpty
  <2> QED
    BY <1>3, <2>1, <2>2 DEF Halfway
<1> QED
  BY <1>1, <1>2, <1>4 DEF SettingsInv, AloneHeals

(* A request goes on or ends: it does not begin. *)
LEMMA AnsweredKeepsInv ==
    ASSUME SettingsInv, NEW r \in PutRequests, puts[r] # Idle,
           NEW both \in BOOLEAN, NEW cidrs \in SUBSET Nets, NEW parts \in [Sections -> Values \cup {Blank}],
           Answered(r, both, cidrs, parts),
           runtime' \in Docs \cup {Absent}, discovery' \in (SUBSET Nets) \cup {Absent},
           both /\ alone.who = r =>
              /\ Shown' = cidrs
              /\ Used.cidrs' = IF cidrs = {} /\ runtime' # Absent THEN Yaml.cidrs ELSE cidrs
              /\ \A s \in Sections \ Replaced : Used.parts[s]' = parts[s]
    PROVE  SettingsInv'
<1>0. SettingsTypeOK /\ puts \in [PutRequests -> Put \cup {Idle}] /\ ~alone.done
  BY DEF SettingsInv, SettingsTypeOK
<1>1. puts' = [puts EXCEPT ![r] = Idle]
  BY DEF Answered
<1>2. CASE alone.who = r
  <2>1. alone' = [who |-> IF both THEN r ELSE Absent, done |-> both, cidrs |-> cidrs, parts |-> parts]
    BY <1>2 DEF Answered
  <2>2. SettingsTypeOK'
    BY <1>0, <1>1, <2>1 DEF SettingsTypeOK
  <2>3. \A q \in PutRequests : puts'[q] = Idle
    BY <1>0, <1>1, <1>2 DEF SettingsInv, RunsAlone
  <2>4. RunsAlone'
    BY <2>1, SettingsConstants DEF RunsAlone
  <2>5. AloneHeals'
    BY <1>2, <2>1 DEF AloneHeals
  <2> QED
    BY <2>2, <2>3, <2>4, <2>5 DEF SettingsInv
<1>3. CASE alone.who # r
  <2>1. alone' = alone
    BY <1>3 DEF Answered
  <2>2. SettingsTypeOK'
    BY <1>0, <1>1, <2>1 DEF SettingsTypeOK
  <2>3. alone.who \notin PutRequests
    BY <1>0, <1>3 DEF SettingsInv, RunsAlone
  <2> QED
    BY <1>0, <2>1, <2>2, <2>3 DEF SettingsInv, RunsAlone, AloneHeals
<1> QED
  BY <1>2, <1>3

LEMMA SettingsStep == SettingsInv /\ [SNext]_svars => SettingsInv'
<1> SUFFICES ASSUME SettingsInv, [SNext]_svars PROVE SettingsInv'
  OBVIOUS
<1>0. /\ SettingsTypeOK /\ puts \in [PutRequests -> Put \cup {Idle}]
      /\ runtime \in Docs \cup {Absent} /\ discovery \in (SUBSET Nets) \cup {Absent}
      /\ alone.parts \in [Sections -> Values \cup {Blank}]
  BY DEF SettingsInv, SettingsTypeOK
<1>a. ASSUME NEW r \in PutRequests, puts[r] # Idle, alone.who = r
      PROVE  Halfway(r)
  BY <1>a DEF SettingsInv, RunsAlone
<1>1. ASSUME NEW r \in PutRequests, ConfigSaved(r) PROVE SettingsInv'
  <2>1. PICK body \in Bodies :
           LET d == [Meant(body) EXCEPT !.cidrs = Normalized(@)]
           IN  /\ puts[r] = Idle /\ runtime' = d
               /\ puts' = [puts EXCEPT ![r] = [step |-> "saved", doc |-> d]]
    BY <1>1 DEF ConfigSaved
  <2> DEFINE d == [Meant(body) EXCEPT !.cidrs = Normalized(@)]
  <2>2. d \in Docs
    BY MeantIsDoc DEF Docs, Normalized
  <2> HIDE DEF d
  <2>3. [step |-> "saved", doc |-> d] \in Put
    BY <2>2 DEF Put
  <2>4. puts' = [puts EXCEPT ![r] = [step |-> "saved", doc |-> d]] /\ runtime' = d
    BY <2>1 DEF d
  <2>5. Begun(r) /\ discovery' = discovery
    BY <1>1 DEF ConfigSaved
  <2> QED
    BY <1>0, <2>1, <2>2, <2>3, <2>4, <2>5, BegunKeepsInv
<1>2. ASSUME NEW r \in PutRequests, NetworksNamed(r) PROVE SettingsInv'
  <2>1. PICK cidrs \in SUBSET Nets :
           /\ puts[r] = Idle /\ discovery' = Normalized(cidrs)
           /\ puts' = [puts EXCEPT ![r] = [step |-> "named", cidrs |-> Normalized(cidrs)]]
           /\ Begun(r) /\ UNCHANGED runtime
    BY <1>2 DEF NetworksNamed
  <2>2. Normalized(cidrs) \in SUBSET Nets
    BY DEF Normalized
  <2>3. [step |-> "named", cidrs |-> Normalized(cidrs)] \in Put
    BY <2>2 DEF Put
  <2> QED
    BY <1>0, <2>1, <2>2, <2>3, BegunKeepsInv
<1>3. ASSUME NEW r \in PutRequests, ConfigNamed(r) PROVE SettingsInv'
  <2> DEFINE d == puts[r].doc
             parts == [s \in Sections |-> IF IsEmpty(d, s) THEN Yaml.parts[s] ELSE d.parts[s]]
  <2>1. PICK written \in BOOLEAN :
           /\ discovery' = IF written THEN d.cidrs ELSE discovery
           /\ Answered(r, written, d.cidrs, parts) /\ UNCHANGED runtime
    BY <1>3 DEF ConfigNamed
  <2>2. puts[r].step = "saved" /\ puts[r] # Idle /\ d \in Docs
    BY <1>0, <1>3, IdleIsNoPut DEF ConfigNamed, Put
  <2>3. d.cidrs \in SUBSET Nets /\ parts \in [Sections -> Values \cup {Blank}]
    BY <2>2, SettingsConstants DEF Docs
  <2>4. ASSUME written, alone.who = r
        PROVE  /\ Shown' = d.cidrs
               /\ Used.cidrs' = IF d.cidrs = {} /\ runtime' # Absent THEN Yaml.cidrs ELSE d.cidrs
               /\ \A s \in Sections \ Replaced : Used.parts[s]' = parts[s]
    <3>1. runtime = d /\ runtime' = d /\ d # Absent
      BY <1>a, <2>1, <2>2, <2>4, SettingsConstants DEF Halfway
    <3>2. Shown' = d.cidrs
      BY <2>1, <2>3, <2>4, SettingsConstants DEF Shown
    <3>3. Used' = [cidrs |-> IF d.cidrs = {} THEN Yaml.cidrs ELSE d.cidrs,
                   parts |-> [s \in Sections |-> IF IsEmpty(d, s) /\ s \notin Replaced
                                                 THEN Yaml.parts[s] ELSE d.parts[s]]]
      BY <3>1 DEF Used, IsEmpty
    <3> QED
      BY <3>1, <3>2, <3>3
  <2> HIDE DEF parts, d
  <2> QED
    BY <1>0, <2>1, <2>2, <2>3, <2>4, AnsweredKeepsInv
<1>4. ASSUME NEW r \in PutRequests, NetworksRead(r) PROVE SettingsInv'
  <2>1. /\ puts[r].step = "named" /\ puts[r] # Idle /\ puts[r].cidrs \in SUBSET Nets
        /\ runtime' = runtime /\ discovery' = discovery
    BY <1>0, <1>4, IdleIsNoPut DEF NetworksRead, Put
  <2>2. CASE Answered(r, runtime = Absent, puts[r].cidrs, alone.parts)
    <3>1. ASSUME runtime = Absent, alone.who = r
          PROVE  /\ Shown' = puts[r].cidrs
                 /\ Used.cidrs' = IF puts[r].cidrs = {} /\ runtime' # Absent
                                  THEN Yaml.cidrs ELSE puts[r].cidrs
                 /\ \A s \in Sections \ Replaced : Used.parts[s]' = alone.parts[s]
      <4>1. discovery = puts[r].cidrs /\ PartsAsBefore
        BY <1>a, <2>1, <3>1 DEF Halfway
      <4>2. discovery # Absent
        BY <2>1, <4>1, SettingsConstants
      <4>3. Used = [Yaml EXCEPT !.cidrs = discovery] /\ Used' = Used /\ Yaml \in Docs
        BY <2>1, <3>1, <4>2, SettingsConstants DEF Used, IsEmpty
      <4>4. Used.cidrs = discovery
        BY <4>3 DEF Docs
      <4> QED
        BY <2>1, <3>1, <4>1, <4>2, <4>3, <4>4 DEF Shown, PartsAsBefore
    <3> QED
      BY <1>0, <2>1, <2>2, <3>1, AnsweredKeepsInv
  <2>3. CASE /\ runtime # Absent /\ alone' = alone
             /\ puts' = [puts EXCEPT ![r] = [step |-> "read",
                                             doc |-> [runtime EXCEPT !.cidrs = puts[r].cidrs]]]
    <3> DEFINE d == [runtime EXCEPT !.cidrs = puts[r].cidrs]
    <3>1. d \in Docs /\ d.cidrs = puts[r].cidrs /\ d = [runtime EXCEPT !.cidrs = d.cidrs]
      BY <1>0, <2>1, <2>3 DEF Docs
    <3>2. puts' = [puts EXCEPT ![r] = [step |-> "read", doc |-> d]]
      BY <2>3
    <3> HIDE DEF d
    <3>3. SettingsTypeOK'
      BY <1>0, <2>1, <2>3, <3>1, <3>2 DEF SettingsTypeOK, Put
    <3>4. ~alone.done
      BY <2>1 DEF SettingsInv
    <3>5. ASSUME NEW a \in PutRequests, alone.who = a
          PROVE  /\ puts'[a] # Idle /\ Halfway(a)'
                 /\ \A q \in PutRequests \ {a} : puts'[q] = Idle
      <4>1. a = r /\ Halfway(r) /\ \A q \in PutRequests \ {r} : puts[q] = Idle
        BY <2>1, <3>4, <3>5 DEF SettingsInv, RunsAlone
      <4>2. PartsAsBefore' /\ discovery = puts[r].cidrs
        BY <2>1, <2>3, <4>1 DEF Halfway, PartsAsBefore, Used, IsEmpty
      <4>3. puts'[r] = [step |-> "read", doc |-> d] /\ puts'[r] # Idle
        BY <1>0, <3>2 DEF Idle
      <4> QED
        BY <1>0, <2>1, <2>3, <3>1, <3>2, <4>1, <4>2, <4>3 DEF Halfway
    <3> QED
      BY <2>3, <3>3, <3>4, <3>5 DEF SettingsInv, RunsAlone, AloneHeals
  <2> QED
    BY <1>4, <2>2, <2>3 DEF NetworksRead
<1>5. ASSUME NEW r \in PutRequests, NetworksSaved(r) PROVE SettingsInv'
  <2> DEFINE d == puts[r].doc
  <2>1. PICK written \in BOOLEAN :
           /\ runtime' = IF written THEN d ELSE runtime
           /\ Answered(r, written, d.cidrs, alone.parts) /\ UNCHANGED discovery
    BY <1>5 DEF NetworksSaved
  <2>2. puts[r].step = "read" /\ puts[r] # Idle /\ d \in Docs
    BY <1>0, <1>5, IdleIsNoPut DEF NetworksSaved, Put
  <2>3. d.cidrs \in SUBSET Nets /\ d # Absent
    BY <2>2, SettingsConstants DEF Docs
  <2>4. ASSUME written, alone.who = r
        PROVE  /\ Shown' = d.cidrs
               /\ Used.cidrs' = IF d.cidrs = {} /\ runtime' # Absent THEN Yaml.cidrs ELSE d.cidrs
               /\ \A s \in Sections \ Replaced : Used.parts[s]' = alone.parts[s]
    <3>1. /\ PartsAsBefore /\ runtime # Absent /\ discovery = d.cidrs
          /\ d = [runtime EXCEPT !.cidrs = d.cidrs]
      BY <1>a, <2>2, <2>4 DEF Halfway
    <3>2. d.parts = runtime.parts /\ runtime' = d
      BY <1>0, <2>1, <2>4, <3>1 DEF Docs
    <3>3. Shown' = d.cidrs
      BY <2>1, <2>3, <3>1, SettingsConstants DEF Shown
    <3>4. Used' = [cidrs |-> IF d.cidrs = {} THEN Yaml.cidrs ELSE d.cidrs,
                   parts |-> [s \in Sections |-> IF IsEmpty(d, s) /\ s \notin Replaced
                                                 THEN Yaml.parts[s] ELSE d.parts[s]]]
      BY <2>3, <3>2 DEF Used, IsEmpty
    <3>5. Used.parts = Used.parts'
      BY <3>1, <3>2, <3>4 DEF Used, IsEmpty
    <3> QED
      BY <2>3, <3>1, <3>2, <3>3, <3>4, <3>5 DEF PartsAsBefore
  <2> HIDE DEF d
  <2> QED
    BY <1>0, <2>1, <2>2, <2>3, <2>4, AnsweredKeepsInv
<1>6. CASE SettingsRestart
  <2>1. puts' = [r \in PutRequests |-> Idle] /\ UNCHANGED <<runtime, discovery>>
    BY <1>6 DEF SettingsRestart
  <2>2. CASE \E r \in PutRequests : puts[r] # Idle
    <3>1. alone' = [alone EXCEPT !.who = Absent, !.done = FALSE]
      BY <1>6, <2>2 DEF SettingsRestart
    <3>2. alone'.who = Absent /\ alone'.done = FALSE /\ SettingsTypeOK'
      BY <1>0, <2>1, <3>1 DEF SettingsTypeOK
    <3> QED
      BY <3>2, SettingsConstants DEF SettingsInv, RunsAlone, AloneHeals
  <2>3. CASE ~\E r \in PutRequests : puts[r] # Idle
    <3>1. alone' = alone /\ puts' = puts
      BY <1>0, <1>6, <2>1, <2>3 DEF SettingsRestart
    <3> QED
      BY <2>1, <3>1 DEF SettingsInv, SettingsTypeOK, RunsAlone, Halfway, PartsAsBefore, AloneHeals,
         Used, Shown, IsEmpty
  <2> QED
    BY <2>2, <2>3
<1>7. CASE UNCHANGED svars
  BY <1>7 DEF svars, SettingsInv, SettingsTypeOK, RunsAlone, Halfway, PartsAsBefore, AloneHeals,
     Used, Shown, IsEmpty
<1> QED
  BY <1>1, <1>2, <1>3, <1>4, <1>5, <1>6, <1>7 DEF SNext

(* Whatever overlapping requests, failed writes and restarts left behind, a
   request that runs by itself leaves the two rows in agreement with what it
   asked for, for any number of requests and any sections (updateRuntimeConfig,
   updateDiscoveryConfig, effectiveRuntimeConfig). *)
THEOREM AloneAlwaysHeals == SettingsSpec => []AloneHeals
<1>1. SInit => SettingsInv
  BY SettingsConstants DEF SInit, SettingsInv, SettingsTypeOK, RunsAlone, AloneHeals, Docs
<1>2. SettingsInv /\ [SNext]_svars => SettingsInv'
  BY SettingsStep
<1>3. SettingsInv => AloneHeals
  BY DEF SettingsInv
<1> QED
  BY <1>1, <1>2, <1>3, PTL DEF SettingsSpec
=============================================================================
