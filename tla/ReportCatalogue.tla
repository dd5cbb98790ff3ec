--------------------------- MODULE ReportCatalogue ---------------------------
(***************************************************************************)
(* Reports as files and as rows of the table reports: a request writes the *)
(* file, then the row; a cleanup reads the rows that are too old, removes  *)
(* their files one by one, then deletes the rows.  Each step may fail, and *)
(* the process may end between any two.  Time is a number of days.         *)
(***************************************************************************)
EXTENDS Integers, FiniteSets

CONSTANTS
    Ids,         \* the reports that are asked for; each has a file name of its own
    Cleaners,    \* cleanup requests
    Retentions,  \* values of reports.retention_days
    MaxDay       \* bound of the clock

ASSUME CatalogueConstants == Retentions \subseteq Nat /\ MaxDay \in Nat

VARIABLES
    files,     \* the files in the directory
    listed,    \* the rows
    created,   \* when a report got its time of creation
    making,    \* how far the request for a report is
    cleaning,  \* the cutoff of a cleanup and the files it has yet to remove
    day,
    oldest     \* the latest cutoff of any cleanup so far

cvars == <<files, listed, created, making, cleaning, day, oldest>>

NoCleanup == [cutoff |-> 0, left |-> {}, on |-> FALSE]

-----------------------------------------------------------------------------
(* generateReport, after the report is set: reportgen.Write, whose file may be
   left behind incomplete, and SaveReport. *)

FileWritten(r) ==
    /\ making[r] = "unasked"
    /\ files' = files \cup {r} /\ making' = [making EXCEPT ![r] = "written"]
    /\ created' = [created EXCEPT ![r] = day]
    /\ UNCHANGED <<listed, cleaning, day, oldest>>

FileFailed(r) ==
    /\ making[r] = "unasked"
    /\ files' \in {files, files \cup {r}} /\ making' = [making EXCEPT ![r] = "failed"]
    /\ UNCHANGED <<listed, created, cleaning, day, oldest>>

RowSavedAnyway(r) ==
    /\ making[r] \in {"written", "failed"}
    /\ listed' = listed \cup {r} /\ making' = [making EXCEPT ![r] = "answered"]
    /\ UNCHANGED <<files, created, cleaning, day, oldest>>

RowSaved(r) ==
    /\ making[r] = "written"
    /\ listed' = listed \cup {r} /\ making' = [making EXCEPT ![r] = "answered"]
    /\ UNCHANGED <<files, created, cleaning, day, oldest>>

RowFailed(r) ==
    /\ making[r] = "written"
    /\ making' = [making EXCEPT ![r] = "failed"]
    /\ UNCHANGED <<files, listed, created, cleaning, day, oldest>>

-----------------------------------------------------------------------------
(* cleanupReports, DeleteReportsBefore.  A retention of 0 keeps everything. *)

Expired(cutoff) == {r \in listed : created[r] < cutoff}

CleanupBegun(c) ==
    \E n \in Retentions \ {0} :
       /\ ~cleaning[c].on /\ n <= day
       /\ cleaning' = [cleaning EXCEPT ![c] = [cutoff |-> day - n, left |-> Expired(day - n), on |-> TRUE]]
       /\ oldest' = IF day - n > oldest THEN day - n ELSE oldest
       /\ UNCHANGED <<files, listed, created, making, day>>

(* A file that cannot be removed stays. *)
FileRemoved(c) ==
    \E r \in cleaning[c].left :
       /\ files' \in {files, files \ {r}}
       /\ cleaning' = [cleaning EXCEPT ![c].left = @ \ {r}]
       /\ UNCHANGED <<listed, created, making, day, oldest>>

RowsDeleted(c) ==
    /\ cleaning[c].on /\ cleaning[c].left = {}
    /\ listed' \in {listed, listed \ Expired(cleaning[c].cutoff)}
    /\ cleaning' = [cleaning EXCEPT ![c] = NoCleanup]
    /\ UNCHANGED <<files, created, making, day, oldest>>

-----------------------------------------------------------------------------
DayPasses ==
    /\ day < MaxDay /\ day' = day + 1
    /\ UNCHANGED <<files, listed, created, making, cleaning, oldest>>

(* The requests are gone, files and rows remain. *)
CatalogueRestart ==
    /\ making' = [r \in Ids |-> IF making[r] = "written" THEN "failed" ELSE making[r]]
    /\ cleaning' = [c \in Cleaners |-> NoCleanup]
    /\ UNCHANGED <<files, listed, created, day, oldest>>

CatInit ==
    /\ files = {} /\ listed = {} /\ created = [r \in Ids |-> 0]
    /\ making = [r \in Ids |-> "unasked"] /\ cleaning = [c \in Cleaners |-> NoCleanup]
    /\ day = 0 /\ oldest = 0

CatNext ==
    \/ \E r \in Ids : FileWritten(r) \/ FileFailed(r) \/ RowSaved(r) \/ RowFailed(r)
    \/ \E c \in Cleaners : CleanupBegun(c) \/ FileRemoved(c) \/ RowsDeleted(c)
    \/ DayPasses \/ CatalogueRestart

CatSpec == CatInit /\ [][CatNext]_cvars

-----------------------------------------------------------------------------
(* A report that was promised (201 Created) is listed and its file can be sent
   as long as no cleanup had a cutoff later than its creation; and whatever else
   fails or is cut short, a row has its file unless such a cleanup was there:
   the list never offers a report that was not made. *)
ServedUntilCutoff ==
    /\ \A r \in Ids : making[r] = "answered" /\ created[r] >= oldest => r \in listed
    /\ \A r \in listed : created[r] >= oldest => r \in files
=============================================================================
