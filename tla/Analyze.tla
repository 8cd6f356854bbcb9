------------------------------- MODULE Analyze -------------------------------
(***************************************************************************)
(* analyze.py, run at any time beside the watcher (or after it): what its  *)
(* report makes of the CSV that the watcher's lives have left so far.      *)
(* Averages, the distribution and the hours are only printed.              *)
(***************************************************************************)
EXTENDS Watcher, FiniteSets, Sequences

CONSTANT MaxRows    \* bound on the rows of the CSV

VARIABLES
    rows,       \* the rows of watcher_data.csv, oldest first
    report,     \* what the latest run of analyze.py printed
    headerLost  \* the watcher died between creating the CSV and its header

analyzeVars == <<vars, rows, report, headerLost>>

NoReport == [samples |-> 0, open |-> 0, approaching |-> 0, busy |-> 0, best |-> 0,
             says |-> "no data yet"]

AnalyzeInit == Init /\ rows = <<>> /\ report = NoReport /\ headerLost = FALSE

\* The watcher's row has the level and the bits of its poll.
RowOf(bits) == [level |-> level, bits |-> bits]

\* Fault: the CSV is opened to be written, not to be appended to.
RewriteFile(bits) == <<RowOf(bits)>>

AppendRow(bits) == Append(rows, RowOf(bits))

WatcherActs ==
    /\ Next
    /\ IF Goto("row", "open state")
       THEN /\ Len(rows) < MaxRows
            /\ \E bits \in Difficulties :
                  LevelFor(bits) = level /\ rows' = AppendRow(bits)
       ELSE UNCHANGED rows
    /\ headerLost' = (headerLost \/ (pc = "header" /\ pc' = "off"))
    /\ UNCHANGED report

\* csv.DictReader takes the first line for the names of the columns.  In a file
\* without a header that is a row, no later row has an "epoch_s", and the except
\* passes over all of them.
Readable == IF csv = "header" THEN rows ELSE <<>>

CountOf(l) == Cardinality({i \in DOMAIN Readable : Readable[i].level = l})

BestBits ==
    LET bits == {Readable[i].bits : i \in DOMAIN Readable}
    IN  CHOOSE b \in bits : \A c \in bits : b <= c

\* Fault: analyze.py's own thresholds are off by one from the watcher's.
StricterVerdict ==
    IF BestBits < BitsOpen THEN "capturable"
    ELSE IF BestBits < BitsApproaching THEN "close" ELSE "busy"

\* The last lines of the report, from the bits and analyze.py's own copy of the
\* watcher's thresholds.
Verdict ==
    IF BestBits <= BitsOpen THEN "capturable"
    ELSE IF BestBits <= BitsApproaching THEN "close" ELSE "busy"

Analyze ==
    /\ report' =
         IF csv = "absent" THEN NoReport
         ELSE IF Readable = <<>> THEN [NoReport EXCEPT !.says = "no rows yet"]
         ELSE [samples |-> Len(Readable), open |-> CountOf("OPEN"),
               approaching |-> CountOf("APPROACHING"),
               busy |-> Len(Readable) - CountOf("OPEN") - CountOf("APPROACHING"),
               best |-> BestBits, says |-> Verdict]
    /\ UNCHANGED <<vars, rows, headerLost>>

AnalyzeNext == WatcherActs \/ Analyze

-----------------------------------------------------------------------------
(* Properties.                                                             *)

\* Type invariant of the CSV's rows and of the report.
AnalyzeTypeOK ==
    /\ rows \in Seq([level : Levels, bits : Difficulties])
    /\ Len(rows) <= MaxRows
    /\ report.says \in {"no data yet", "no rows yet", "capturable", "close", "busy"}
    /\ report.samples \in 0..MaxRows
    /\ headerLost \in BOOLEAN
    /\ {report.open, report.approaching, report.busy} \subseteq 0..report.samples

\* A report never loses windows: what an earlier report showed as OPEN is in
\* every later one, through all crashes and restarts of the watcher.
ReportsOnlyGrow ==
    [][report'.samples >= report.samples /\ report'.open >= report.open]_report

\* "whether we ever hit an actionable level": a window the watcher recorded as
\* OPEN is counted in every later report and decides its last word, which
\* analyze.py derives from the bits with thresholds of its own; unless the
\* watcher died before the CSV had its header.
OpenRowIsReported ==
    [][Analyze /\ ~headerLost /\ (\E i \in DOMAIN rows : rows[i].level = "OPEN") =>
          report'.open > 0 /\ report'.says = "capturable"]_analyzeVars
=============================================================================
