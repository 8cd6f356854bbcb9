------------------------------ MODULE MCMonitors ------------------------------
(***************************************************************************)
(* The programs that only look on, one of which is started: watcher.py     *)
(* with its files, watcher.py with analyze.py beside it, the statistics in *)
(* watcher.py's memory, or feasibility.py.                                 *)
(***************************************************************************)
EXTENDS Watcher

CONSTANTS
    RowDifficulties, MaxRows,           \* analyze.py
    MaxBurst, MintsPerPoll, Window,     \* the statistics
    HistLen, EventsLen, MaxLate, MaxTime,
    Lag,                                \* ... and feasibility.py
    Seconds, MaxMints

ASSUME MonitorsAssumption ==
    /\ RowDifficulties \subseteq Nat
    /\ {MaxRows, MintsPerPoll, Window, MaxLate, MaxTime} \subseteq Nat
    /\ {MaxBurst, HistLen, EventsLen} \subseteq Nat
    /\ {Seconds, Lag, MaxMints} \subseteq Nat
    /\ EventsLen >= MintsPerPoll * (Window + 1)     \* the queue holds a window's mints

VARIABLES
    monitor,                            \* which one was started
    rows, report, headerLost,
    now, burst, mints, hist, events, rate, trend, polled, late,
    start, times, stats

\* analyze.py needs no second node and no mints.
A == INSTANCE Analyze WITH
        Rpcs <- {1}, MaxTotal <- 0, MaxTroubles <- 2, Difficulties <- RowDifficulties
P == INSTANCE PollStats
F == INSTANCE Feasibility

Is(m) == monitor = m

analyzeOnly == <<rows, report, headerLost>>
statsOnly   == <<burst, mints, hist, events, rate, trend, polled, late>>
sampleOnly  == <<start, times, stats>>
watcherOnly == <<up, troubles, conn, errors, level, lastLevel, first, counted, fileVars>>

monitorVars == <<vars, monitor, analyzeOnly, now, statsOnly, sampleOnly>>

Unused ==
    /\ ~Is("analyze") => rows = <<>> /\ report = A!NoReport /\ headerLost = FALSE
    /\ ~Is("stats") => /\ burst = 0 /\ mints = <<>> /\ hist = <<>> /\ events = <<>>
                       /\ rate = P!NoRate /\ trend = "" /\ late = 0
                       /\ polled = [well |-> FALSE, first |-> -1]
    /\ ~Is("sample") => start = 0 /\ times = <<>> /\ stats = F!NoStats
    /\ monitor \in {"watcher", "analyze"} => now = 0
    /\ monitor \in {"stats", "sample"} =>
          /\ up = <<>> /\ troubles = 0 /\ conn = 0 /\ errors = 0
          /\ level = "none" /\ lastLevel = "none" /\ first = -1 /\ counted = 0
          /\ csv = "absent" /\ lastRow = "none" /\ shouted = FALSE
          /\ state = "absent" /\ missed = FALSE
    /\ Is("stats") => total = 0 /\ pc = "none"

MonitorInit ==
    /\ \/ monitor = "watcher" /\ Init
       \/ monitor = "analyze" /\ A!AnalyzeInit
       \/ monitor = "stats" /\ P!Init
       \/ monitor = "sample" /\ F!Init
    /\ Unused

MonitorNext ==
    /\ \/ Is("watcher") /\ Next /\ UNCHANGED <<analyzeOnly, now, statsOnly, sampleOnly>>
       \/ Is("analyze") /\ A!AnalyzeNext /\ UNCHANGED <<now, statsOnly, sampleOnly>>
       \/ /\ Is("stats") /\ P!Next
          /\ UNCHANGED <<total, pc, watcherOnly, analyzeOnly, sampleOnly>>
       \/ Is("sample") /\ F!Next /\ UNCHANGED <<watcherOnly, analyzeOnly, statsOnly>>
    /\ UNCHANGED monitor

WatcherRuns ==
    /\ Is("watcher") /\ WatcherStep
    /\ UNCHANGED <<monitor, analyzeOnly, now, statsOnly, sampleOnly>>

\* The watcher and the script that restarts it run on.
MonitorSpec == MonitorInit /\ [][MonitorNext]_monitorVars /\ WF_monitorVars(WatcherRuns)

-----------------------------------------------------------------------------
\* Type invariants of the program that runs.
MonitorTypeOK ==
    /\ Is("watcher") => TypeOK
    /\ Is("analyze") => A!AnalyzeTypeOK
    /\ Is("stats") => P!TypeOK
    /\ Is("sample") => F!TypeOK

\* Watcher's KeepsRecording, which analyze.py beside it does not bear on.
GoesOnRecording ==
    <>[](Is("watcher") /\ \E r \in Rpcs : up[r]) => []<>Recorded

\* A report of analyze.py never loses what an earlier one showed, ...
ReportsOnlyGrow == A!ReportsOnlyGrow

\* ... and a window recorded as OPEN is in every later one, unless the CSV has
\* no header.
OpenRowIsReported == A!OpenRowIsReported

\* Rate and trend say what the chain did while the watcher polled: how many
\* mints, over how long, and which way the burst went.
StatsFollowTheMints ==
    Is("stats") => P!RateCountsTheWindow /\ P!RateSpansItsMints /\ P!TrendNeedsCause

\* The sample of feasibility.py has every mint once, its quantiles are in order.
SampleIsWhole == Is("sample") => F!EachMintOnce /\ F!QuantilesInOrder
=============================================================================
