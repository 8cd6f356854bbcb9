------------------------------- MODULE Watcher -------------------------------
(***************************************************************************)
(* watcher.py under run_watcher.sh: polls, log, CSV, state file, and the   *)
(* memory of the last level; reads and writes that fail, the reconnect     *)
(* after three errors, and a process that can be killed between any two    *)
(* steps and is started again.  Trend, gap and rates are only printed.     *)
(***************************************************************************)
EXTENDS Integers

CONSTANTS
    BitsOpen,           \* BITS_OPEN
    BitsApproaching,    \* BITS_APPROACHING
    Difficulties,       \* difficulties in bits the chain may be at
    Rpcs,               \* RPC_URLS: the nodes, numbered from 1 as they are tried
    MaxTotal,           \* bound on the mints
    MaxTroubles         \* bound on the kills, the nodes going down or up and
                        \* the calls that fail though they could have worked

ASSUME WatcherAssumption ==
    /\ {BitsOpen, BitsApproaching, MaxTotal, MaxTroubles} \subseteq Nat
    /\ Difficulties \subseteq Nat /\ Rpcs \subseteq Nat

Levels == {"OPEN", "APPROACHING", "BUSY"}

VARIABLES
    up,         \* per RPC node: whether it answers
    total,      \* mints so far
    troubles,   \* troubles so far
    pc,         \* where the process is; "off" while run_watcher.sh sleeps
    conn,       \* the node it is connected to
    errors,     \* consecutive_errors
    level,      \* the level of this poll
    lastLevel,  \* last_level
    lastTotal,  \* last_total; -1 for None
    first,      \* the first total this process read
    regressed,  \* this process read a total below one it had read before
    counted,    \* mint events this process has noted, up to MaxTotal + 1
    csv,        \* "absent", "no header" or "header"
    lastRow,    \* the level of the last row in the CSV
    shouted,    \* an OPEN announcement is in the log since the last other row
    state,      \* watcher_state.json: a level, "absent" or "torn"
    missed      \* a poll failed after its row, which was not OPEN; no
                \* window was announced and no such poll went well since

worldVars  == <<up, total>>
memoryVars == <<level, lastLevel, lastTotal, first, counted, regressed>>
fileVars   == <<csv, lastRow, shouted, state, missed>>
vars == <<worldVars, troubles, pc, conn, errors, memoryVars, fileVars>>

LevelFor(bits) ==
    IF bits <= BitsOpen THEN "OPEN"
    ELSE IF bits <= BitsApproaching THEN "APPROACHING" ELSE "BUSY"

Init ==
    /\ up \in [Rpcs -> BOOLEAN]
    /\ total = 0 /\ troubles = 0
    /\ pc = "connect" /\ conn = 0 /\ errors = 0
    /\ level = "none" /\ lastLevel = "none"
    /\ lastTotal = -1 /\ first = -1 /\ counted = 0 /\ regressed = FALSE
    /\ csv = "absent" /\ lastRow = "none" /\ shouted = FALSE
    /\ state = "absent" /\ missed = FALSE

Trouble == troubles < MaxTroubles /\ troubles' = troubles + 1

\* A call fails, for the reason given or for another.
FailsFor(reason) == (reason /\ UNCHANGED troubles) \/ Trouble

NobodyAnswers == \A r \in Rpcs : ~up[r]

Goto(from, to) == pc = from /\ pc' = to

\* The process is gone, and its memory with it.
Die ==
    /\ pc' = "off"
    /\ conn' = 0 /\ errors' = 0
    /\ level' = "none" /\ lastLevel' = "none"
    /\ lastTotal' = -1 /\ first' = -1 /\ counted' = 0 /\ regressed' = FALSE

-----------------------------------------------------------------------------
(* Start.                                                                  *)

\* chain.connect: the first node that answers; one before it that is up may
\* have failed to, this time.
Connected == \E r \in Rpcs : up[r] /\ conn' = r

Start ==
    /\ Goto("connect", "csv")
    /\ Connected
    /\ UNCHANGED <<worldVars, troubles, errors, memoryVars, fileVars>>

\* No node answers, the CSV cannot be opened or its header not written:
\* main() raises.
StartFails ==
    /\ pc \in {"connect", "csv", "header"}
    /\ FailsFor(pc = "connect" /\ NobodyAnswers)
    /\ Die
    /\ UNCHANGED <<worldVars, fileVars>>

\* The CSV exists, ...
OldCsv ==
    /\ csv # "absent"
    /\ Goto("csv", "read")
    /\ UNCHANGED <<worldVars, troubles, conn, errors, memoryVars, fileVars>>

\* ... or is created by open() and, at the end of the with, has its header.
NewCsv ==
    /\ csv = "absent"
    /\ Goto("csv", "header")
    /\ csv' = "no header"
    /\ UNCHANGED <<worldVars, troubles, conn, errors, memoryVars, lastRow, shouted,
                   state, missed>>

Header ==
    /\ Goto("header", "read")
    /\ csv' = "header"
    /\ UNCHANGED <<worldVars, troubles, conn, errors, memoryVars, lastRow, shouted,
                   state, missed>>

\* run_watcher.sh starts the watcher again.
Restart ==
    /\ Goto("off", "connect")
    /\ UNCHANGED <<worldVars, troubles, conn, errors, memoryVars, fileVars>>

-----------------------------------------------------------------------------
(* One poll.                                                               *)

\* Nodes behind the first may lag a mint behind.
Answers(r) == IF r = 1 THEN {total} ELSE {n \in {total - 1, total} : n >= 0}

\* Mints since the last poll; None is no mint.
NewMints(n) == IF lastTotal # -1 /\ n > lastTotal THEN n - lastTotal ELSE 0

Capped(n) == IF n > MaxTotal + 1 THEN MaxTotal + 1 ELSE n

\* Fault: the total of the poll is remembered only at its end.
ForgetTotal(n) == lastTotal' = (IF lastTotal = -1 THEN n ELSE lastTotal)

RememberTotal(n) == lastTotal' = n

\* read_batch, the count of new mints, the level.
Read ==
    /\ Goto("read", "log")
    /\ up[conn]
    /\ \E n \in Answers(conn), bits \in Difficulties :
          /\ regressed' = (regressed \/ n < lastTotal)
          /\ counted' = Capped(counted + NewMints(n))
          /\ RememberTotal(n)
          /\ first' = (IF first = -1 THEN n ELSE first)
          /\ level' = LevelFor(bits)
    /\ UNCHANGED <<worldVars, troubles, conn, errors, lastLevel, fileVars>>

\* The line announces a window that was not open at the last poll that went
\* well.
Opens == level = "OPEN" /\ lastLevel # "OPEN"

\* The line is printed, which run_watcher.sh takes into the log, ...
Log ==
    /\ Goto("log", "row")
    /\ shouted' = (shouted \/ Opens)
    /\ missed' = (missed /\ ~Opens)
    /\ UNCHANGED <<worldVars, troubles, conn, errors, memoryVars, csv, lastRow, state>>

\* ... appended to the log a second time, and the row to the CSV.
Row ==
    /\ Goto("row", "open state")
    /\ lastRow' = level
    /\ shouted' = (shouted /\ level = "OPEN")
    /\ UNCHANGED <<worldVars, troubles, conn, errors, memoryVars, csv, state, missed>>

\* open(STATE, "w") truncates, json.dump fills.
OpenState ==
    /\ Goto("open state", "state")
    /\ state' = "torn"
    /\ UNCHANGED <<worldVars, troubles, conn, errors, memoryVars, csv, lastRow,
                   shouted, missed>>

\* Fault: the level of the poll before.
WriteLastLevel == state' = lastLevel

WriteLevel == state' = level

\* The state file is there: last_level, consecutive_errors = 0.
State ==
    /\ Goto("state", "sleep")
    /\ WriteLevel
    /\ missed' = (missed /\ level = "OPEN")
    /\ lastLevel' = level
    /\ errors' = 0
    /\ UNCHANGED <<worldVars, troubles, conn, level, lastTotal, first, counted,
                   regressed, csv, lastRow, shouted>>

Polling == {"read", "log", "row", "open state", "state"}

\* The poll has written its row, which is not OPEN, but not last_level.
RowUnfinished == pc \in {"open state", "state"} /\ level # "OPEN"

\* consecutive_errors, which nothing tells apart from 3 on.
CountError ==
    /\ errors' = IF errors < 3 THEN errors + 1 ELSE 3
    /\ pc' = IF errors' = 3 THEN "reconnect" ELSE "sleep"

\* Fault: last_level = level stands behind the try, so a failed poll keeps it.
KeepsLevel ==
    /\ lastLevel' = level
    /\ UNCHANGED <<level, lastTotal, first, counted, regressed>>

FailedMemory == UNCHANGED memoryVars

\* An exception anywhere in the poll is counted, the third leads to a
\* reconnect.
Fails ==
    /\ pc \in Polling
    /\ FailsFor(pc = "read" /\ ~up[conn])
    /\ CountError
    /\ missed' = (missed \/ RowUnfinished)
    /\ FailedMemory
    /\ UNCHANGED <<worldVars, conn, csv, lastRow, shouted, state>>

\* Fault: the errors are forgotten and the old connection is kept.
KeepConnection ==
    /\ Goto("reconnect", "sleep")
    /\ errors' = 0
    /\ UNCHANGED <<worldVars, troubles, conn, memoryVars, fileVars>>

Reconnect ==
    /\ Goto("reconnect", "sleep")
    /\ Connected
    /\ errors' = 0
    /\ UNCHANGED <<worldVars, troubles, memoryVars, fileVars>>

\* No node answers; the count stays where it is and the next error tries again.
ReconnectFails ==
    /\ Goto("reconnect", "sleep")
    /\ FailsFor(NobodyAnswers)
    /\ UNCHANGED <<worldVars, conn, errors, memoryVars, fileVars>>

Sleep ==
    /\ Goto("sleep", "read")
    /\ UNCHANGED <<worldVars, troubles, conn, errors, memoryVars, fileVars>>

-----------------------------------------------------------------------------
(* The world.                                                              *)

Kill ==
    /\ pc # "off"
    /\ Trouble
    /\ Die
    /\ UNCHANGED <<worldVars, fileVars>>

Flip ==
    /\ Trouble
    /\ \E r \in Rpcs : up' = [up EXCEPT ![r] = ~@]
    /\ UNCHANGED <<total, pc, conn, errors, memoryVars, fileVars>>

Mint ==
    /\ total < MaxTotal
    /\ total' = total + 1
    /\ UNCHANGED <<up, troubles, pc, conn, errors, memoryVars, fileVars>>

WatcherStep ==
    \/ Start \/ StartFails \/ OldCsv \/ NewCsv \/ Header \/ Restart
    \/ Read \/ Log \/ Row \/ OpenState \/ State
    \/ Fails \/ Reconnect \/ ReconnectFails \/ Sleep

Next == WatcherStep \/ Kill \/ Flip \/ Mint

Spec == Init /\ [][Next]_vars

\* The watcher and the script that restarts it run on.
FairSpec == Spec /\ WF_vars(WatcherStep)

-----------------------------------------------------------------------------
(* Properties.                                                             *)

\* Type invariant of the watcher, its files and the nodes.
TypeOK ==
    /\ up \in [Rpcs -> BOOLEAN]
    /\ total \in 0..MaxTotal /\ troubles \in 0..MaxTroubles
    /\ pc \in {"off", "connect", "csv", "header", "sleep", "reconnect"} \cup Polling
    /\ conn \in Rpcs \cup {0}
    /\ errors \in 0..3
    /\ level \in Levels \cup {"none"} /\ lastLevel \in Levels \cup {"none"}
    /\ lastTotal \in Int /\ first \in Int /\ counted \in Nat
    /\ regressed \in BOOLEAN
    /\ csv \in {"absent", "no header", "header"}
    /\ lastRow \in Levels \cup {"none"}
    /\ shouted \in BOOLEAN /\ missed \in BOOLEAN
    /\ state \in Levels \cup {"absent", "torn"}

\* A window that the CSV records as OPEN was announced, by this process or by
\* one before it, since the last row that was not OPEN: no failed write, kill or
\* reconnect swallows the announcement, with one exception, a poll that failed
\* between a row that was not OPEN and watcher.py:160.
OpenWindowsAreAnnounced == lastRow = "OPEN" /\ ~missed => shouted

\* Failed polls and reconnects count no mint twice (watcher.py:99-102), unless
\* a node that lags behind another made the total go back.
MintsCountedOnce == ~regressed /\ first # -1 => counted <= total - first

\* What the state file says after a poll without an error is what the CSV says
\* and what the next poll compares with.
Recorded == pc = "sleep" /\ lastRow = level /\ state = level /\ lastLevel = level

\* The watcher goes on recording as long as some node answers, whichever one it
\* was connected to, whatever failed before, and whoever killed it.
KeepsRecording == <>[](\E r \in Rpcs : up[r]) => []<>Recorded

=============================================================================
