------------------------------ MODULE CSolver -------------------------------
(***************************************************************************)
(* csolver.solve as hunt_once runs it: the supervising main thread, one    *)
(* keccak_miner process per lane, a reader thread per lane, and the        *)
(* prevwork_watcher thread of every hunt, which may outlive its hunt.      *)
(* Hunts follow each other; what a hunt left behind (a watcher asleep, a   *)
(* reader not scheduled yet, lanes of a failed start) runs on meanwhile.   *)
(***************************************************************************)
EXTENDS Naturals, FiniteSets

CONSTANTS
    NLanes,         \* ncores
    MaxHunts,       \* bound on the hunts of a run
    MaxMints        \* bound on the mints of others

ASSUME SolverAssumption ==
    NLanes \in Nat \ {0} /\ MaxHunts \in Nat /\ MaxMints \in Nat

Lanes == 1..NLanes
Hunts == 1..MaxHunts

VARIABLES
    prevWork,   \* the chain's prevWork, as a count of mints
    hunt,       \* the current or latest hunt
    prev0,      \* per hunt: the prevWork of its snapshot
    main,       \* where the main thread is
    why,        \* what made the supervising loop break
    clock,      \* the time since t0: "early" (before budget - 1), "last", "past"
    answer,     \* what solve returned: the nonce, and whether dt < budget - 1
    outcome,    \* what hunt_once makes of that answer
    stop,       \* per hunt: its stop_event
    watcher,    \* per hunt: where its prevwork_watcher thread is
    lane,       \* per hunt and lane: the keccak_miner process
    pipe,       \* per hunt and lane: a FOUND line not read yet
    reader,     \* per hunt and lane: the reader thread
    found,      \* per hunt: found_nonce, as the hunt that found it; 0 for None
    failed      \* history: the hunts whose start failed half way

mainVars == <<hunt, prev0, main, why, clock, answer, outcome>>
laneVars == <<lane, pipe, reader, found>>
vars == <<prevWork, mainVars, stop, watcher, laneVars, failed>>

Loop    == {"found?", "stop?", "time?", "exited?"}
Solving == Loop \cup {"spawn", "read", "reap", "return"}

\* Fault: one stop event for all hunts.
SharedEvent(h) == 1

\* hunt_once creates a stop event and hands it to its watcher and to solve.
EventOf(h) == h

\* Fault: one found_nonce for all calls of solve.
SharedNonce(h) == hunt

\* The found_nonce that the readers of a call of solve close over.
NonceOf(h) == h

Nothing  == [how |-> "nothing", hunt |-> 0]
NoAnswer == [nonce |-> 0, early |-> FALSE]

Init ==
    /\ prevWork = 0 /\ hunt = 0
    /\ prev0 = [h \in Hunts |-> 0]
    /\ main = "idle" /\ why = "none"
    /\ clock = "early"
    /\ answer = NoAnswer /\ outcome = Nothing
    /\ stop = [h \in Hunts |-> FALSE]
    /\ watcher = [h \in Hunts |-> "none"]
    /\ lane = [h \in Hunts |-> [i \in Lanes |-> "none"]]
    /\ pipe = [h \in Hunts |-> [i \in Lanes |-> "empty"]]
    /\ reader = [h \in Hunts |-> [i \in Lanes |-> "none"]]
    /\ found = [h \in Hunts |-> 0]
    /\ failed = {}

Mint ==
    /\ prevWork < MaxMints
    /\ prevWork' = prevWork + 1
    /\ UNCHANGED <<mainVars, stop, watcher, laneVars, failed>>

-----------------------------------------------------------------------------
(* The main thread.                                                        *)

Goto(from, to) == main = from /\ main' = to

\* What solve and hunt_once kept in their frames is gone when hunt_once is left.
Locals == <<why, clock, answer>>
Forget == why' = "none" /\ clock' = "early" /\ answer' = NoAnswer

\* hunt_once: snapshot, new stop event, watcher thread, call of solve.
Hunt ==
    /\ Goto("idle", "spawn")
    /\ hunt < MaxHunts
    /\ hunt' = hunt + 1
    /\ prev0' = [prev0 EXCEPT ![hunt'] = prevWork]
    /\ watcher' = [watcher EXCEPT ![hunt'] = "check"]
    /\ outcome' = Nothing
    /\ UNCHANGED <<prevWork, Locals, stop, laneVars, failed>>

Spawn(i) ==
    /\ Goto("spawn", IF i = NLanes THEN "read" ELSE "spawn")
    /\ lane[hunt][i] = "none"
    /\ \A j \in Lanes : j < i => lane[hunt][j] # "none"
    /\ lane' = [lane EXCEPT ![hunt][i] = "run"]
    /\ UNCHANGED <<prevWork, hunt, prev0, Locals, outcome, stop, watcher, pipe,
                   reader, found, failed>>

\* An exception leaves solve while it starts: nobody terminates the lanes already
\* started and hunt_once does not get to stop_event.set().
StartFailed ==
    /\ outcome' = [how |-> "error", hunt |-> 0]
    /\ failed' = failed \cup {hunt}
    /\ Forget
    /\ UNCHANGED <<prevWork, hunt, prev0, stop, watcher, lane, pipe, found>>

\* Popen raises, or the binary is missing.
SpawnFails == Goto("spawn", "idle") /\ StartFailed /\ UNCHANGED reader

\* The two threads of every lane are started.
StartReaders ==
    /\ Goto("read", "found?")
    /\ reader' = [reader EXCEPT ![hunt] = [i \in Lanes |-> "on"]]
    /\ UNCHANGED <<prevWork, hunt, prev0, Locals, outcome, stop, watcher,
                   lane, pipe, found, failed>>

\* A thread does not start: the readers before it run, the last lane's too if
\* it was that lane's err_reader.
StartReadersFails ==
    /\ Goto("read", "idle")
    /\ \E k \in 0..NLanes :
          reader' = [reader EXCEPT ![hunt] = [i \in Lanes |-> IF i <= k THEN "on" ELSE "none"]]
    /\ StartFailed

Exited(h, i) == lane[h][i] = "exit"

\* The supervising loop: its four tests, one after the other.
Test(at, holds, reason, otherwise) ==
    /\ main = at
    /\ \/ holds /\ main' = "reap" /\ why' = reason
       \/ ~holds /\ main' = otherwise /\ UNCHANGED why
    /\ UNCHANGED <<prevWork, hunt, prev0, clock, answer, outcome, stop, watcher,
                   laneVars, failed>>

\* Fault: the time limit is not tested.
SuperviseUntimed ==
    \/ Test("found?", found[hunt] # 0, "found", "stop?")
    \/ Test("stop?", stop[EventOf(hunt)], "stop", "exited?")
    \/ Test("exited?", \A i \in Lanes : Exited(hunt, i), "exited", "found?")

Supervise ==
    \/ Test("found?", found[hunt] # 0, "found", "stop?")
    \/ Test("stop?", stop[EventOf(hunt)], "stop", "time?")
    \/ Test("time?", clock = "past", "time", "exited?")
    \/ Test("exited?", \A i \in Lanes : Exited(hunt, i), "exited", "found?")

\* Fault: the lanes are left running.
NoTerminate ==
    /\ Goto("reap", "return")
    /\ UNCHANGED <<prevWork, hunt, prev0, Locals, outcome, stop, watcher,
                   laneVars, failed>>

\* terminate the lanes still running and wait for (or kill) every one of them.
Reap ==
    /\ Goto("reap", "return")
    /\ lane' = [lane EXCEPT ![hunt] = [i \in Lanes |-> "exit"]]
    /\ UNCHANGED <<prevWork, hunt, prev0, Locals, outcome, stop, watcher,
                   pipe, reader, found, failed>>

\* (found_nonce, hashes, dt): found_nonce is read now, without joining the
\* readers, and the caller learns the time but not why the loop broke.
Return ==
    /\ Goto("return", "over")
    /\ answer' = [nonce |-> found[hunt], early |-> clock = "early"]
    /\ UNCHANGED <<prevWork, hunt, prev0, why, clock, outcome, stop, watcher, laneVars,
                   failed>>

\* The hashes are summed over rate_seen before that, while an err_reader may put
\* its lane's first RATE line in: "dictionary changed size during iteration"
\* leaves solve, and hunt_once before stop_event.set().
SumRaces ==
    /\ Goto("return", "idle")
    /\ outcome' = [how |-> "error", hunt |-> 0]
    /\ Forget
    /\ UNCHANGED <<prevWork, hunt, prev0, stop, watcher, laneVars, failed>>

\* Fault: what comes of a search is the reason its loop broke for.
TakenForReason(a) == [how |-> why, hunt |-> a.nonce]

\* What hunt_once takes an answer for: of a search without a nonce it knows only
\* how long it took, and says "prevWork changed (someone minted)" when the
\* budget was not used up, "budget elapsed" otherwise.
TakenFor(a) ==
    IF a.nonce # 0 THEN [how |-> "found", hunt |-> a.nonce]
    ELSE [how |-> IF a.early THEN "changed" ELSE "elapsed", hunt |-> 0]

\* Fault: the stop event is not set after solve.
ForgetStop ==
    /\ Goto("over", "idle")
    /\ outcome' = TakenFor(answer)
    /\ Forget
    /\ UNCHANGED <<prevWork, hunt, prev0, stop, watcher, laneVars, failed>>

\* stop_event.set() after solve, which sends the watcher home; then the answer.
SetStop ==
    /\ Goto("over", "idle")
    /\ stop' = [stop EXCEPT ![EventOf(hunt)] = TRUE]
    /\ outcome' = TakenFor(answer)
    /\ Forget
    /\ UNCHANGED <<prevWork, hunt, prev0, watcher, laneVars, failed>>

MainStep ==
    \/ Hunt \/ (\E i \in Lanes : Spawn(i)) \/ SpawnFails
    \/ StartReaders \/ StartReadersFails \/ Supervise \/ Reap \/ Return \/ SumRaces \/ SetStop

\* The budget of a search runs out, its last second first.  dt is read after the
\* lanes were reaped.
Expire ==
    /\ main \in Loop \cup {"read", "reap"}
    /\ \/ clock = "early" /\ clock' = "last"
       \/ clock = "last"  /\ clock' = "past"
    /\ UNCHANGED <<prevWork, hunt, prev0, main, why, answer, outcome, stop, watcher,
                   laneVars, failed>>

-----------------------------------------------------------------------------
(* prevwork_watcher: while not set: read, compare, set or sleep.           *)

WatcherGoes(h, from, to) ==
    /\ watcher[h] = from
    /\ watcher' = [watcher EXCEPT ![h] = to]

WatchCheck(h) ==
    /\ \/ stop[EventOf(h)] /\ WatcherGoes(h, "check", "gone")
       \/ ~stop[EventOf(h)] /\ WatcherGoes(h, "check", "poll")
    /\ UNCHANGED <<prevWork, mainVars, stop, laneVars, failed>>

\* Fault: the watcher compares with the snapshot of the latest hunt.
PollForLatest(h) ==
    /\ \/ WatcherGoes(h, "poll", "set") /\ prevWork # prev0[hunt]
       \/ WatcherGoes(h, "poll", "check") /\ prevWork = prev0[hunt]
    /\ UNCHANGED <<prevWork, mainVars, stop, laneVars, failed>>

WatchPoll(h) ==
    /\ \/ prevWork # prev0[h] /\ WatcherGoes(h, "poll", "set")
       \/ prevWork = prev0[h] /\ WatcherGoes(h, "poll", "check")
    /\ UNCHANGED <<prevWork, mainVars, stop, laneVars, failed>>

\* Fault: an exception ends the watcher.
WatchDies(h) ==
    /\ WatcherGoes(h, "poll", "gone")
    /\ UNCHANGED <<prevWork, mainVars, stop, laneVars, failed>>

\* The RPC failed: the exception is swallowed.
WatchFails(h) ==
    /\ WatcherGoes(h, "poll", "check")
    /\ UNCHANGED <<prevWork, mainVars, stop, laneVars, failed>>

WatchSet(h) ==
    /\ WatcherGoes(h, "set", "gone")
    /\ stop' = [stop EXCEPT ![EventOf(h)] = TRUE]
    /\ UNCHANGED <<prevWork, mainVars, laneVars, failed>>

WatchStep(h) == WatchCheck(h) \/ WatchPoll(h) \/ WatchFails(h) \/ WatchSet(h)

-----------------------------------------------------------------------------
(* The lanes and their readers.                                            *)

\* FOUND is printed and flushed, and the process returns 0.
LaneFinds(h, i) ==
    /\ lane[h][i] = "run"
    /\ lane' = [lane EXCEPT ![h][i] = "exit"]
    /\ pipe' = [pipe EXCEPT ![h][i] = "FOUND"]
    /\ UNCHANGED <<prevWork, mainVars, stop, watcher, reader, found, failed>>

\* NONE at the time limit, or the process died.
LaneEnds(h, i) ==
    /\ lane[h][i] = "run"
    /\ lane' = [lane EXCEPT ![h][i] = "exit"]
    /\ UNCHANGED <<prevWork, mainVars, stop, watcher, pipe, reader, found, failed>>

ReaderTakes(h, i) ==
    /\ reader[h][i] = "on" /\ pipe[h][i] = "FOUND"
    /\ reader' = [reader EXCEPT ![h][i] = "done"]
    /\ pipe' = [pipe EXCEPT ![h][i] = "empty"]
    /\ found' = [found EXCEPT ![NonceOf(h)] = h]
    /\ UNCHANGED <<prevWork, mainVars, stop, watcher, lane, failed>>

\* End of file: the process is gone and printed no FOUND.
ReaderEnds(h, i) ==
    /\ reader[h][i] = "on" /\ pipe[h][i] = "empty" /\ Exited(h, i)
    /\ reader' = [reader EXCEPT ![h][i] = "done"]
    /\ UNCHANGED <<prevWork, mainVars, stop, watcher, lane, pipe, found, failed>>

LaneStep(h, i)   == LaneFinds(h, i) \/ LaneEnds(h, i)
ReaderStep(h, i) == ReaderTakes(h, i) \/ ReaderEnds(h, i)

Finished == main = "idle" /\ hunt = MaxHunts /\ UNCHANGED vars

Next ==
    \/ Mint \/ MainStep \/ Expire \/ Finished
    \/ \E h \in Hunts : WatchStep(h)
    \/ \E h \in Hunts, i \in Lanes : LaneStep(h, i) \/ ReaderStep(h, i)

Spec == Init /\ [][Next]_vars

\* Threads are scheduled and a poll of prevWork that is repeated for ever
\* succeeds some time.  Nothing is assumed of the lanes or of the budget.
FairSpec ==
    /\ Spec
    /\ WF_vars(MainStep)
    /\ \A h \in Hunts : WF_vars(WatchStep(h)) /\ SF_vars(WatchPoll(h))
    /\ \A h \in Hunts, i \in Lanes : WF_vars(ReaderStep(h, i))

-----------------------------------------------------------------------------
(* Properties.                                                             *)

\* Type invariant of the solver and of the threads around it.
TypeOK ==
    /\ prevWork \in Nat /\ hunt \in 0..MaxHunts
    /\ prev0 \in [Hunts -> Nat]
    /\ main \in Solving \cup {"idle", "over"}
    /\ main # "idle" => hunt \in Hunts
    /\ why \in {"none", "found", "stop", "time", "exited"}
    /\ clock \in {"early", "last", "past"}
    /\ answer \in [nonce : 0..MaxHunts, early : BOOLEAN]
    /\ outcome \in [how : {"nothing", "found", "changed", "elapsed", "error"},
                    hunt : 0..MaxHunts]
    /\ stop \in [Hunts -> BOOLEAN]
    /\ watcher \in [Hunts -> {"none", "check", "poll", "set", "gone"}]
    /\ lane \in [Hunts -> [Lanes -> {"none", "run", "exit"}]]
    /\ pipe \in [Hunts -> [Lanes -> {"empty", "FOUND"}]]
    /\ reader \in [Hunts -> [Lanes -> {"none", "on", "done"}]]
    /\ found \in [Hunts -> 0..MaxHunts]
    /\ failed \subseteq Hunts

\* A search is told to stop only when prevWork has left the one it is for: no
\* watcher of an earlier hunt, late as it may be, aborts the current search.
NoSpuriousAbort ==
    main \in Solving /\ stop[EventOf(hunt)] => prevWork # prev0[hunt]

\* Lanes of an earlier hunt still hash beside the current one only when that
\* hunt's start failed half way.
OrphansOnlyAfterFailedStart ==
    \A h \in Hunts, i \in Lanes :
       lane[h][i] = "run" /\ (h # hunt \/ main \in {"idle", "over"}) =>
          h \in failed

\* csolver.py, its watchers and the reading hunt_once gives its answer implement
\* the search Hunter.tla relies on: the nonce is this very search's, and where
\* hunt_once says "prevWork changed" it did, unless every lane had exited.
Search == INSTANCE PowSearch WITH
    prev0     <- IF hunt = 0 THEN 0 ELSE prev0[hunt],
    phase     <- IF main \in Solving \cup {"over"} THEN "searching" ELSE "idle",
    due       <- clock # "early",
    exhausted <- why = "exited"

ImplementsSearch == Search!Spec

\* A hunt whose search is over sends its watcher home: no thread goes on
\* polling the node for a hunt that returned.
WatchersGoHome ==
    \A h \in Hunts : (main = "over" /\ hunt = h) ~> (watcher[h] = "gone")

\* A watcher that an exception of solve left behind, whose event nobody sets any
\* more, polls the node until the next mint and no longer.
LeftWatchersEnd ==
    \A h \in Hunts :
       (watcher[h] \in {"check", "poll"} /\ prevWork # prev0[h]) ~> (watcher[h] = "gone")

\* "it sets stop_event so the solver aborts": a search that prevWork has made
\* worthless ends without waiting for its budget or its lanes.
StaleSearchAborts ==
    (main \in Loop /\ prevWork # prev0[hunt]) ~> (main \notin Loop)

\* Once the budget has passed the search ends, even if no lane ever exits and
\* no poll of prevWork ever shows a change.
ExpiredSearchEnds ==
    (main \in Loop /\ clock = "past") ~> (main \notin Loop)

\* "all lanes exited (NONE)": when the loop breaks because every lane exited,
\* solve does not return None while a lane's FOUND waits to be read.
ExitedMeansNone ==
    [][Return /\ why = "exited" /\ answer'.nonce = 0 =>
          \A i \in Lanes : pipe[hunt][i] = "empty"]_vars
=============================================================================
