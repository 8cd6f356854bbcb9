--------------------------- MODULE CSolverProofs ----------------------------
(***************************************************************************)
(* csolver.solve and the watcher threads, for any number of lanes, hunts   *)
(* and mints: a search is never aborted for another one's sake, and the    *)
(* whole of it implements PowSearch.                                       *)
(***************************************************************************)
EXTENDS CSolver, TLAPS

\* The threads, events and lanes of hunts that have not begun are untouched; a
\* watcher about to set its event saw prevWork move; so did whatever set the
\* event of the current search; a nonce is kept with the search that found it.
SolverInv ==
    /\ \A h \in Hunts : h > hunt =>
          /\ ~stop[h] /\ watcher[h] = "none"
          /\ \A i \in Lanes : reader[h][i] = "none" /\ lane[h][i] = "none"
    /\ \A h \in Hunts : prev0[h] <= prevWork
    /\ \A h \in Hunts : watcher[h] = "set" => prevWork # prev0[h]
    /\ \A h \in Hunts : found[h] \in {0, h}
    /\ main \in Solving /\ stop[hunt] => prevWork # prev0[hunt]

LEMMA SolverTypeInit == Init => TypeOK
BY SolverAssumption DEF Init, TypeOK, Solving, Loop, Nothing, NoAnswer

\* Changing one entry of a table of hunts and lanes leaves a table.
LEMMA GridUpdate ==
    ASSUME NEW S, NEW f \in [Hunts -> [Lanes -> S]], NEW h \in Hunts, NEW i \in Lanes,
           NEW v \in S
    PROVE  [f EXCEPT ![h][i] = v] \in [Hunts -> [Lanes -> S]]
OBVIOUS

LEMMA SolverTypeStep ==
    ASSUME TypeOK, [Next]_vars
    PROVE  TypeOK'
<1> USE DEF Goto, Solving, Loop, mainVars, laneVars, Locals, Forget
<1>1. CASE Mint
  BY <1>1 DEF TypeOK, Mint
<1>2. CASE Hunt
  BY <1>2, SolverAssumption DEF TypeOK, Hunt, Nothing, NoAnswer, Hunts
<1>3. ASSUME NEW i \in Lanes, Spawn(i) PROVE TypeOK'
  <2>1. hunt \in Hunts
    BY <1>3 DEF TypeOK, Spawn
  <2>2. lane' \in [Hunts -> [Lanes -> {"none", "run", "exit"}]]
    BY <1>3, <2>1, GridUpdate DEF TypeOK, Spawn
  <2> QED
    BY <1>3, <2>2 DEF TypeOK, Spawn
<1>4. CASE SpawnFails \/ StartReadersFails
  <2>1. hunt \in Hunts /\ 0 \in 0..MaxHunts
    BY <1>4, SolverAssumption DEF TypeOK, SpawnFails, StartReadersFails
  <2>2. reader' \in [Hunts -> [Lanes -> {"none", "on", "done"}]]
    <3>1. \A k \in 0..NLanes :
             [i \in Lanes |-> IF i <= k THEN "on" ELSE "none"] \in [Lanes -> {"none", "on", "done"}]
      OBVIOUS
    <3>2. CASE SpawnFails
      BY <3>2 DEF TypeOK, SpawnFails
    <3>3. CASE StartReadersFails
      BY <2>1, <3>1, <3>3 DEF TypeOK, StartReadersFails
    <3> QED
      BY <1>4, <3>2, <3>3
  <2>3. StartFailed /\ main' = "idle" /\ NoAnswer \in [nonce : 0..MaxHunts, early : BOOLEAN]
    BY <1>4, <2>1 DEF SpawnFails, StartReadersFails, NoAnswer
  <2>4. failed' \subseteq Hunts
    BY <2>1, <2>3 DEF StartFailed, TypeOK
  <2> QED
    BY <2>1, <2>2, <2>3, <2>4 DEF TypeOK, StartFailed
<1>5. CASE StartReaders
  BY <1>5 DEF TypeOK, StartReaders
<1>6. CASE Supervise
  BY <1>6 DEF TypeOK, Supervise, Test
<1>7. CASE Reap
  BY <1>7 DEF TypeOK, Reap
<1>8. CASE Return \/ SumRaces
  <2>1. hunt \in Hunts /\ 0 \in 0..MaxHunts /\ found[hunt] \in 0..MaxHunts
    BY <1>8, SolverAssumption DEF TypeOK, Return, SumRaces
  <2>2. CASE Return
    BY <2>1, <2>2 DEF TypeOK, Return
  <2>3. CASE SumRaces
    BY <2>1, <2>3 DEF TypeOK, SumRaces, NoAnswer
  <2> QED
    BY <1>8, <2>2, <2>3
<1>9. CASE SetStop
  <2>1. 0 \in 0..MaxHunts /\ answer.nonce \in 0..MaxHunts
    BY SolverAssumption DEF TypeOK
  <2>2. outcome' \in [how : {"nothing", "found", "changed", "elapsed", "error"},
                      hunt : 0..MaxHunts]
    BY <1>9, <2>1 DEF SetStop, TakenFor
  <2> QED
    BY <1>9, <2>1, <2>2 DEF TypeOK, SetStop, EventOf, NoAnswer
<1>10. CASE Expire
  BY <1>10 DEF TypeOK, Expire
<1>11. ASSUME NEW h \in Hunts, WatchStep(h) PROVE TypeOK'
  <2>1. PICK to \in {"gone", "poll", "set", "check"} : watcher' = [watcher EXCEPT ![h] = to]
    BY <1>11 DEF WatchStep, WatchCheck, WatchPoll, WatchFails, WatchSet, WatcherGoes
  <2>2. watcher' \in [Hunts -> {"none", "check", "poll", "set", "gone"}]
    BY <2>1 DEF TypeOK
  <2>3. stop' = stop \/ stop' = [stop EXCEPT ![h] = TRUE]
    BY <1>11 DEF WatchStep, WatchCheck, WatchPoll, WatchFails, WatchSet, EventOf
  <2>4. stop' \in [Hunts -> BOOLEAN]
    BY <2>3 DEF TypeOK
  <2>5. UNCHANGED <<prevWork, mainVars, laneVars, failed>>
    BY <1>11 DEF WatchStep, WatchCheck, WatchPoll, WatchFails, WatchSet
  <2> QED
    BY <2>2, <2>4, <2>5 DEF TypeOK, mainVars, laneVars
<1>12. ASSUME NEW h \in Hunts, NEW i \in Lanes, LaneStep(h, i) PROVE TypeOK'
  <2>1. lane' = [lane EXCEPT ![h][i] = "exit"]
    BY <1>12 DEF LaneStep, LaneFinds, LaneEnds
  <2>2. lane' \in [Hunts -> [Lanes -> {"none", "run", "exit"}]]
    BY <2>1 DEF TypeOK
  <2>3. pipe' = pipe \/ pipe' = [pipe EXCEPT ![h][i] = "FOUND"]
    BY <1>12 DEF LaneStep, LaneFinds, LaneEnds
  <2>4. [pipe EXCEPT ![h][i] = "FOUND"] \in [Hunts -> [Lanes -> {"empty", "FOUND"}]]
    BY DEF TypeOK
  <2>5. pipe' \in [Hunts -> [Lanes -> {"empty", "FOUND"}]]
    BY <2>3, <2>4 DEF TypeOK
  <2> QED
    BY <1>12, <2>2, <2>5 DEF TypeOK, LaneStep, LaneFinds, LaneEnds
<1>13. ASSUME NEW h \in Hunts, NEW i \in Lanes, ReaderStep(h, i) PROVE TypeOK'
  <2>1. reader' = [reader EXCEPT ![h][i] = "done"]
    BY <1>13 DEF ReaderStep, ReaderTakes, ReaderEnds
  <2>2. reader' \in [Hunts -> [Lanes -> {"none", "on", "done"}]]
    BY <2>1 DEF TypeOK
  <2>3. pipe' = pipe \/ pipe' = [pipe EXCEPT ![h][i] = "empty"]
    BY <1>13 DEF ReaderStep, ReaderTakes, ReaderEnds
  <2>4. [pipe EXCEPT ![h][i] = "empty"] \in [Hunts -> [Lanes -> {"empty", "FOUND"}]]
    BY DEF TypeOK
  <2>5. pipe' \in [Hunts -> [Lanes -> {"empty", "FOUND"}]]
    BY <2>3, <2>4 DEF TypeOK
  <2>6. found' = found \/ found' = [found EXCEPT ![h] = h]
    BY <1>13 DEF ReaderStep, ReaderTakes, ReaderEnds, NonceOf
  <2>7. h \in 0..MaxHunts
    BY SolverAssumption DEF Hunts
  <2>8. found' \in [Hunts -> 0..MaxHunts]
    BY <2>6, <2>7 DEF TypeOK
  <2> QED
    BY <1>13, <2>2, <2>5, <2>8 DEF TypeOK, ReaderStep, ReaderTakes, ReaderEnds
<1>14. CASE UNCHANGED vars
  BY <1>14 DEF TypeOK, vars
<1> QED
  BY <1>1, <1>2, <1>3, <1>4, <1>5, <1>6, <1>7, <1>8, <1>9, <1>10, <1>11, <1>12, <1>13, <1>14
     DEF Next, MainStep, Finished

\* The type invariant of the solver.
THEOREM SolverTypeCorrect == Spec => []TypeOK
BY SolverTypeInit, SolverTypeStep, PTL DEF Spec

-----------------------------------------------------------------------------
(* The safety invariant.                                                   *)

LEMMA SolverInvInit == Init => SolverInv
BY SolverAssumption DEF Init, SolverInv, Solving, Loop, Hunts

\* Steps of the lanes, of the time and of the supervising loop's tests that do
\* not break disturb no part of the invariant.
LEMMA KeepSolverInv ==
    ASSUME TypeOK, SolverInv, UNCHANGED <<prevWork, hunt, prev0, stop, watcher>>,
           \A h \in Hunts : found'[h] \in {0, h},
           \A h \in Hunts : h > hunt =>
              \A i \in Lanes : reader'[h][i] = "none" /\ lane'[h][i] = "none",
           main' \in Solving => main \in Solving
    PROVE  SolverInv'
BY DEF SolverInv

LEMMA SolverInvStep ==
    ASSUME TypeOK, SolverInv, [Next]_vars
    PROVE  SolverInv'
<1> USE DEF Goto, Solving, Loop, mainVars, laneVars, Locals, Forget
<1>1. CASE Mint
  <2>1. prevWork \in Nat /\ prevWork' = prevWork + 1 /\ \A h \in Hunts : prev0[h] \in Nat
    BY <1>1 DEF Mint, TypeOK
  <2>2. \A h \in Hunts : prev0[h] <= prevWork /\ prev0[h] <= prevWork' /\ prev0[h] # prevWork'
    BY <2>1 DEF SolverInv
  <2>3. main \in Solving => hunt \in Hunts
    BY DEF TypeOK
  <2> QED
    BY <1>1, <2>2, <2>3 DEF Mint, SolverInv
<1>2. CASE Hunt
  <2>1. hunt \in Nat /\ hunt' = hunt + 1 /\ hunt' \in Hunts /\ hunt' > hunt
    BY <1>2, SolverAssumption DEF Hunt, TypeOK, Hunts
  <2>2. \A h \in Hunts : prev0'[h] = IF h = hunt' THEN prevWork ELSE prev0[h]
    BY <1>2 DEF Hunt, TypeOK
  <2>3. \A h \in Hunts : watcher'[h] = IF h = hunt' THEN "check" ELSE watcher[h]
    BY <1>2 DEF Hunt, TypeOK
  <2>4. ~stop'[hunt'] /\ main' = "spawn"
    BY <1>2, <2>1 DEF Hunt, SolverInv
  <2>5. prevWork <= prevWork
    BY DEF TypeOK
  <2>6. \A h \in Hunts : h > hunt' => h > hunt /\ h # hunt'
    BY <2>1 DEF Hunts
  <2> QED
    BY <1>2, <2>2, <2>3, <2>4, <2>5, <2>6 DEF Hunt, SolverInv
<1>3. ASSUME NEW i \in Lanes, Spawn(i) PROVE SolverInv'
  <2>1. hunt \in Hunts /\ \A h \in Hunts : h # hunt => lane'[h] = lane[h]
    BY <1>3 DEF Spawn, TypeOK
  <2>2. \A h \in Hunts : h > hunt => h # hunt
    BY <2>1 DEF Hunts
  <2> QED
    BY <1>3, <2>1, <2>2, KeepSolverInv DEF Spawn, SolverInv
<1>4. CASE SpawnFails \/ StartReadersFails
  <2>1. hunt \in Hunts /\ \A h \in Hunts : h # hunt => reader'[h] = reader[h]
    BY <1>4 DEF SpawnFails, StartReadersFails, TypeOK
  <2>2. \A h \in Hunts : h > hunt => h # hunt
    BY <2>1 DEF Hunts
  <2> QED
    BY <1>4, <2>1, <2>2, KeepSolverInv DEF SpawnFails, StartReadersFails, StartFailed, SolverInv
<1>5. CASE StartReaders
  <2>1. hunt \in Hunts /\ \A h \in Hunts : h # hunt => reader'[h] = reader[h]
    BY <1>5 DEF StartReaders, TypeOK
  <2>2. \A h \in Hunts : h > hunt => h # hunt
    BY <2>1 DEF Hunts
  <2> QED
    BY <1>5, <2>1, <2>2, KeepSolverInv DEF StartReaders, SolverInv
<1>6. CASE Supervise
  <2>1. main \in Solving /\ UNCHANGED <<prevWork, hunt, prev0, stop, watcher, found, reader, lane>>
    BY <1>6 DEF Supervise, Test
  <2> QED
    BY <2>1, KeepSolverInv DEF SolverInv
<1>7. CASE Reap
  <2>1. hunt \in Hunts /\ \A h \in Hunts : h # hunt => lane'[h] = lane[h]
    BY <1>7 DEF Reap, TypeOK
  <2>2. \A h \in Hunts : h > hunt => h # hunt
    BY <2>1 DEF Hunts
  <2> QED
    BY <1>7, <2>1, <2>2, KeepSolverInv DEF Reap, SolverInv
<1>8. CASE Return \/ SumRaces
  BY <1>8, KeepSolverInv DEF Return, SumRaces, SolverInv
<1>9. CASE SetStop
  <2>1. hunt \in Hunts /\ \A h \in Hunts : h # hunt => stop'[h] = stop[h]
    BY <1>9 DEF SetStop, EventOf, TypeOK
  <2>2. \A h \in Hunts : h > hunt => h # hunt
    BY <2>1 DEF Hunts
  <2> QED
    BY <1>9, <2>1, <2>2 DEF SetStop, SolverInv
<1>10. CASE Expire
  BY <1>10, KeepSolverInv DEF Expire, SolverInv
<1>11. ASSUME NEW h \in Hunts, WatchCheck(h) \/ WatchPoll(h) \/ WatchFails(h) PROVE SolverInv'
  <2>1. watcher[h] # "none" /\ \A k \in Hunts : k # h => watcher'[k] = watcher[k]
    BY <1>11 DEF WatchCheck, WatchPoll, WatchFails, WatcherGoes, TypeOK
  <2>2. watcher'[h] = "set" => prevWork # prev0[h]
    BY <1>11 DEF WatchCheck, WatchPoll, WatchFails, WatcherGoes, TypeOK
  <2>3. UNCHANGED <<prevWork, mainVars, stop, laneVars>>
    BY <1>11 DEF WatchCheck, WatchPoll, WatchFails
  <2> QED
    BY <2>1, <2>2, <2>3 DEF SolverInv
<1>12. ASSUME NEW h \in Hunts, WatchSet(h) PROVE SolverInv'
  <2>1. watcher[h] = "set" /\ prevWork # prev0[h]
    BY <1>12 DEF WatchSet, WatcherGoes, SolverInv
  <2>2. \A k \in Hunts : k # h => stop'[k] = stop[k] /\ watcher'[k] = watcher[k]
    BY <1>12 DEF WatchSet, WatcherGoes, EventOf, TypeOK
  <2>3. watcher'[h] = "gone" /\ UNCHANGED <<prevWork, mainVars, laneVars>>
    BY <1>12 DEF WatchSet, WatcherGoes, TypeOK
  <2>4. main \in Solving => hunt \in Hunts
    BY DEF TypeOK
  <2> QED
    BY <2>1, <2>2, <2>3, <2>4 DEF SolverInv
<1>13. ASSUME NEW h \in Hunts, NEW i \in Lanes, LaneStep(h, i) PROVE SolverInv'
  <2>1. lane[h][i] = "run" /\ lane' = [lane EXCEPT ![h][i] = "exit"]
    BY <1>13 DEF LaneStep, LaneFinds, LaneEnds
  <2>2. ~(h > hunt) /\ \A k \in Hunts : k # h => lane'[k] = lane[k]
    BY <2>1 DEF SolverInv, TypeOK
  <2> QED
    BY <1>13, <2>2, KeepSolverInv DEF LaneStep, LaneFinds, LaneEnds, SolverInv
<1>14. ASSUME NEW h \in Hunts, NEW i \in Lanes, ReaderStep(h, i) PROVE SolverInv'
  <2>1. reader[h][i] = "on" /\ reader' = [reader EXCEPT ![h][i] = "done"]
    BY <1>14 DEF ReaderStep, ReaderTakes, ReaderEnds
  <2>2. \A k \in Hunts : k # h => reader'[k] = reader[k]
    BY <2>1 DEF TypeOK
  <2>3. ~(h > hunt)
    BY <2>1 DEF SolverInv
  <2>4. \A k \in Hunts : found'[k] \in {0, k}
    BY <1>14 DEF ReaderStep, ReaderTakes, ReaderEnds, NonceOf, SolverInv, TypeOK
  <2>5. UNCHANGED <<prevWork, mainVars, stop, watcher, lane>>
    BY <1>14 DEF ReaderStep, ReaderTakes, ReaderEnds
  <2> QED
    BY <2>2, <2>3, <2>4, <2>5 DEF SolverInv
<1>15. CASE UNCHANGED vars
  BY <1>15 DEF vars, SolverInv
<1> QED
  BY <1>1, <1>2, <1>3, <1>4, <1>5, <1>6, <1>7, <1>8, <1>9, <1>10, <1>11, <1>12, <1>13,
     <1>14, <1>15 DEF Next, MainStep, WatchStep, Finished

\* No watcher, however late, aborts a search whose prevWork still stands.
THEOREM AbortsAreJustified == Spec => []NoSpuriousAbort
<1>1. SolverInv => NoSpuriousAbort
  BY DEF SolverInv, NoSpuriousAbort, EventOf
<1> QED
  BY <1>1, SolverTypeCorrect, SolverInvInit, SolverInvStep, PTL DEF Spec

-----------------------------------------------------------------------------
(* What solve returns, and what hunt_once makes of it.                     *)

\* While the loop goes on it has no reason to break; a reason it broke for still
\* holds when solve returns, though its caller is not told; the answer carries
\* the nonce of this search or none, and the time.
ReasonInv ==
    /\ main \in Loop \cup {"idle", "spawn", "read"} => why = "none"
    /\ main \in {"reap", "return", "over"} =>
          \/ why = "found" /\ found[hunt] # 0
          \/ why = "stop" /\ prevWork # prev0[hunt]
          \/ why = "time" /\ clock = "past"
          \/ why = "exited"
    /\ main = "over" =>
          \/ answer = [nonce |-> found[hunt], early |-> clock = "early"]
          \/ answer = [nonce |-> 0, early |-> clock = "early"] /\ why # "found"

LEMMA ReasonInvStep ==
    ASSUME TypeOK, SolverInv, ReasonInv, [Next]_vars
    PROVE  ReasonInv'
<1> USE DEF Goto, Solving, Loop, mainVars, laneVars, Locals, Forget
<1>1. CASE Mint
  <2>1. main # "idle" => hunt \in Hunts
    BY DEF TypeOK
  <2>2. \A h \in Hunts : prev0[h] # prevWork'
    BY <1>1 DEF Mint, TypeOK, SolverInv
  <2> QED
    BY <1>1, <2>1, <2>2 DEF Mint, ReasonInv
<1>2. CASE Hunt \/ (\E i \in Lanes : Spawn(i)) \/ StartReaders
  BY <1>2 DEF Hunt, Spawn, StartReaders, ReasonInv
<1>3. CASE SpawnFails \/ StartReadersFails \/ SumRaces \/ SetStop
  BY <1>3 DEF SpawnFails, StartReadersFails, StartFailed, SumRaces, SetStop, ReasonInv
<1>4. CASE Supervise
  <2>1. stop[EventOf(hunt)] => prevWork # prev0[hunt]
    BY <1>4 DEF Supervise, Test, EventOf, SolverInv
  <2> QED
    BY <1>4, <2>1 DEF Supervise, Test, ReasonInv
<1>5. CASE Reap
  BY <1>5 DEF Reap, ReasonInv
<1>6. CASE Return
  BY <1>6 DEF Return, ReasonInv
<1>7. CASE Expire
  BY <1>7 DEF Expire, ReasonInv
<1>8. ASSUME NEW h \in Hunts, WatchStep(h) PROVE ReasonInv'
  BY <1>8 DEF WatchStep, WatchCheck, WatchPoll, WatchFails, WatchSet, ReasonInv
<1>9. ASSUME NEW h \in Hunts, NEW i \in Lanes, LaneStep(h, i) PROVE ReasonInv'
  BY <1>9 DEF LaneStep, LaneFinds, LaneEnds, ReasonInv
<1>10. ASSUME NEW h \in Hunts, NEW i \in Lanes, ReaderStep(h, i) PROVE ReasonInv'
  <2>1. UNCHANGED <<prevWork, mainVars>>
    BY <1>10 DEF ReaderStep, ReaderTakes, ReaderEnds
  <2>2. main # "idle" => hunt \in Hunts
    BY DEF TypeOK
  <2>3. \A k \in Hunts : found'[k] = found[k] \/ (found'[k] = k /\ k # 0)
    <3>1. found' = found \/ found' = [found EXCEPT ![h] = h]
      BY <1>10 DEF ReaderStep, ReaderTakes, ReaderEnds, NonceOf
    <3>2. found \in [Hunts -> 0..MaxHunts] /\ h # 0
      BY DEF TypeOK, Hunts
    <3> QED
      BY <3>1, <3>2
  <2>4. main \in {"reap", "return", "over"} /\ found[hunt] # 0 => found'[hunt] = found[hunt]
    BY <2>2, <2>3 DEF SolverInv, Hunts
  <2> QED
    BY <2>1, <2>2, <2>3, <2>4 DEF ReasonInv
<1>11. CASE UNCHANGED vars
  BY <1>11 DEF vars, ReasonInv
<1> QED
  BY <1>1, <1>2, <1>3, <1>4, <1>5, <1>6, <1>7, <1>8, <1>9, <1>10, <1>11
     DEF Next, MainStep, Finished

-----------------------------------------------------------------------------
(* csolver.py and hunt_once implement PowSearch.                           *)

\* Steps that neither begin nor end a search, nor let its last second come, nor
\* find its lanes gone, are invisible in PowSearch.
LEMMA InvisibleStep ==
    ASSUME UNCHANGED <<prevWork, hunt, prev0, outcome>>,
           main \in Solving \cup {"over"} <=> main' \in Solving \cup {"over"},
           (clock = "early") = (clock' = "early"), (why = "exited") = (why' = "exited")
    PROVE  UNCHANGED Search!searchVars
BY DEF Search!searchVars

\* hunt_once takes the answer of solve for one that PowSearch allows.
LEMMA AnswerIsPromised ==
    ASSUME TypeOK, SolverInv, ReasonInv, SetStop
    PROVE  Search!End
<1>1. main = "over" /\ main' = "idle" /\ hunt \in Hunts /\ hunt # 0
  BY SolverAssumption DEF SetStop, Goto, TypeOK, Hunts
<1>2. UNCHANGED <<prevWork, hunt, prev0>> /\ why' = "none" /\ clock' = "early"
  BY DEF SetStop, Forget
<1>3. outcome' = TakenFor(answer)
  BY DEF SetStop
<1>4. \/ answer = [nonce |-> hunt, early |-> clock = "early"]
      \/ /\ answer = [nonce |-> 0, early |-> clock = "early"]
         /\ \/ prevWork # prev0[hunt]
            \/ clock = "past"
            \/ why = "exited"
  BY <1>1 DEF ReasonInv, SolverInv
<1>5. \/ outcome' = [how |-> "found", hunt |-> hunt]
      \/ /\ outcome' = [how |-> "changed", hunt |-> 0]
         /\ clock = "early"
         /\ prevWork # prev0[hunt] \/ why = "exited"
      \/ outcome' = [how |-> "elapsed", hunt |-> 0] /\ clock # "early"
  <2>1. CASE answer = [nonce |-> hunt, early |-> clock = "early"]
    <3>1. answer.nonce = hunt
      BY <2>1
    <3> QED
      BY <1>1, <1>3, <3>1 DEF TakenFor
  <2>2. CASE answer = [nonce |-> 0, early |-> clock = "early"] /\ clock = "early"
    <3>1. answer.nonce = 0 /\ answer.early
      BY <2>2
    <3>2. outcome' = [how |-> "changed", hunt |-> 0]
      BY <1>3, <3>1 DEF TakenFor
    <3>3. prevWork # prev0[hunt] \/ why = "exited"
      BY <1>1, <1>4, <2>2, <3>1
    <3> QED
      BY <2>2, <3>2, <3>3
  <2>3. CASE answer = [nonce |-> 0, early |-> clock = "early"] /\ clock # "early"
    <3>1. answer.nonce = 0 /\ ~answer.early
      BY <2>3
    <3> QED
      BY <1>3, <2>3, <3>1 DEF TakenFor
  <2> QED
    BY <1>4, <2>1, <2>2, <2>3
<1> QED
  BY <1>1, <1>2, <1>5 DEF Search!End, Solving, Loop

LEMMA SearchRefined ==
    ASSUME TypeOK, SolverInv, ReasonInv, [Next]_vars
    PROVE  [Search!Next]_(Search!searchVars)
<1> USE DEF Goto, Solving, Loop, mainVars, laneVars, Locals, Forget
<1>1. CASE Mint
  <2>1. Search!Mint
    BY <1>1 DEF Mint, Search!Mint
  <2> QED
    BY <2>1 DEF Search!Next
<1>2. CASE Hunt
  <2>1. hunt \in Nat /\ hunt < MaxHunts /\ hunt' = hunt + 1 /\ hunt' # 0 /\ hunt' \in Hunts
    BY <1>2, SolverAssumption DEF Hunt, TypeOK, Hunts
  <2>2. prev0'[hunt'] = prevWork
    BY <1>2, <2>1 DEF Hunt, TypeOK
  <2>3. Search!Begin
    BY <1>2, <2>1, <2>2 DEF Hunt, Search!Begin, Nothing, Search!Nothing
  <2> QED
    BY <2>3 DEF Search!Next
<1>3. CASE SpawnFails \/ StartReadersFails \/ SumRaces
  <2>1. Search!End
    BY <1>3 DEF SpawnFails, StartReadersFails, StartFailed, SumRaces, Search!End
  <2> QED
    BY <2>1 DEF Search!Next
<1>4. CASE SetStop
  BY <1>4, AnswerIsPromised DEF Search!Next
<1>5. CASE (\E i \in Lanes : Spawn(i)) \/ StartReaders \/ Reap \/ Return
  BY <1>5, InvisibleStep DEF Spawn, StartReaders, Reap, Return
<1>6. CASE Supervise
  <2>1. /\ main \in Solving /\ main' \in Solving /\ why = "none"
        /\ UNCHANGED <<prevWork, hunt, prev0, clock, outcome>>
    BY <1>6 DEF Supervise, Test, ReasonInv
  <2>2. CASE why' = "exited"
    <3>1. Search!GiveUp
      BY <2>1, <2>2 DEF Search!GiveUp
    <3> QED
      BY <3>1 DEF Search!Next
  <2>3. CASE why' # "exited"
    BY <2>1, <2>3, InvisibleStep
  <2> QED
    BY <2>2, <2>3
<1>7. CASE Expire
  <2>1. /\ main \in Solving /\ clock' # "early"
        /\ UNCHANGED <<prevWork, hunt, prev0, main, why, outcome>>
    BY <1>7 DEF Expire
  <2>2. Search!TimePasses
    BY <2>1 DEF Search!TimePasses
  <2> QED
    BY <2>2 DEF Search!Next
<1>8. ASSUME NEW h \in Hunts, WatchStep(h) PROVE UNCHANGED Search!searchVars
  BY <1>8, InvisibleStep DEF WatchStep, WatchCheck, WatchPoll, WatchFails, WatchSet
<1>9. ASSUME NEW h \in Hunts, NEW i \in Lanes, LaneStep(h, i) \/ ReaderStep(h, i)
      PROVE  UNCHANGED Search!searchVars
  BY <1>9, InvisibleStep DEF LaneStep, LaneFinds, LaneEnds, ReaderStep, ReaderTakes, ReaderEnds
<1>10. CASE UNCHANGED vars
  BY <1>10, InvisibleStep DEF vars
<1> QED
  BY <1>1, <1>2, <1>3, <1>4, <1>5, <1>6, <1>7, <1>8, <1>9, <1>10
     DEF Next, MainStep, Finished

\* The solver, its lanes, readers and watchers, with hunt_once's reading of the
\* answer, are an implementation of the search that Hunter.tla's SolveFound step
\* stands for: a nonce is this search's, "budget elapsed" is said only in or
\* after its last second, and "prevWork changed" only when it changed or when
\* every lane had exited.
THEOREM SolverImplementsSearch == Spec => ImplementsSearch
<1>1. Init => Search!Init /\ ReasonInv
  BY DEF Init, Search!Init, ReasonInv, Solving, Loop, Nothing, Search!Nothing
<1> QED
  BY <1>1, SearchRefined, SolverTypeCorrect, SolverInvInit, SolverInvStep, ReasonInvStep, PTL
     DEF Spec, ImplementsSearch, Search!Spec

-----------------------------------------------------------------------------
(* Nothing hashes beside the current search, but for failed starts.        *)

\* Lanes that run are the current search's, and it has not reaped them yet,
\* unless their start failed.
LaneInv ==
    \A h \in Hunts, i \in Lanes :
       lane[h][i] = "run" /\ h \notin failed =>
          h = hunt /\ main \in Loop \cup {"spawn", "read", "reap"}

LEMMA LaneInvStep ==
    ASSUME TypeOK, SolverInv, LaneInv, [Next]_vars
    PROVE  LaneInv'
<1> USE DEF Goto, Solving, Loop, mainVars, laneVars, Locals
<1>1. CASE Mint \/ Expire
  BY <1>1 DEF Mint, Expire, LaneInv
<1>2. CASE Hunt
  <2>1. main = "idle" /\ UNCHANGED <<lane, failed>>
    BY <1>2 DEF Hunt
  <2> QED
    BY <2>1 DEF LaneInv
<1>3. ASSUME NEW k \in Lanes, Spawn(k) PROVE LaneInv'
  <2>1. hunt \in Hunts /\ UNCHANGED <<hunt, failed>> /\ main = "spawn" /\ main' \in {"spawn", "read"}
    BY <1>3 DEF Spawn, TypeOK
  <2>2. \A h \in Hunts : h # hunt => lane'[h] = lane[h]
    BY <1>3 DEF Spawn, TypeOK
  <2> QED
    BY <2>1, <2>2 DEF LaneInv
<1>4. CASE SpawnFails \/ StartReadersFails
  BY <1>4 DEF SpawnFails, StartReadersFails, StartFailed, LaneInv
<1>5. CASE StartReaders \/ Supervise
  BY <1>5 DEF StartReaders, Supervise, Test, LaneInv
<1>6. CASE Reap
  <2>1. /\ hunt \in Hunts
        /\ \A h \in Hunts, i \in Lanes : lane'[h][i] = IF h = hunt THEN "exit" ELSE lane[h][i]
    BY <1>6 DEF Reap, TypeOK
  <2> QED
    BY <1>6, <2>1 DEF Reap, LaneInv
<1>7. CASE Return \/ SumRaces \/ SetStop
  BY <1>7 DEF Return, SumRaces, SetStop, LaneInv
<1>8. ASSUME NEW h \in Hunts, WatchStep(h) PROVE LaneInv'
  BY <1>8 DEF WatchStep, WatchCheck, WatchPoll, WatchFails, WatchSet, LaneInv
<1>9. ASSUME NEW h \in Hunts, NEW i \in Lanes, LaneStep(h, i) PROVE LaneInv'
  <2>1. lane' = [lane EXCEPT ![h][i] = "exit"] /\ UNCHANGED <<mainVars, failed>>
    BY <1>9 DEF LaneStep, LaneFinds, LaneEnds
  <2>2. \A g \in Hunts, j \in Lanes : lane'[g][j] = "run" => lane[g][j] = "run"
    BY <2>1 DEF TypeOK
  <2> QED
    BY <2>1, <2>2 DEF LaneInv
<1>10. ASSUME NEW h \in Hunts, NEW i \in Lanes, ReaderStep(h, i) PROVE LaneInv'
  BY <1>10 DEF ReaderStep, ReaderTakes, ReaderEnds, LaneInv
<1>11. CASE UNCHANGED vars
  BY <1>11 DEF vars, LaneInv
<1> QED
  BY <1>1, <1>2, <1>3, <1>4, <1>5, <1>6, <1>7, <1>8, <1>9, <1>10, <1>11
     DEF Next, MainStep, Finished

\* Two searches hash at the same time only after a start that failed half way.
THEOREM NoLaneOutlivesItsSearch == Spec => []OrphansOnlyAfterFailedStart
<1>1. Init => LaneInv
  BY DEF Init, LaneInv
<1>2. LaneInv => OrphansOnlyAfterFailedStart
  BY DEF LaneInv, OrphansOnlyAfterFailedStart, Loop
<1> QED
  BY <1>1, <1>2, SolverTypeCorrect, SolverInvInit, SolverInvStep, LaneInvStep, PTL DEF Spec
=============================================================================
