# Hashcats miner: TLA+ models, checks and proofs

The repository mines Hashcats: an ERC-721 whose `mine(nonce, anchorBlock)` mints a
cat for whoever sends the price together with a nonce whose Keccak-256 hash, taken
with the miner's address, the contract's `prevWork` and a recent block hash, is below
the contract's target. Every mint changes `prevWork` and makes all other solutions
worthless, so the scripts race: read the chain, search, simulate, send.

This directory holds TLA+ models of the scripts, TLC configurations that check them on
small instances, and TLAPS proofs of the most important results for all values of the
constants.

- [Inventory](#inventory)
- [Modules and how they correspond to the code](#modules-and-how-they-correspond-to-the-code)
- [Runs, bounds, results](#runs-bounds-results)
- [Fairness](#fairness)
- [Proofs](#proofs)
- [What is only model-checked, what is not modelled](#what-is-only-model-checked-what-is-not-modelled)
- [Plan](#plan)

## Inventory

### Components

| Component | State it keeps | Operations | Modelled in |
|---|---|---|---|
| Hashcats contract, account, mempool (external) | mints, difficulty burst, block, balance, account nonce, waiting transactions | mint, cool down, move gas price, execute or drop a transaction, admit one | `Hashcats` |
| `chain.py` | none (an RPC connection) | `connect`, `snapshot` | `Hunter`, `Bot`, `GpuHunter` (reads), `Watcher` (connect) |
| `mint.py` | locals of one call | `build_and_check`, `send` | `MintTx` |
| `hunter.py` | snapshot, solution, hold loop, stop event | `hunt_once`, `try_send`, `prevwork_watcher`, `main` | `Hunter`; its watcher threads in `CSolver` |
| `csolver.py` | lane processes, reader threads, `found_nonce` | `solve` | `CSolver` |
| `keccak_miner.c` | nonce, count, clock | loop, `FOUND`, `NONE`, `RATE` | `KeccakMiner`; its protocol in `CSolver` |
| `bot.py` | snapshot, attempts | `wait_for_window`, `mine_once`, `main` | `Bot` |
| `solver_mp.py` | workers, shared flag, queue | `solve`, `_worker` | `SolverMp` |
| `gpu/gpu_hunter.py` | snapshot, base of the nonces | `main`, `run_cuda` | `GpuHunter` |
| `gpu/gpu_hunter_continuous.py` | chain state kept between slices | `fresh_state`, `submit`, `main`, `run_slice` | `Continuous` |
| `gpu/keccak_cuda.cu` | found flag and nonce in device memory, cursor | `mine_kernel`, host loop | `CudaMiner` |
| `watcher.py`, `run_watcher.sh` | last level and total, error count; log, CSV, state file | poll, reconnect, restart | `Watcher` |
| | queues of bursts and of mint moments | trend, rate | `PollStats` |
| `analyze.py` | none of its own; it reads the watcher's CSV | report | `Analyze` |
| `feasibility.py` | moments of the mints | `sample_intermint`, report | `Feasibility` |
| `miner.py`, `verify_correctness.py` | nonce and count of a search; the verdict so far | `solve_range`, `main` | `Miner` |
| `verify_tx_path.py` | anchor and price of a snapshot | two simulations, `classify_revert` | `TxPath` |
| `gpu/verify_kernel*`, set-up scripts | none | tests of the hash, installation | not modelled |

### How they interact

- Every script talks to the chain by single RPCs, and the chain moves between any two
  of them: rivals mint, the difficulty cools, blocks and gas prices pass. This is the
  race every model is about.
- `hunter.py` starts one `prevwork_watcher` thread per hunt and calls `csolver.solve`;
  they share the hunt's stop event. `solve` starts one `keccak_miner` process and one
  reader thread per core; the readers share `found_nonce` with the main thread.
- `bot.py` calls `solver_mp.solve`: worker processes share a flag in memory and send
  one message each through a queue.
- The GPU hunters run `keccak_cuda` as a process and read its output when it has ended.
  Its threads share a flag and a nonce in device memory.
- All scripts simulate with `mint.build_and_check`. All but the continuous hunter send
  with `mint.send`; that one builds its own transaction.
- `watcher.py` mines nothing. It writes three files, and `run_watcher.sh` starts it
  again when it dies. `analyze.py` reads one of them, at any time.
- `verify_correctness.py` runs `miner.solve_range` and asks the contract about the
  result; `verify_tx_path.py` and `feasibility.py` only read the chain.

### What is hard here

- *Stale reads.* Prices, targets, anchors, balances, account nonces and `prevWork` are
  read, kept over RPCs, searches of minutes and hold loops, and then used.
- *Lost outcomes.* A node may admit a transaction and its answer be lost; a receipt may
  come after the timeout; `balanceOf` may fail after a success. Exceptions hide all three.
- *Threads and processes that outlive their hunt.* Watchers asleep, readers not yet
  scheduled, lanes of a start that failed half way.
- *Several winners.* Two workers, lanes or GPU threads find a nonce at the same time.
- *Signals.* Ctrl-C reaches the worker processes of `solver_mp.py` as well as their parent,
  and the out-of-memory killer reaches anybody.
- *Things that share a moment.* Mints that one poll sees have one time stamp.
- *Crashes and failing writes.* The watcher can die, or fail, between any two of its writes.

### What makes each component correct

| Component | Correctness | Property |
|---|---|---|
| `chain.snapshot` + `hunter.py` | a solution for the `prevWork` that still stands meets the target that stands | `LiveSolutionMeetsTarget` |
| `mint.py` + `hunter.py` | what is sent pays the price of the cat its solution is for | `PaysExactPrice` |
| | gas is burnt on a revert only when a mint overtook the transaction or its anchor aged | `RevertOnlyIfOvertaken` |
| | one transaction waits in the mempool at most | `OneInFlight` |
| | no second cat unless an error hid the first | `ExtraCatNeedsLostOutcome` |
| | "done" only with a cat; without `--send` nothing is sent; every hunt ends | `DoneOnlyWithCat`, `DryRunSendsNothing`, `NoTurnHangs` |
| | the funds that were checked stay until they are spent | `FundsStillThere` |
| every script that mints | it does to the chain only what `MintRace` allows | `ImplementsRace` |
| `bot.py` | one transaction per life; it ends once there is a window | `SendsOnce`, `BotGivesUp` |
| `bot.py`, GPU hunters | no turn of their loops hangs | `NoTurnHangs` |
| continuous hunter | the balance it read pays for what it offers | `CheckedFundsCover` |
| `csolver.py` + watchers | it implements `PowSearch`: the nonce is of this search; "prevWork changed" is said only when it did, or when all lanes had exited | `ImplementsSearch`, `NoSpuriousAbort` |
| | no thread or process outlives its hunt for ever, stale or expired searches end | `WatchersGoHome`, `LeftWatchersEnd`, `OrphansOnlyAfterFailedStart`, `StaleSearchAborts`, `ExpiredSearchEnds` |
| searches over nonces | they implement `NonceSearch`: only winners that were hashed are handed over, none is kept back | `ImplementsSearch` |
| | no nonce is hashed twice | theorem `NoNonceTwice` |
| `solver_mp.py` | it returns, and counts what was hashed | `SolveReturns`, `TotalIsTried` |
| `keccak_cuda.cu` | "NONE" leaves no gaps but the slices of launches that were refused | `OnlyRefusedLaunchesLeaveGaps` |
| `miner.py`, `verify_correctness.py` | "None" is said of a whole range; what passes is accepted by the contract | `MinerVerdictsHold` |
| `verify_tx_path.py` | mints between its calls do not upset its verdicts | `VerdictsSurviveMints` |
| `watcher.py` | recorded windows were announced, mints are counted once, it goes on recording | `OpenWindowsAreAnnounced`, `MintsCountedOnce`, `GoesOnRecording` |
| | rate and trend say what happened in their window | `StatsFollowTheMints` |
| `analyze.py` | a recorded window decides its verdict; no report forgets | `OpenRowIsReported`, `ReportsOnlyGrow` |
| `feasibility.py` | each mint has one moment; the quantiles are in order | `SampleIsWhole` |

`PROJECT.json` lists the hazards line by line, with the properties that cover them.

## Modules and how they correspond to the code

```
Hashcats <- HashcatsProofs         contract, account, mempool (external)
|- MintRace <- RaceProofs          abstract: what a minting script may do to the chain
'- MintTx                          mint.py: one action per RPC
   |- Hunter <- HunterProofs       hunter.py
   |- Bot                          bot.py
   |- GpuHunter                    gpu_hunter.py
   |- Continuous                   gpu_hunter_continuous.py
   '- MCScripts <- ScriptsProofs   one of the four or TxPath, for TLC and for the proofs
TxPath                             verify_tx_path.py (on Hashcats)
PowSearch                          abstract: what hunter.py assumes of its solver
'- CSolver <- CSolverProofs        csolver.py, its readers, hunter.py's watcher threads
NonceSearch                        abstract: what a shared search over nonces promises
|- SolverMp                        solver_mp.py
|- CudaMiner                       keccak_cuda.cu
|- KeccakMiner                     keccak_miner.c
|- Miner                           miner.py under verify_correctness.py
'- MCSearchers <- SearchersProofs  one of the four, for TLC and for the proofs
Watcher                            watcher.py, run_watcher.sh
|- Analyze <- AnalyzeProofs        analyze.py beside it
'- MCMonitors <- MonitorsProofs    Watcher, Analyze, PollStats or Feasibility, for both
PollStats                          what watcher.py computes from earlier polls
Feasibility                        feasibility.py
```

**Conventions.** A script's control is a label `pc` (`main` in `CSolver`). Each RPC and
each step that another thread or process can come between is an action. Locals are
reset when the function that owns them returns or raises. Definitions commented
`Fault:` are not part of any specification: they are bugs one could plausibly write,
each with the definition it would replace directly below it, and each is caught by a
property.

**`Hashcats`** is not code of the repository. It holds what the scripts rely on,
taken from `hashcats_abi.json`, from what the scripts read and send, and from the rules
that `docs/` and `watcher.py:8-11` record as verified on the chain.

- `prevWork` is a 256-bit hash that changes with every mint and does not come back; it
  is identified with the number of mints.
- A hash is the number of leading zero bits it has. Between two mints the difficulty
  only cools; a retargeting by the contract's owner is not modelled.
- `eth_call` and `estimate_gas` succeed when the contract's conditions hold and may fail
  at any time. That the contract grants one cat per block is not told apart from a mint
  that overtook ours.
- A transaction is charged its full bid per gas, as a legacy `gasPrice` transaction can
  be. A waiting transaction may be dropped at any time, and replaced under the same
  nonce for a tenth more per gas.

**`MintTx`** has the steps of `build_and_check` (price, call, gas estimate) and `send`
(gas price, account nonce, broadcast, receipt), parameterised by the labels they lead
from and to, so that every script is built of the same ones. Exceptions are the
caller's: `Raise` or `Crash`, and `AnswerLost`, where the node admits the transaction
and its answer does not arrive.

**`Hunter`** follows `hunt_once` and `try_send`: four of the eight reads of
`chain.snapshot` (the others are only printed), the window, the search as one step, the
two simulations with the dry-run exit, the balance, the hold loop of `HoldTries` polls,
the transaction, `balanceOf`. Every exception goes through `Raise`, which is `main()`'s
handler. `lost` is a history variable: an admitted transaction's outcome was swallowed.

**`Bot`** differs in control: no handler (the first exception ends it), a bounded number
of attempts, a second snapshot after the search, and a return value that stops `main()`
on every way out after the simulation. **`GpuHunter`** re-reads only `prevWork`.
**`Continuous`** keeps its state over turns and exceptions, reads it in batches
(`draft` until the batch is complete), hashes a hit again (`LocalCheck`), and bids the
same gas price it checked the wallet with. `--force` is a `--max-bits` that no
difficulty exceeds. The CUDA program is not trusted: a hit of it may be of 0 bits.

**`MintRace`** is the abstract specification of all four: the chain does what it likes,
and, only with `--send`, a transaction reaches the node that the simulation would pass
as far as its findings still hold (`Sound`), under an account nonce not beyond the
executed count.

**`CSolver`** has the main thread (start of the lanes one by one, readers, the four
tests of the supervising loop one after the other, reap, return), the lanes, the
readers, and the `prevwork_watcher` threads of *all* hunts, so that what one hunt leaves
behind meets the next. A lane that dies counts as one that ends. A start may fail at any
process or thread. `solve` returns `(nonce, hashes, dt)`, here `answer`: a nonce or 0, and
whether `dt < budget - 1`. The reason its loop broke for (`why`) stays inside; what
`hunt_once` says is `TakenFor(answer)`, as in `hunter.py:131-137`. `clock` has the two
moments that matter, the last second of the budget and its end, so a budget is two seconds
or more.

**`PowSearch`** is what `Hunter`'s single search step assumes of it: a search ends once,
with the nonce of this very search or with nothing. What the hunter says of nothing is a
guess from the time, and `PowSearch` states how far it may be trusted: "budget elapsed" is
true up to a second, and "prevWork changed" is true unless every lane had exited on its
own (`exhausted`). That exception is a real path: all lanes die, or a `FOUND` is lost as
in `csolver_exited`, and the hunter reports a mint that was none.

`SumRaces` is the way out of `solve` that nobody planned: the sum over `rate_seen`
raises when a thread puts a first RATE line in meanwhile.

**`SolverMp`, `CudaMiner`, `KeccakMiner`, `Miner`** share the variables `wins` (the winning
nonces, chosen at the start) and `tried`. `SolverMp` has the workers' batches between
two looks at the flag, the flag and the message as two steps, and the queue as a set of
messages tagged with their sender (messages of different workers arrive in any order).
A worker can be interrupted anywhere. In its `try` it then puts a "done" whatever it has
put before, so that the parent may take two messages of one worker for those of two;
before the `try`, or after its return while its queue is flushed (`CutShort`), it puts none
and may lose the first. It can be killed, and what its queue had not written is lost; and
Ctrl-C in the parent ends `bot.py` with all workers. `SolveReturns` says that nothing but
a kill, or an interrupt outside the `try`, keeps `solve` from coming to an end.
`CudaMiner` lets a thread miss a flag that is set, because it is read by a plain load
while others swap it, and leaves the nonce in device memory undefined until it is
stored. A launch may also be refused at once (`LaunchRefused`: `--threads` or `--blocks`
beyond the device, no kernel for it). Nothing is hashed then, `cudaDeviceSynchronize`
does not report it and `cudaGetLastError` is not asked, so the host moves on; `skipped`
is a history variable with those slices. `KeccakMiner` runs the lanes `csolver.py` starts, which it may terminate at any
time. `Miner` is `verify_correctness.py` from its first comparison to its last assertion,
with the loop of `solve_range` inside; which nonces the contract hashes alike is chosen at
the start. **`NonceSearch`** is what the four promise, except a `SolverMp` whose workers
were signalled.

**`TxPath`** runs over the chain of `Hashcats` with the script's two reads and its two
calls. The contract looks at the payment first (`docs/مکانیک-فنی.md:25`); its ABI has no
error of its own for an old anchor. `lucky` are the `prevWork`s for which the junk nonce
would be a solution.

**`Watcher`** has the start (connect, CSV with its header), one poll in five steps (read,
print, rows, truncating the state file, filling it), the handler with its error count,
the reconnect, and the restart. `shouted` and `missed` are history variables: whether an
announcement was logged since the last row that was not `OPEN`, and whether a poll
failed at the one place that can swallow an announcement. Nodes behind the first may
lag one mint behind.

**`Analyze`** extends `Watcher` with the rows of the CSV and with a run of `analyze.py` at
any moment. A row is its level and its bits; a file without a header is one from which
`csv.DictReader` gets no usable row, because it takes the first row for the header.
`headerLost` is a history variable: the watcher died between creating the CSV and its header.

**`PollStats`** has what one process of the watcher computes from the polls before. Time
is counted in polls. A poll sees the mints since the last one that went well, or fewer,
when the node that answers lags (`Answers`); the total may go back, and then forth, which
notes a mint twice. `mints` has the moment of every mint, in order; the queues are
sequences with the bounds of the deques. Two history variables: `late` counts the polls
that failed or read too little, `regressed` says that a total went back. It is kept apart
from `Watcher` because nothing that `Watcher` does depends on a trend or a rate. Its
properties bound all that `mpm` is made of: `RateCountsTheWindow` the number of mints,
`RateSpansItsMints` the time they are divided by, with the case where it is 0 and `mpm` is
0.0.

**`Feasibility`** has the sampling loop, with a node that may lag, and the report.
`gaps.sort()` and the index after it are one operator, `Ranked`: the gap than which fewer
than k are smaller and no fewer than k not greater. Its probabilities depend on the rate
alone, of which only "zero" or "positive" is kept.

## Runs, bounds, results

Times are for two workers.

| Run | Shows | States |
|---|---|---|
| `hunter` | the safety properties of `hunter.py`, its funds, and `ImplementsRace` | 1.4 million, 65 s |
| `hunter_hold` (violation) | the hold loop holds on to a dead solution | |
| `csolver` | safety of solver and watcher threads, `ImplementsSearch` | 1.7 million, 80 s |
| `csolver_live` | watchers go home or end with the next mint; stale and expired searches end | 88k, 105 s |
| `csolver_exited` (violation) | `solve` can lose the winning nonce to a late reader | |
| `scripts` | `Bot`, `GpuHunter`, `Continuous` implement `MintRace`, with their own promises; `TxPath` | 840k, 70 s |
| `scripts_live` | no turn of `Hunter` or of the three hangs; the bot ends | 42k, 45 s |
| `bot_drops` (violation) | `bot.py` drops solutions that are still good | |
| `continuous_stops` (violation) | the continuous hunter may mine on after its first cat | |
| `searchers` | four searches implement `NonceSearch`; `solve` returns | 276k, 50 s |
| `keccak_reports` (violation) | a RATE line per hash from the 4194304th hash on | |
| `watcher` | announcements, counts, recovery; the CSV's report; rate and trend; the sample | 1.2 million, 135 s |

Each of `MCScripts`, `MCSearchers` and `MCMonitors` starts one of several programs that
share no state, and holds the variables of the others constant. `Analyze` is instantiated
there with one node (`Rpcs <- {1}`). `Rpcs` is a constant and not defined from a number of
nodes, because TLC evaluates a constant definition once for all instances of a module.

**The disagreements.** Five runs check a sentence of a doc or a comment and find it
violated by what the code does (`PROJECT.json` quotes each):

1. `hunter.py:86` "if prevWork changed, our solution is dead": the comparison is followed
   by `pass`, and the loop polls on. The second simulation saves the gas.
2. `csolver.py:90` "all lanes exited (NONE)": a lane that printed `FOUND` and exited
   before its reader ran looks the same, the loop breaks, and `solve` returns `None`
   without joining the readers.
3. `bot.py:61` "our anchor may be stale": a solution is dropped as soon as one block
   passed, though the contract accepts its anchor for 250. With searches longer than a
   block the bot never gets as far as a simulation.
4. The set-up guide for GPU servers, line 46: the program stops as soon as it has a cat.
   An exception after the broadcast leads back into the loop of the continuous hunter.
5. `keccak_miner.c:132` "~4M": the report period is compared with a count that is never
   reset, so from then on every hash reads the clock and flushes a line.

Others have no run of their own; the models contain them, as paths or as the exception
that a property has to make:

- `chain.py:68` "One consistent read of everything the miner needs": the reads are
  separate RPCs. It is harmless in the order they are made, which is what
  `LiveSolutionMeetsTarget` shows: swap `prevWork` and `target` and it fails.
- `csolver.py:25` "Returns (nonce or None, ...)": the sum over `rate_seen` runs beside the
  threads that fill it and may raise with the nonce in hand (`SumRaces`).
- `hunter.py:134` "prevWork changed (someone minted)": also said when every lane had exited,
  or a `FOUND` was lost, and nobody minted (`exhausted` in `PowSearch`).
- `gpu/gpu_hunter.py:9` "It prints FOUND <nonce> or NONE": `keccak_cuda.cu:209` prints NONE
  after launches that were refused, too, of nonces nobody hashed (`skipped`).
- `hunter.py:22` "never sends unless ... the wallet holds enough": the gas price is read
  once for the check and once more for the transaction (the consequent of
  `FundsStillThere`). `README.md:216`, the same of the bot: its check lacks the quarter of
  gas that `send` adds. In both cases the node refuses, and what is lost is the solution.
- `bot.py:120` "seconds to spend per mining attempt": with a worker killed, or
  interrupted outside its `try`, for ever (the exception in `SolveReturns`).
- `watcher.py:98` "new mints since last poll": `last_total` follows a lagging node down
  (the premise of `MintsCountedOnce`, as of `EachMintOnce` for `feasibility.py`).
- `analyze.py:6` "whether we ever hit an actionable level": not in a CSV that a crash left
  without its header, which no later start repairs (the premise of `OpenRowIsReported`).
- `watcher.py:15` "APPROACHING: ... and trending down": the trend is not looked at, and a
  window that closes is announced as one that approaches.
- `watcher.py:105` "rolling mints/min": mints that one poll sees share a moment, and with
  no others the span is 0 and the rate 0.0. `feasibility.py:2` "the REAL mint rate": the
  same, with a probability of 1.0 for a quiet window as its consequence.

**Bounds, and why they are enough.**

- *Chain.* `EpochSize = 1` makes every mint change price and difficulty, so that any two
  moments a script could mix up differ in all it reads. Two rival mints (one in
  `scripts`) put a mint into every gap of a hunt and of the one after it. `MaxBurst = 1`
  lets the difficulty cool between two mints. `AnchorWindow = 0` and `MaxBlock = 1` let
  an anchor age. Balances 110 and 320 are too little for, and enough for, the mint;
  `TopUpAmount` crosses the line. Two gas prices, one twice the other, make a bid
  sufficient or not, and a replacement admissible or not. `MaxSent = 2` is the number of
  transactions a second cat takes.
- *Solver.* Two lanes and two hunts: the properties relate a hunt to the one before it
  and a lane to another. The liveness run has one lane, since none of its properties
  relates two.
- *Searches.* Two workers, threads or lanes, and two batches or launches of two nonces
  each. Every subset of the nonces may win. One worker may be signalled: two are no worse
  for the parent, which only counts messages. `Miner` has four nonces and two comparisons.
- *Watcher.* Two nodes, three levels, two mints, and three troubles (a kill, a node
  going down or up, a call that fails though it could have worked) in any order. Reads
  that fail because the node is down are not bounded. `Analyze` needs no second node and
  no mints; it has two rows, and difficulties on and beside both thresholds.
- *Statistics.* `PollStats` has seven polls, two more than a trend needs, a window of two,
  two mints per poll, a node that is one mint behind, and two polls that fail or read too
  little, so that a total can go back and be late again; `EventsLen` holds a window's
  mints with nothing to spare. `Feasibility` has four moments and four mints.
- *Liveness of the scripts.* One mint of a rival and one transaction, which the chain may
  execute, refuse for its gas price, or forget.

The searches stop when they have an answer or meet their bound, so `searchers` does not
look for deadlocks. All other specifications say where they may stop (`Halted`,
`Finished`, `Over`), and TLC looks for deadlocks everywhere else.

## Fairness

- `MCScripts` (`scripts_live`): weak fairness of the steps of whichever script runs. RPCs
  have timeouts, the receipt has one (120 or 180 s), the search has a budget, a slice the
  time limit of the CUDA program; that `solver_mp.solve` comes back is `SolveReturns`,
  which excludes a worker that is killed or interrupted outside its `try`. Nothing is
  assumed of the chain or of the owner, and not that anything ever succeeds. `BotGivesUp` has its only assumption on the chain
  in its formula: that the window stays open.
- `CSolver`: weak fairness of the main thread, the watchers and the readers; strong
  fairness of a watcher's successful poll, because one that is repeated for ever
  succeeds some time. Nothing is assumed of the lanes or of the budget:
  `ExpiredSearchEnds` does not need them.
- `MCSearchers`: weak fairness of the workers, of the parent, and of the deadline (`bot.py`
  always passes a time limit). Signals are never fair.
- `MCMonitors`: for the watcher alone, weak fairness of the process together with the
  script that restarts it. Troubles are bounded, so they end; a node that is down stays a
  reason to fail.

## Proofs

Eight modules of proofs, for every value of the constants. Where TLC runs one of several
programs (`MCScripts`, `MCSearchers`, `MCMonitors`), the theorems are about the same
specification as the run, and the invariant says of each program what holds while it is
the one that runs.

**Assumptions**, all of them evaluated by TLC in the runs: `ChainAssumption` (the chain's
constants are naturals, an epoch is not empty), `HunterAssumption`, `ScriptsAssumption`
(limits are naturals), `SolverAssumption`, `SearchersAssumption` (at least one lane,
worker or thread), `WatcherAssumption`, and `MonitorsAssumption`. The last one says one
thing beyond types: `EventsLen >= MintsPerPoll * (Window + 1)`. The watcher's queue of
mint moments has 200 places and its window is 15 polls of 8 seconds; with more than a
dozen mints in every poll the queue would drop moments of the window, and the rate would
be too low.

**`HashcatsProofs`**: lemmas about the contract and the mempool that the others share. The
three that matter: between two mints the difficulty only cools (`WinningKept`), a call
succeeds only for the price and `prevWork` of one moment (`CallProvesPrice`), and what
is executed costs no more than was checked (`GasCostBound`).

**`RaceProofs`** proves three properties of `MintRace` itself, so that whatever implements
it inherits them: `RaceOneInFlight`, `RaceRevertsExplained`, `RaceDryRunSafe`. The
invariant `RaceInv`: every waiting transaction carries the executed count as its nonce
and pays for a cat that is still to be had as long as no mint came (`PoolSound`), there
is one at most, and no transaction both minted and reverted (`DecidedOnce`).

**`HunterProofs`**:

- `HunterTypeCorrect`: `TypeOK`. The only step that is not bookkeeping is that a balance
  never becomes negative, because execution requires the up-front cost.
- `LiveSolutionSafe`, by `SearchInv`: once `prevWork` is read, `Winning(prevWork, target)`
  holds of the snapshot and then of the solution. `LiveSolutionMeetsTarget` alone is not
  inductive: it says nothing of the moment between the read of the target and the search.
- `PaymentSafe`, `OneInFlightSafe`, `RevertsExplained`, by `PayInv` and `PoolInv`: what
  `RaceInv` says, established by the simulation.
- `SecondCatExplained`, `DoneMeansCat`, by `CatInv`: as long as no outcome was lost, one
  transaction at most has minted or still may, and it is the one whose receipt is awaited.
- `CheckedFundsStay`, by `FundsInv`: from the check to the broadcast the balance is not
  below `need`, because by `CatInv` no transaction of ours is in the mempool then, and
  nothing else takes from the wallet.
- `DryRunSafe`, by `DryInv`: without `--send` no label beyond the dry-run exit is reached.
- `HunterImplementsRace`: the invariants together make every transaction handed over
  `Sound`, so each step of `Hunter` is a step of `MintRace` or leaves it alone.

**`ScriptsProofs`**, on `MCScripts`. The bot and the GPU hunters differ in control and not
in what a step can do to the chain. `MintingStep` says what that is, once: the chain
moves, a price is read, a call passes or fails, a count is read, a transaction is handed
over, its outcome comes or is lost. `BotKind`, `GpuKind` and `ContKind` show that every
step of a script is one of these, and the invariants are proved of `MintingStep` alone.

- `ScriptTypesCorrect`, `ScriptsImplementRace`: by `MintInv`, a script that has passed its
  simulation holds a solution and a price of one moment, is past `--send`, and has read
  an account nonce that is not beyond the executed count.
- `ScriptsOneInFlight`, `ScriptsRevertsExplained`, `ScriptsDryRunSafe`: by that refinement,
  from the lemmas of `RaceProofs`.
- `BotSendsOnce`: nothing but the end follows a broadcast, with an answer or without.
- `ContinuousPaysWhatItChecked`, by `FundsInv`: the gas price that was checked is the one
  that is bid.
- `SecondCatNeedsLostOutcome`, by the `CatInv` of the two GPU hunters.
- `PathVerdictsSafe`, by `PathInv`: the price never falls, so the price that was read is
  never above the one that stands. The first call is refused for its payment only after a
  mint, and the second, which pays too little on purpose, for nothing but its payment.

**`CSolverProofs`**, for any number of lanes and hunts: `SolverTypeCorrect`;
`AbortsAreJustified` and `SolverImplementsSearch` by `SolverInv` (a watcher about to set
its event, and a set event of the current hunt, mean that `prevWork` has moved; what a
reader finds is of its own hunt) with `ReasonInv` (a loop left for the event means that
`prevWork` has moved, one left for the time that the budget is over, one left for a nonce
that there is one: so an early answer without a nonce is of a search that was stopped or
exhausted); `NoLaneOutlivesItsSearch` by `LaneInv`.

**`SearchersProofs`**, on `MCSearchers`, for any number of workers, threads and lanes, any
batch and any range. Each search has its invariant, and `SearcherInv` is the four
together:

- `CudaInv`: as long as the flag is down nobody has won, and what was hashed is the whole
  range before the cursor but for the slices of refused launches (`skipped`), with the
  part of the slice that is behind the threads (`Behind`); when the flag is up, the
  winner's nonce is in the slot or about to be stored. It gives `GapsOfNone`.
  `OnlyRefusedLaunchesLeaveGaps` alone says nothing before the end; that the threads'
  lanes tile a slice is the step that arithmetic has to do.
- `MpInv`: `MpLanes` holds whatever happens to the workers: a found message holds a winner
  that was hashed, and a worker's nonce has its residue. `MpCounts` holds only as long as
  nobody was signalled: a worker has one message at most, with the count of its lane, and
  the parent's sum with the messages that are still queued is what was hashed. It gives
  `TotalsAreTrue`. The split is needed: an interrupted worker may put two messages.
- `KeccakInv`: a lane's nonce is its first one plus `NLanes` times its count; a winner
  that was hashed is reported, or belongs to a lane that is about to, or that was killed.
- `MinerInv`: what was hashed is the range before `next`. It gives `MinerVerdictsTrue`.
- `SearchersImplementSearch`: every step of each of the four is a step of `NonceSearch` or
  leaves it alone.
- `NoNonceTwice`: whoever is about to hash has a nonce nobody hashed. A run of the
  refinement cannot tell: to hash a nonce twice would be a stuttering step.
  `KeccakFresh` and `CudaFresh` are the strengthening.

**`AnalyzeProofs`** and **`MonitorsProofs`**, the latter on `MCMonitors`:

- `WatcherTyped` is `TypeOK` with `LevelKnown`: the level that the state file gets is that
  of the poll's read. `TypeOK` without it is not inductive.
- `AnnouncementsSafe`, by `AnnouncedInv`: the process remembers OPEN only when the row that
  is recorded is OPEN, or is still to come, or a poll failed behind it; and at the row of
  an OPEN poll the announcement is in the log.
- `CountsSafe`, by `CountInv`: what was counted is at most what lies between the first
  total read and the last.
- `ReportsSafe` and `OpenRowsSafe`, by `AnalyzeInv`: every row has the level that belongs to
  its bits, the header comes before any row unless it was lost, and the latest report
  showed no more than the next one would.
- `StatsSafe`, by `StatsInv`: no more than `MintsPerPoll` mints at a moment (`CrowdInv`), so
  the queue holds a window's. `QueueInv` says what the queue is: its last place belongs to
  the last mint that was seen, and each place before it to the mint before; each is noted
  no earlier than it was minted and, unless a total went back, no later than as many polls
  as were late (`Noted`); there are as many as were seen since the first good poll
  (`Seen`), or the queue is full; and a mint that was not seen yet is that new. Without the
  last part a late poll could let a mint slip out of its window unseen. From it follow both
  halves of the rate: the recent places are an end of the queue (`RecentIsTheEnd`), which
  covers the window's mints, and its first place is as old as its mint up to `late`
  (`SpanIsRight`). For the trend, between any two samples of the burst, and since each of
  them, it rose only if there was a mint and fell only if there was a quiet moment
  (`BurstInv`). The trend compares two samples; that it has a cause follows only because
  this holds of every pair.
- `SampleSafe`, by `SampleInv`: the moments have passed and are in order, so that no gap is
  negative and none is longer than the span; a later place in the order of the gaps is no
  smaller (`RankedInOrder`, by counting).
- `MonitorTypesCorrect`: the types of all four.

Every inductive invariant was first checked by TLC on the bounds of the runs.

Parts of the models are written with the proofs in mind. `Ranked`, `CountOf` and `RateOf`
count places by `Cardinality` and do not recurse or sort; `PollStats` keeps the moments
of all mints in their order, and its queue is compared with them place by place.

## What is only model-checked, what is not modelled

Every safety invariant of a passing run, every action property and every refinement is a
theorem. Only model-checked, with the reason:

- *All liveness*: `NoTurnHangs`, `BotGivesUp`, `WatchersGoHome`, `LeftWatchersEnd`,
  `StaleSearchAborts`, `ExpiredSearchEnds`, `SolveReturns`, `GoesOnRecording`. They rest on
  fairness, whose proofs need `ENABLED`, which the provers do not handle.
- *The five violations*: a counterexample is TLC's to find.

Not modelled, and why:

- Keccak-256 itself and the byte layout of the preimage: a bit-level permutation that the
  repository checks against test vectors.
- Wrap-around of 64-bit nonces, and the overlap of the ranges of successive slices
  (`gpu_hunter.py:97`): they waste work and falsify nothing.
- The kill of `hunter.py` in the middle of a search, whose lanes hash on to their own time
  limit: nothing but the cores is shared with them.
- `Hunter` with `CSolver` in place of its single search step: `PowSearch` stands between
  them, and the product of the two is beyond TLC at useful bounds.
- The averages, histograms and probabilities that `analyze.py` and `feasibility.py` print,
  and the watcher's gap and estimate: nothing is decided by them.
- A line of the CSV that `analyze.py` reads half written, where its `except` passes over
  it, and a torn row that a failed write leaves for good.
- A node that connects but fails every batch: `Watcher` reconnects to the first node that
  connects, so it would stay with such a node for ever. `GoesOnRecording` is about nodes
  that are up or down.
- The microseconds between the mints of one read in `feasibility.py:26`, which asks for the
  time once per mint: `Feasibility` gives them one moment, so a gap that is 0 there is tiny
  in the program.
- `miner.benchmark`, which nothing calls; the `verify_kernel` programs; the set-up of a GPU
  server: they keep no state.
- Reading the wallet file, printing, formatting.

## Plan

Modelling is complete as planned, and every safety property that a run checks is proved.
What is left:

1. `PowSearch` and `NonceSearch` proved about themselves, as `MintRace` is: what an answer
   means for the caller, so that `CSolver` and the four searches inherit it by their
   refinements.
2. The conditions under which the five disagreements do not happen, as theorems where they
   are safety: `solve` loses no nonce if every reader has run when the loop breaks; the
   continuous hunter stops after its first cat if no outcome was lost.
3. `OneInFlight` and `RevertOnlyIfOvertaken` of `Hunter` from `RaceProofs` by its
   refinement, in place of the proofs of its own.
4. What a script spends in all: the sum of the gas burnt and of the prices paid, from
   `OneInFlight` and `RevertOnlyIfOvertaken`.
