----------------------------- MODULE MCSearchers -----------------------------
(***************************************************************************)
(* The four searches over nonces, one of which is started: each of them    *)
(* implements NonceSearch.                                                 *)
(***************************************************************************)
EXTENDS Naturals, FiniteSets

CONSTANTS
    NWorkers, Check, MaxBatches,        \* solver_mp.py
    MaxSignals,
    NThreads, Iters, MaxLaunches,       \* keccak_cuda.cu
    NLanes, Report, MaxHashes,          \* keccak_miner.c
    Count, Checks                       \* miner.py, verify_correctness.py

ASSUME SearchersAssumption ==
    /\ {NWorkers, Check, NThreads, NLanes} \subseteq Nat \ {0}
    /\ {MaxBatches, MaxSignals, Iters, MaxLaunches} \subseteq Nat
    /\ {Report, MaxHashes, Count, Checks} \subseteq Nat

VARIABLES
    search,                             \* which one was started
    wins, tried, expired,
    flag, worker, signalled, queue, parent, remaining, result, total,
    slot, thread, cursor, host, printed, skipped,
    lane, nonce, count, reports, said,
    agrees, at, ok, checked, next, hashes, got

M == INSTANCE SolverMp
D == INSTANCE CudaMiner
K == INSTANCE KeccakMiner
P == INSTANCE Miner

mpOnly     == <<worker, signalled, queue, parent, remaining, result, total>>
cudaOnly   == <<slot, thread, cursor, host, printed, skipped>>
keccakOnly == <<lane, nonce, count, reports, said>>
minerOnly  == <<agrees, at, ok, checked, next, hashes, got>>

vars == <<search, wins, tried, expired, flag, mpOnly, cudaOnly, keccakOnly, minerOnly>>

Is(s) == search = s

Unused ==
    /\ ~Is("mp") => /\ worker = 0 /\ signalled = 0 /\ queue = 0 /\ parent = "none"
                    /\ remaining = 0 /\ result = 0 /\ total = 0
    /\ ~Is("cuda") => /\ slot = 0 /\ thread = 0 /\ cursor = 0
                      /\ host = "none" /\ printed = 0 /\ skipped = 0
    /\ ~Is("keccak") => /\ lane = 0 /\ nonce = 0 /\ count = 0
                        /\ reports = 0 /\ said = 0
    /\ ~Is("miner") => /\ agrees = {} /\ at = "none" /\ ok = FALSE /\ checked = 0
                       /\ next = 0 /\ hashes = 0 /\ got = {}
    /\ search \in {"keccak", "miner"} => flag = FALSE
    /\ Is("miner") => expired = FALSE

Init ==
    /\ \/ search = "mp" /\ M!Init
       \/ search = "cuda" /\ D!Init
       \/ search = "keccak" /\ K!Init
       \/ search = "miner" /\ P!Init
    /\ Unused

Next ==
    /\ \/ Is("mp") /\ M!Next /\ UNCHANGED <<cudaOnly, keccakOnly, minerOnly>>
       \/ Is("cuda") /\ D!Next /\ UNCHANGED <<mpOnly, keccakOnly, minerOnly>>
       \/ Is("keccak") /\ K!Next /\ UNCHANGED <<flag, mpOnly, cudaOnly, minerOnly>>
       \/ Is("miner") /\ P!Next /\ UNCHANGED <<flag, expired, mpOnly, cudaOnly, keccakOnly>>
    /\ UNCHANGED search

MpStep(A) == Is("mp") /\ A /\ UNCHANGED <<search, cudaOnly, keccakOnly, minerOnly>>

\* solver_mp's processes are scheduled, and its time limit passes.
Spec ==
    /\ Init /\ [][Next]_vars
    /\ \A i \in M!Workers : WF_vars(MpStep(M!WorkerStep(i)))
    /\ WF_vars(MpStep(M!ParentStep))
    /\ WF_vars(MpStep(M!Expire))

-----------------------------------------------------------------------------
\* Type invariants of the search that runs.
TypeOK ==
    /\ Is("mp") => M!TypeOK
    /\ Is("cuda") => D!TypeOK
    /\ Is("keccak") => K!TypeOK
    /\ Is("miner") => P!TypeOK

Search == INSTANCE NonceSearch WITH
    Nonces <- M!Nonces \cup D!Nonces \cup K!Nonces \cup P!Nonces,
    found  <- CASE Is("mp") -> result [] Is("cuda") -> printed
                [] Is("keccak") -> said [] OTHER -> got,
    over   <- CASE Is("mp") -> M!HowEnded [] Is("cuda") -> D!HowEnded
                [] Is("keccak") -> K!HowEnded [] OTHER -> P!HowEnded

\* Whichever search runs hashes nonces of its range only, hands over only winners
\* it hashed, and does not end with one kept back.
ImplementsSearch == Search!Spec

\* What solver_mp reports as hashes is what its workers hashed.
TotalIsTried == Is("mp") => M!TotalIsTried

\* The flag and the deadline reach every worker, and every worker's message, an
\* interrupted one's too, reaches the parent: as long as no worker is killed, or
\* interrupted outside its try, solve comes to an end.
SolveReturns ==
    <>(Is("mp") => parent \in {"returned", "dead"}
                   \/ \E i \in M!Workers : worker[i].at \in {"cut", "killed"})

\* The CUDA miner's NONE is said of a range whose only gaps are the slices of
\* launches the device refused, which the host does not notice.
OnlyRefusedLaunchesLeaveGaps == Is("cuda") => D!OnlyRefusedLaunchesLeaveGaps

\* miner.py's None is said of a range that was hashed whole, its count is what
\* was hashed, and verify_correctness.py passes only a nonce that the contract
\* accepts.
MinerVerdictsHold == Is("miner") => P!RangeIsSearched /\ P!PassedMeansAccepted
=============================================================================
