--------------------------- MODULE SearchersProofs ---------------------------
(***************************************************************************)
(* The four searches over nonces, for any number of workers, threads and   *)
(* lanes: their types, what their verdicts and counts are worth, and that  *)
(* each of them implements NonceSearch.                                    *)
(***************************************************************************)
EXTENDS MCSearchers, Integers, FiniteSetTheorems, TLAPS

\* The constants one by one.
LEMMA Numbers ==
    /\ NWorkers \in Nat /\ NWorkers > 0 /\ Check \in Nat /\ Check > 0
    /\ NThreads \in Nat /\ NThreads > 0 /\ NLanes \in Nat /\ NLanes > 0
    /\ MaxBatches \in Nat /\ MaxSignals \in Nat /\ Iters \in Nat /\ MaxLaunches \in Nat
    /\ Report \in Nat /\ MaxHashes \in Nat /\ Count \in Nat /\ Checks \in Nat
BY SearchersAssumption DEF SearchersAssumption

-----------------------------------------------------------------------------
(* miner.py and verify_correctness.py.                                     *)

\* What was hashed is the range before next, with next when it won.
MinerInv ==
    /\ P!TypeOK
    /\ at \in {"check", "mismatch"} => next = 0 /\ tried = {} /\ hashes = 0 /\ got = {}
    /\ at \in {"search", "none"} =>
          tried = 0..(next - 1) /\ tried \cap wins = {} /\ hashes = next /\ got = {}
    /\ at = "none" => next = Count
    /\ at \notin {"check", "mismatch", "search", "none", "crashed"} =>
          next < Count /\ tried = 0..next /\ next \in wins /\ hashes = next + 1
    /\ at = "crashed" => hashes = Cardinality(tried)
    /\ at = "won" => got = {}
    /\ at \in {"verify", "passed", "wrong"} => got = {next}
    /\ at = "passed" => got \subseteq wins \cap agrees
    /\ at \notin {"check", "mismatch", "crashed"} => ok

LEMMA MinerInvInit == ASSUME P!Init PROVE MinerInv
BY Numbers DEF P!Init, MinerInv, P!TypeOK

\* How many numbers a range has.
LEMMA RangeSize ==
    ASSUME NEW n \in Nat
    PROVE  /\ IsFiniteSet(0..(n - 1)) /\ Cardinality(0..(n - 1)) = n
           /\ IsFiniteSet(0..n) /\ Cardinality(0..n) = n + 1
<1>1. 0 \in Int /\ n \in Int /\ n - 1 \in Int /\ ~(0 > n)
  OBVIOUS
<1>2. IsFiniteSet(0..n) /\ Cardinality(0..n) = n - 0 + 1
  BY <1>1, FS_Interval
<1>3. /\ IsFiniteSet(0..(n - 1))
      /\ Cardinality(0..(n - 1)) = IF 0 > n - 1 THEN 0 ELSE (n - 1) - 0 + 1
  BY <1>1, FS_Interval
<1> QED BY <1>2, <1>3

LEMMA MinerInvStep == ASSUME MinerInv, P!Next PROVE MinerInv'
<1> USE DEF P!Goto, P!Nonces
<1>0. P!TypeOK /\ next \in Nat /\ hashes \in Nat /\ Count \in Nat /\ Checks \in Nat
  BY Numbers DEF MinerInv, P!TypeOK
<1>1. CASE P!Compare
  BY <1>0, <1>1 DEF P!Compare, MinerInv, P!TypeOK
<1>2. CASE P!AssertMatch
  BY <1>0, <1>2 DEF P!AssertMatch, MinerInv, P!TypeOK
<1>3. CASE P!Hash
  BY <1>0, <1>3 DEF P!Hash, P!InRange, P!CountHash, MinerInv, P!TypeOK
<1>4. CASE P!ReturnNonce
  BY <1>0, <1>4 DEF P!ReturnNonce, MinerInv, P!TypeOK
<1>5. CASE P!ReturnNone
  BY <1>0, <1>5 DEF P!ReturnNone, P!InRange, MinerInv, P!TypeOK
<1>6. CASE P!Verify
  BY <1>0, <1>6 DEF P!Verify, MinerInv, P!TypeOK
<1>7. CASE P!Crash
  BY <1>0, <1>7, RangeSize, FS_EmptySet DEF P!Crash, MinerInv, P!TypeOK
<1> QED BY <1>1, <1>2, <1>3, <1>4, <1>5, <1>6, <1>7 DEF P!Next

\* None is said of the whole range, the count is right, and what passed is accepted.
LEMMA MinerVerdicts == ASSUME MinerInv PROVE P!RangeIsSearched /\ P!PassedMeansAccepted
<1>0. next \in Nat /\ Count \in Nat /\ at \in {"check", "mismatch", "search", "won", "verify",
         "none", "passed", "wrong", "crashed"}
  BY Numbers DEF MinerInv, P!TypeOK
<1>1. at = "none" => tried = P!Nonces
  BY DEF MinerInv, P!Nonces
<1>2. at # "search" => hashes = Cardinality(tried)
  BY <1>0, RangeSize, FS_EmptySet DEF MinerInv
<1>3. P!PassedMeansAccepted
  BY <1>0 DEF MinerInv, P!PassedMeansAccepted
<1>4. P!Cardinality(tried) = Cardinality(tried)
  BY DEF P!Cardinality, Cardinality
<1> QED BY <1>1, <1>2, <1>3, <1>4 DEF P!RangeIsSearched

-----------------------------------------------------------------------------
(* keccak_miner.c's lanes.                                                 *)

\* Every lane is on a nonce of its own; a winner was hashed by a lane that is
\* about to say it, unless the FOUND line is out or csolver killed the lane.
KeccakInv ==
    /\ K!TypeOK
    /\ \A i \in K!Lanes : nonce[i] = i + NLanes * count[i]
    /\ \A i \in K!Lanes : reports[i] <= count[i]
                          /\ (lane[i] = "report" => reports[i] < count[i])
    /\ \A i \in K!Lanes : lane[i] = "won" => nonce[i] \in tried \cap wins
    /\ \A i \in K!Lanes : lane[i] \in {"said", "FOUND"} => said # {}
    /\ said # {} \/ \A n \in tried \cap wins : \E i \in K!Lanes :
          nonce[i] = n /\ lane[i] \in {"won", "killed"}

LEMMA KeccakInvInit == ASSUME K!Init PROVE KeccakInv
<1>1. wins \subseteq K!Nonces /\ tried = {} /\ said = {} /\ expired = FALSE
  BY DEF K!Init
<1>2. \A i \in K!Lanes : i \in Nat
  BY DEF K!Lanes
<1>3. /\ lane = [i \in K!Lanes |-> "hash"] /\ nonce = [i \in K!Lanes |-> i]
      /\ count = [i \in K!Lanes |-> 0] /\ reports = [i \in K!Lanes |-> 0]
  BY DEF K!Init
<1>4. K!TypeOK
  <2>1. nonce \in [K!Lanes -> Nat]
    BY <1>2, <1>3
  <2>2. count \in [K!Lanes -> 0..MaxHashes] /\ reports \in [K!Lanes -> 0..MaxHashes]
    BY <1>3, Numbers
  <2>3. lane \in [K!Lanes -> {"hash", "won", "said", "report", "FOUND", "NONE", "killed"}]
    BY <1>3
  <2> QED BY <1>1, <2>1, <2>2, <2>3 DEF K!TypeOK
<1>5. \A i \in K!Lanes : nonce[i] = i + NLanes * count[i]
  BY <1>2, <1>3, Numbers
<1> QED BY <1>1, <1>3, <1>4, <1>5 DEF KeccakInv

\* The nonce of a lane within its bound is one of the range.
LEMMA LaneNonce ==
    ASSUME NEW n \in Nat, n > 0, NEW max \in Nat, NEW i \in 0..(n - 1), NEW c \in 0..max, c < max
    PROVE  i + n * c \in 0..(n * max - 1)
<1>1. n * (c + 1) <= n * max
  OBVIOUS
<1>2. n * (c + 1) = n * c + n
  OBVIOUS
<1>3. n * c \in Nat /\ n * max \in Nat
  OBVIOUS
<1> QED BY <1>1, <1>2, <1>3

LEMMA KeccakInvStep == ASSUME KeccakInv, K!Next PROVE KeccakInv'
<1>0. /\ K!TypeOK /\ NLanes \in Nat /\ MaxHashes \in Nat
      /\ \A i \in K!Lanes : nonce[i] \in Nat /\ count[i] \in Nat /\ reports[i] \in Nat /\ i \in Nat
  <2>1. K!TypeOK /\ NLanes \in Nat /\ MaxHashes \in Nat
    BY Numbers DEF KeccakInv
  <2>2. /\ nonce \in [K!Lanes -> Nat] /\ count \in [K!Lanes -> 0..MaxHashes]
        /\ reports \in [K!Lanes -> 0..MaxHashes]
    BY <2>1 DEF K!TypeOK
  <2>3. \A i \in K!Lanes : i \in Nat
    BY <2>1 DEF K!Lanes
  <2> QED BY <2>1, <2>2, <2>3
<1>1. ASSUME NEW i \in K!Lanes, K!Win(i) PROVE KeccakInv'
  <2>1. nonce[i] \in K!Nonces
    BY <1>0, <1>1, Numbers, LaneNonce DEF KeccakInv, K!TypeOK, K!Win, K!Hashing, K!Nonces, K!Lanes
  <2>2. K!TypeOK'
    BY <1>0, <1>1, <2>1 DEF K!TypeOK, K!Win, K!Hashing, K!LaneGoes
  <2> QED BY <1>0, <1>1, <2>2 DEF KeccakInv, K!TypeOK, K!Win, K!Hashing, K!LaneGoes
<1>2. ASSUME NEW i \in K!Lanes, K!Say(i) PROVE KeccakInv'
  <2>1. K!TypeOK'
    BY <1>0, <1>2 DEF KeccakInv, K!TypeOK, K!Say, K!LaneGoes
  <2> QED BY <1>0, <1>2, <2>1 DEF KeccakInv, K!TypeOK, K!Say, K!LaneGoes
<1>3. ASSUME NEW i \in K!Lanes, K!Exit(i) PROVE KeccakInv'
  <2>1. K!TypeOK'
    BY <1>0, <1>3 DEF KeccakInv, K!TypeOK, K!Exit, K!LaneGoes
  <2> QED BY <1>0, <1>3, <2>1 DEF KeccakInv, K!TypeOK, K!Exit, K!LaneGoes
<1>4. ASSUME NEW i \in K!Lanes, K!Miss(i) PROVE KeccakInv'
  <2>1. nonce[i] \in K!Nonces
    <3>1. count[i] < MaxHashes /\ count[i] \in 0..MaxHashes /\ nonce[i] = i + NLanes * count[i]
      BY <1>0, <1>4 DEF KeccakInv, K!TypeOK, K!Miss, K!Hashing
    <3> QED BY <3>1, Numbers, LaneNonce DEF K!Nonces, K!Lanes
  <2>2. /\ nonce' = [nonce EXCEPT ![i] = nonce[i] + NLanes]
        /\ count' = [count EXCEPT ![i] = count[i] + 1]
        /\ tried' = tried \cup {nonce[i]} /\ nonce[i] \notin wins
        /\ count[i] < MaxHashes /\ lane[i] = "hash"
        /\ UNCHANGED <<wins, expired, reports, said>>
    BY <1>4 DEF K!Miss, K!Hashing, K!LaneGoes
  <2>3. lane' = [lane EXCEPT ![i] = "report"] \/ lane' = [lane EXCEPT ![i] = "hash"]
    BY <1>4 DEF K!Miss, K!LaneGoes
  <2>4. K!TypeOK'
    BY <1>0, <2>1, <2>2, <2>3 DEF K!TypeOK
  <2>5. \A j \in K!Lanes : nonce'[j] = j + NLanes * count'[j]
    <3>1. NLanes * (count[i] + 1) = NLanes * count[i] + NLanes /\ NLanes * count[i] \in Nat
      BY <1>0
    <3> QED BY <1>0, <2>2, <3>1 DEF KeccakInv, K!TypeOK
  <2>6. \A j \in K!Lanes : reports'[j] <= count'[j]
                          /\ (lane'[j] = "report" => reports'[j] < count'[j])
    BY <1>0, <2>2, <2>3 DEF KeccakInv, K!TypeOK
  <2>7. \A j \in K!Lanes : lane'[j] = "won" => nonce'[j] \in tried' \cap wins'
    BY <1>0, <2>2, <2>3 DEF KeccakInv, K!TypeOK
  <2>8. \A j \in K!Lanes : lane'[j] \in {"said", "FOUND"} => said' # {}
    BY <1>0, <2>2, <2>3 DEF KeccakInv, K!TypeOK
  <2>9. ASSUME said' = {}, NEW n \in tried' \cap wins'
        PROVE  \E j \in K!Lanes : nonce'[j] = n /\ lane'[j] \in {"won", "killed"}
    <3>1. n \in tried \cap wins /\ said = {}
      BY <2>2, <2>9
    <3>2. PICK j \in K!Lanes : nonce[j] = n /\ lane[j] \in {"won", "killed"}
      BY <3>1 DEF KeccakInv
    <3>3. j # i
      BY <2>2, <3>2
    <3> QED BY <1>0, <2>2, <2>3, <3>2, <3>3 DEF K!TypeOK
  <2> QED BY <2>4, <2>5, <2>6, <2>7, <2>8, <2>9 DEF KeccakInv
<1>5. ASSUME NEW i \in K!Lanes, K!Rate(i) PROVE KeccakInv'
  <2>2. /\ reports' = [reports EXCEPT ![i] = reports[i] + 1] /\ lane[i] = "report"
        /\ UNCHANGED <<wins, tried, expired, nonce, count, said>>
        /\ lane' = [lane EXCEPT ![i] = "NONE"] \/ lane' = [lane EXCEPT ![i] = "hash"]
    BY <1>5 DEF K!Rate, K!LaneGoes
  <2>3. reports[i] < count[i] /\ count[i] \in 0..MaxHashes
    BY <2>2 DEF KeccakInv, K!TypeOK
  <2>4. K!TypeOK'
    BY <1>0, <2>2, <2>3 DEF K!TypeOK
  <2> QED BY <1>0, <2>2, <2>3, <2>4 DEF KeccakInv, K!TypeOK
<1>6. ASSUME NEW i \in K!Lanes, K!Terminated(i) PROVE KeccakInv'
  <2>1. K!TypeOK'
    BY <1>0, <1>6 DEF KeccakInv, K!TypeOK, K!Terminated
  <2> QED BY <1>0, <1>6, <2>1 DEF KeccakInv, K!TypeOK, K!Terminated
<1>7. CASE K!Expire
  BY <1>0, <1>7 DEF KeccakInv, K!TypeOK, K!Expire
<1> QED BY <1>1, <1>2, <1>3, <1>4, <1>5, <1>6, <1>7 DEF K!Next, K!LaneStep

-----------------------------------------------------------------------------
(* keccak_cuda.cu's kernel and its host.                                   *)

Slice == NThreads * Iters

\* The first n nonces of thread t in the slice that starts at c, and all threads'.
Lane(c, t, n) == {c + t + k * NThreads : k \in 0..(n - 1)}
Behind == UNION {Lane(cursor, t, thread[t].it) : t \in D!Threads}

\* Before the slice every nonce was hashed or skipped.  As long as the flag is down
\* nobody won, and the nonces behind the threads are what was hashed of this
\* slice; when it is up the winner's nonce is in the slot or about to be stored.
CudaInv ==
    /\ D!TypeOK
    /\ \E c \in 0..MaxLaunches : cursor = c * Slice
    /\ ~flag => tried \cap wins = {}
    /\ host = "launch" => ~flag
    /\ host = "sync" => cursor < D!Garbage
    /\ host # "sync" => D!KernelOver
    /\ skipped \subseteq 0..(cursor - 1)
    /\ host \in {"launch", "NONE"} => tried = (0..(cursor - 1)) \ skipped
    /\ host = "sync" /\ ~flag => tried = ((0..(cursor - 1)) \ skipped) \cup Behind
    /\ \A t \in D!Threads :
          /\ thread[t].at \in {"look", "hash"} => thread[t].it < Iters
          /\ host = "sync" /\ ~flag /\ thread[t].at = "out" => thread[t].it = Iters
          /\ thread[t].at = "store" => flag /\ D!NonceOf(t) \in tried \cap wins
    /\ flag /\ host # "error" =>
          slot \in tried \cap wins \/ (\E t \in D!Threads : thread[t].at = "store")
    /\ host = "NONE" => ~flag
    /\ host \in {"launch", "sync", "NONE"} => printed = {}

LEMMA CudaNumbers ==
    /\ Slice \in Nat /\ D!Garbage = MaxLaunches * Slice /\ D!Garbage \in Nat
    /\ \A t \in D!Threads : t \in Nat /\ t < NThreads
<1>1. Slice \in Nat
  BY Numbers DEF Slice
<1>2. D!Garbage = Slice * MaxLaunches
  BY DEF D!Garbage, Slice
<1>3. Slice * MaxLaunches = MaxLaunches * Slice /\ MaxLaunches * Slice \in Nat
  BY <1>1, Numbers
<1>4. \A t \in D!Threads : t \in Nat /\ t < NThreads
  BY Numbers DEF D!Threads
<1> QED BY <1>1, <1>2, <1>3, <1>4

LEMMA CudaInvInit == ASSUME D!Init PROVE CudaInv
<1>1. /\ wins \subseteq D!Nonces /\ tried = {} /\ expired = FALSE /\ flag = FALSE
      /\ slot = D!Garbage /\ cursor = 0 /\ host = "launch" /\ printed = {}
      /\ skipped = {} /\ thread = [t \in D!Threads |-> [at |-> "out", it |-> 0]]
  BY DEF D!Init, D!Idle
<1>2. thread \in [D!Threads -> [at : {"look", "hash", "store", "out"}, it : 0..Iters]]
  BY <1>1, Numbers
<1>3. cursor \in 0..D!Garbage
  BY <1>1, CudaNumbers
<1>4. D!TypeOK
  BY <1>1, <1>2, <1>3 DEF D!TypeOK
<1>5. cursor = 0 * Slice /\ 0 \in 0..MaxLaunches
  BY <1>1, Numbers, CudaNumbers
<1>6. D!KernelOver
  BY <1>1 DEF D!KernelOver, D!At
<1> QED BY <1>1, <1>4, <1>5, <1>6, Numbers DEF CudaInv

\* A slice that begins within the range ends within it.
LEMMA SliceFits ==
    ASSUME NEW c \in 0..MaxLaunches, c * Slice < D!Garbage
    PROVE  c + 1 \in 0..MaxLaunches /\ c * Slice + Slice = (c + 1) * Slice
           /\ (c + 1) * Slice <= D!Garbage
<1>1. \A a, b, s \in Nat : (a >= b => a * s >= b * s) /\ b * s + s = (b + 1) * s
  OBVIOUS
<1>2. c \in Nat /\ MaxLaunches \in Nat /\ Slice \in Nat /\ c * Slice \in Nat
      /\ D!Garbage = MaxLaunches * Slice /\ D!Garbage \in Nat
  BY Numbers, CudaNumbers
<1>3. c < MaxLaunches
  BY <1>1, <1>2
<1> QED BY <1>1, <1>2, <1>3

\* Division with a remainder.
LEMMA Division ==
    ASSUME NEW m \in Nat, NEW n \in Nat, n > 0
    PROVE  /\ m % n \in 0..(n - 1) /\ m \div n \in Nat
           /\ m = (m % n) + (m \div n) * n
OBVIOUS

LEMMA QuotientBelow ==
    ASSUME NEW m \in Nat, NEW n \in Nat, n > 0, NEW b \in Nat, m < n * b
    PROVE  m \div n \in 0..(b - 1)
<1>1. \A q \in Nat : q >= b => q * n >= b * n
  OBVIOUS
<1>2. n * b = b * n /\ b * n \in Nat
  OBVIOUS
<1>3. m \div n \in Nat /\ (m \div n) * n <= m
  <2>1. (m \div n) * n \in Nat
    BY Division
  <2> QED BY <2>1, Division
<1>4. (m \div n) * n \in Nat
  BY <1>3
<1> QED BY <1>1, <1>2, <1>3, <1>4

\* The nonces of all threads make up the slice.
LEMMA SliceIsCovered ==
    ASSUME NEW c \in Nat
    PROVE  UNION {Lane(c, t, Iters) : t \in D!Threads} = c..(c + Slice - 1)
<1>0. NThreads \in Nat /\ NThreads > 0 /\ Iters \in Nat /\ Slice \in Nat
  BY Numbers, CudaNumbers
<1>1. ASSUME NEW t \in 0..(NThreads - 1), NEW k \in 0..(Iters - 1)
      PROVE  c + t + k * NThreads \in c..(c + Slice - 1)
  <2>1. t + NThreads * k \in 0..(Slice - 1)
    BY <1>0, LaneNonce DEF Slice
  <2>2. NThreads * k = k * NThreads /\ k * NThreads \in Nat /\ t \in Nat
    BY <1>0
  <2> QED BY <1>0, <2>1, <2>2
<1>2. ASSUME NEW x \in c..(c + Slice - 1)
      PROVE  \E t \in 0..(NThreads - 1), k \in 0..(Iters - 1) : x = c + t + k * NThreads
  <2>1. PICK m \in Nat : x = c + m /\ m < Slice
    BY <1>0, <1>2
  <2>2. m % NThreads \in 0..(NThreads - 1) /\ m = (m % NThreads) + (m \div NThreads) * NThreads
    BY <1>0, Division
  <2>3. m \div NThreads \in 0..(Iters - 1)
    BY <1>0, <2>1, QuotientBelow DEF Slice
  <2>4. (m \div NThreads) * NThreads \in Nat
    BY <1>0, <2>3
  <2>5. x = c + (m % NThreads) + (m \div NThreads) * NThreads
    BY <2>1, <2>2, <2>4
  <2> QED BY <2>2, <2>3, <2>5
<1>3. \A t \in D!Threads : Lane(c, t, Iters) \subseteq c..(c + Slice - 1)
  BY <1>1 DEF Lane, D!Threads
<1>4. \A x \in c..(c + Slice - 1) : \E t \in D!Threads : x \in Lane(c, t, Iters)
  BY <1>2 DEF Lane, D!Threads
<1> QED BY <1>3, <1>4

\* A thread that has a nonce to hash hashes one of the slice.
LEMMA ThreadNonce ==
    ASSUME CudaInv, host = "sync", NEW t \in D!Threads, thread[t].it < Iters
    PROVE  D!NonceOf(t) \in D!Nonces /\ D!NonceOf(t) \in Nat /\ D!NonceOf(t) >= cursor
<1>0. NThreads \in Nat /\ NThreads > 0 /\ Iters \in Nat /\ Slice \in Nat /\ D!Garbage \in Nat
      /\ cursor \in Nat /\ t \in 0..(NThreads - 1) /\ thread[t].it \in 0..Iters
  BY Numbers, CudaNumbers DEF CudaInv, D!TypeOK, D!Threads
<1>1. PICK c \in 0..MaxLaunches : cursor = c * Slice /\ c * Slice < D!Garbage
  BY DEF CudaInv
<1>2. cursor + Slice <= D!Garbage
  BY <1>1, SliceFits
<1>3. t + NThreads * thread[t].it \in 0..(Slice - 1)
  BY <1>0, LaneNonce DEF Slice
<1>4. NThreads * thread[t].it = thread[t].it * NThreads /\ thread[t].it * NThreads \in Nat
  BY <1>0
<1>5. D!NonceOf(t) = cursor + t + thread[t].it * NThreads
  BY DEF D!NonceOf
<1>6. D!NonceOf(t) \in 0..(D!Garbage - 1) /\ D!NonceOf(t) >= cursor
  BY <1>0, <1>2, <1>3, <1>4, <1>5
<1> QED BY <1>6 DEF D!Nonces, D!Garbage

\* One iteration more of a thread is one nonce more behind it.
LEMMA LaneGrows ==
    ASSUME NEW c \in Nat, NEW t \in Nat, NEW n \in Nat
    PROVE  Lane(c, t, n + 1) = Lane(c, t, n) \cup {c + t + n * NThreads}
<1>1. 0..(n + 1 - 1) = 0..(n - 1) \cup {n}
  OBVIOUS
<1> QED BY <1>1 DEF Lane

\* What a step of thread t leaves alone.
LEMMA KernelFrame ==
    ASSUME CudaInv, NEW t \in D!Threads, D!KernelStep(t)
    PROVE  /\ host = "sync" /\ thread[t].at # "out"
           /\ UNCHANGED <<wins, expired, cursor, host, printed, skipped>>
           /\ \A u \in D!Threads \ {t} : thread'[u] = thread[u]
<1>1. thread[t].at # "out"
  BY DEF D!KernelStep, D!Look, D!Hash, D!Store, D!At
<1>2. host = "sync"
  BY <1>1 DEF CudaInv, D!KernelOver, D!At
<1>3. \A u \in D!Threads \ {t} : thread'[u] = thread[u]
  BY DEF D!KernelStep, D!Look, D!Hash, D!Store, D!Misses, D!Beaten, CudaInv, D!TypeOK
<1> QED BY <1>1, <1>2, <1>3 DEF D!KernelStep, D!Look, D!Hash, D!Store, D!hostVars

LEMMA CudaThreadStep ==
    ASSUME CudaInv, NEW t \in D!Threads, D!KernelStep(t)
    PROVE  CudaInv'
<1>0. /\ host = "sync" /\ UNCHANGED <<wins, expired, cursor, host, printed, skipped>>
      /\ \A u \in D!Threads \ {t} : thread'[u] = thread[u]
  BY KernelFrame
<1>1. /\ D!TypeOK /\ NThreads \in Nat /\ Iters \in Nat /\ cursor \in Nat
      /\ \A u \in D!Threads : u \in Nat /\ thread[u].it \in Nat /\ thread[u].it <= Iters
      /\ DOMAIN thread = D!Threads
  BY Numbers, CudaNumbers DEF CudaInv, D!TypeOK
<1>2. \A u \in D!Threads : thread'[u].it = thread[u].it => D!NonceOf(u)' = D!NonceOf(u)
  BY <1>0 DEF D!NonceOf
<1>3. (\A u \in D!Threads : thread'[u].it = thread[u].it) => Behind' = Behind
  BY <1>0 DEF Behind, Lane
<1>4. host' # "error" /\ host' \notin {"launch", "NONE"} /\ cursor' < D!Garbage
      /\ (\E c \in 0..MaxLaunches : cursor' = c * Slice) /\ printed' = {}
  BY <1>0 DEF CudaInv
<1>5. CASE D!Look(t)
  <2>1. UNCHANGED <<tried, flag, slot>> /\ thread[t].at = "look" /\ thread[t].it < Iters
    BY <1>5 DEF D!Look, D!At, CudaInv
  <2>2. \/ thread' = [thread EXCEPT ![t].at = "hash"]
        \/ flag /\ thread' = [thread EXCEPT ![t].at = "out"]
    BY <1>5 DEF D!Look
  <2>3. thread'[t].it = thread[t].it
        /\ (thread'[t].at = "hash" \/ (flag /\ thread'[t].at = "out"))
    BY <1>1, <2>2 DEF D!TypeOK
  <2>4. thread' \in [D!Threads -> [at : {"look", "hash", "store", "out"}, it : 0..Iters]]
    BY <1>1, <2>2 DEF D!TypeOK
  <2>5. D!TypeOK'
    BY <1>0, <1>1, <2>1, <2>4 DEF D!TypeOK
  <2>6. \A u \in D!Threads : D!NonceOf(u)' = D!NonceOf(u) /\ thread'[u].it = thread[u].it
    BY <1>0, <1>2, <2>3
  <2>7. flag => slot \in tried \cap wins \/ (\E u \in D!Threads \ {t} : thread[u].at = "store")
    BY <1>0, <2>1 DEF CudaInv
  <2> QED BY <1>0, <1>3, <1>4, <2>1, <2>3, <2>5, <2>6, <2>7 DEF CudaInv
<1>6. CASE D!Store(t)
  <2>1. /\ UNCHANGED <<tried, flag>> /\ thread[t].at = "store"
        /\ slot' = D!NonceOf(t) /\ thread' = [thread EXCEPT ![t].at = "out"]
    BY <1>6 DEF D!Store, D!At
  <2>2. flag /\ D!NonceOf(t) \in tried \cap wins
    BY <2>1 DEF CudaInv
  <2>3. thread'[t].it = thread[t].it /\ thread'[t].at = "out"
    BY <1>1, <2>1 DEF D!TypeOK
  <2>4. thread' \in [D!Threads -> [at : {"look", "hash", "store", "out"}, it : 0..Iters]]
    BY <1>1, <2>1 DEF D!TypeOK
  <2>5. D!TypeOK'
    BY <1>0, <1>1, <2>1, <2>2, <2>4 DEF D!TypeOK
  <2>6. \A u \in D!Threads : D!NonceOf(u)' = D!NonceOf(u)
    BY <1>0, <1>2, <2>3
  <2> QED BY <1>0, <1>4, <2>1, <2>2, <2>3, <2>5, <2>6 DEF CudaInv
<1>7. CASE D!Hash(t)
  <2>1. /\ UNCHANGED slot /\ thread[t].at = "hash" /\ thread[t].it < Iters
        /\ tried' = tried \cup {D!NonceOf(t)}
    BY <1>7 DEF D!Hash, D!At, CudaInv
  <2>2. D!NonceOf(t) \in D!Nonces
    BY <1>0, <2>1, ThreadNonce
  <2>3. CASE D!NonceOf(t) \notin wins /\ D!Misses(t) /\ UNCHANGED flag
    <3>1. thread' = [thread EXCEPT ![t].it = @ + 1,
                             ![t].at = IF thread[t].it + 1 < Iters THEN "look" ELSE "out"]
      BY <2>3 DEF D!Misses
    <3>2. /\ thread'[t].it = thread[t].it + 1
          /\ thread'[t].at = IF thread[t].it + 1 < Iters THEN "look" ELSE "out"
      BY <1>1, <3>1 DEF D!TypeOK
    <3>3. thread[t].it + 1 \in 0..Iters
      BY <1>1, <2>1
    <3>4. thread' \in [D!Threads -> [at : {"look", "hash", "store", "out"}, it : 0..Iters]]
      BY <1>1, <3>1, <3>3 DEF D!TypeOK
    <3>5. D!TypeOK'
      BY <1>0, <1>1, <2>1, <2>2, <2>3, <3>4 DEF D!TypeOK
    <3>6. \A u \in D!Threads \ {t} : D!NonceOf(u)' = D!NonceOf(u)
      BY <1>0, <1>2
    <3>7. Behind' = Behind \cup {D!NonceOf(t)}
      <4>1. \A u \in D!Threads \ {t} : Lane(cursor', u, thread'[u].it) = Lane(cursor, u, thread[u].it)
        BY <1>0
      <4>2. Lane(cursor', t, thread'[t].it) = Lane(cursor, t, thread[t].it) \cup {D!NonceOf(t)}
        <5>1. Lane(cursor, t, thread[t].it + 1)
                 = Lane(cursor, t, thread[t].it) \cup {cursor + t + thread[t].it * NThreads}
          BY <1>1, LaneGrows
        <5> QED BY <1>0, <3>2, <5>1 DEF D!NonceOf
      <4>3. Behind' = UNION {Lane(cursor', u, thread'[u].it) : u \in D!Threads}
        BY DEF Behind
      <4>4. \A x : x \in Behind' <=> x \in Behind \cup {D!NonceOf(t)}
        BY <4>1, <4>2, <4>3 DEF Behind
      <4> QED BY <4>4
    <3>8. ~flag => tried' = ((0..(cursor - 1)) \ skipped) \cup Behind' /\ tried' \cap wins = {}
      BY <1>0, <2>1, <2>3, <3>7 DEF CudaInv
    <3>9. \A u \in D!Threads :
          /\ thread'[u].at \in {"look", "hash"} => thread'[u].it < Iters
          /\ thread'[u].at = "out" /\ ~flag => thread'[u].it = Iters
          /\ thread'[u].at = "store" => flag /\ D!NonceOf(u)' \in tried' \cap wins
      <4>1. /\ thread'[t].at \in {"look", "hash"} => thread'[t].it < Iters
            /\ thread'[t].at = "out" => thread'[t].it = Iters
            /\ thread'[t].at # "store"
        BY <1>1, <3>2, <3>3
      <4> QED BY <1>0, <2>1, <3>6, <4>1 DEF CudaInv
    <3>10. flag => slot \in tried \cap wins \/ (\E u \in D!Threads \ {t} : thread[u].at = "store")
      BY <1>0, <2>1 DEF CudaInv
    <3> QED BY <1>0, <1>4, <2>1, <2>3, <3>5, <3>8, <3>9, <3>10 DEF CudaInv
  <2>4. CASE D!NonceOf(t) \in wins /\ flag /\ D!Beaten(t) /\ UNCHANGED flag
    <3>1. thread' = [thread EXCEPT ![t].at = "out"]
      BY <2>4 DEF D!Beaten
    <3>2. thread'[t].it = thread[t].it /\ thread'[t].at = "out"
      BY <1>1, <3>1 DEF D!TypeOK
    <3>4. thread' \in [D!Threads -> [at : {"look", "hash", "store", "out"}, it : 0..Iters]]
      BY <1>1, <3>1 DEF D!TypeOK
    <3>5. D!TypeOK'
      BY <1>0, <1>1, <2>1, <2>2, <2>4, <3>4 DEF D!TypeOK
    <3>6. \A u \in D!Threads : D!NonceOf(u)' = D!NonceOf(u)
      BY <1>0, <1>2, <3>2
    <3>7. slot \in tried \cap wins \/ (\E u \in D!Threads \ {t} : thread[u].at = "store")
      BY <1>0, <2>1, <2>4 DEF CudaInv
    <3> QED BY <1>0, <1>4, <2>1, <2>4, <3>2, <3>5, <3>6, <3>7 DEF CudaInv
  <2>5. CASE D!NonceOf(t) \in wins /\ ~flag /\ flag' = TRUE
             /\ thread' = [thread EXCEPT ![t].at = "store"]
    <3>2. thread'[t].it = thread[t].it /\ thread'[t].at = "store"
      BY <1>1, <2>5 DEF D!TypeOK
    <3>4. thread' \in [D!Threads -> [at : {"look", "hash", "store", "out"}, it : 0..Iters]]
      BY <1>1, <2>5 DEF D!TypeOK
    <3>5. D!TypeOK'
      BY <1>0, <1>1, <2>1, <2>2, <2>5, <3>4 DEF D!TypeOK
    <3>6. \A u \in D!Threads : D!NonceOf(u)' = D!NonceOf(u)
      BY <1>0, <1>2, <3>2
    <3> QED BY <1>0, <1>4, <2>1, <2>5, <3>2, <3>5, <3>6 DEF CudaInv
  <2> QED BY <1>7, <2>3, <2>4, <2>5 DEF D!Hash
<1> QED BY <1>5, <1>6, <1>7 DEF D!KernelStep

LEMMA CudaInvStep == ASSUME CudaInv, D!Next PROVE CudaInv'
<1>1. /\ D!TypeOK /\ NThreads \in Nat /\ Iters \in Nat /\ cursor \in Nat /\ Slice \in Nat
      /\ D!Garbage \in Nat /\ D!Advance = Slice
      /\ \A u \in D!Threads : u \in Nat /\ thread[u].it \in Nat /\ thread[u].it <= Iters
      /\ DOMAIN thread = D!Threads
  BY Numbers, CudaNumbers DEF CudaInv, D!TypeOK, D!Advance, Slice
<1>2. PICK c \in 0..MaxLaunches : cursor = c * Slice
  BY DEF CudaInv
<1>3. ASSUME cursor < D!Garbage
      PROVE  /\ \E d \in 0..MaxLaunches : cursor + Slice = d * Slice
             /\ cursor + Slice \in 0..D!Garbage
  <2>1. c + 1 \in 0..MaxLaunches /\ cursor + Slice = (c + 1) * Slice /\ (c + 1) * Slice <= D!Garbage
    BY <1>2, <1>3, SliceFits
  <2> QED BY <1>1, <2>1
<1>4. CASE D!Launch
  <2>1. /\ UNCHANGED <<wins, tried, expired, flag, slot, cursor, printed, skipped>> /\ host = "launch"
        /\ cursor < D!Garbage /\ host' = "sync" /\ ~flag
        /\ thread' = [t \in D!Threads |-> [at |-> IF Iters > 0 THEN "look" ELSE "out", it |-> 0]]
    BY <1>4 DEF D!Launch, CudaInv
  <2>2. thread' \in [D!Threads -> [at : {"look", "hash", "store", "out"}, it : 0..Iters]]
    BY <1>1, <2>1
  <2>3. D!TypeOK'
    BY <1>1, <2>1, <2>2 DEF D!TypeOK
  <2>4. \A t \in D!Threads : Lane(cursor', t, thread'[t].it) = {}
    BY <2>1 DEF Lane
  <2>5. Behind' = {}
    BY <2>4 DEF Behind
  <2>6. \A t \in D!Threads :
          /\ thread'[t].at \in {"look", "hash"} => thread'[t].it < Iters
          /\ thread'[t].at = "out" => thread'[t].it = Iters
          /\ thread'[t].at # "store"
    BY <1>1, <2>1
  <2> QED BY <2>1, <2>3, <2>5, <2>6, <1>2 DEF CudaInv
<1>5. CASE D!SyncFound
  <2>1. /\ UNCHANGED <<wins, tried, expired, flag, slot, thread, skipped>> /\ host = "sync"
        /\ D!KernelOver /\ flag /\ cursor' = cursor + Slice /\ printed' = {slot}
        /\ host' = "FOUND" /\ cursor < D!Garbage
    BY <1>1, <1>5 DEF D!SyncFound, CudaInv
  <2>2. slot \in tried \cap wins
    BY <2>1 DEF CudaInv, D!KernelOver, D!At
  <2>3. D!TypeOK'
    BY <1>1, <1>3, <2>1, <2>2 DEF D!TypeOK
  <2>4. D!KernelOver' /\ \A t \in D!Threads : thread'[t].at = "out"
    BY <2>1 DEF D!KernelOver, D!At
  <2>5. skipped' \subseteq 0..(cursor' - 1)
    BY <1>1, <2>1 DEF CudaInv
  <2> QED BY <1>3, <2>1, <2>2, <2>3, <2>4, <2>5 DEF CudaInv
<1>6. CASE D!SyncNothing
  <2>1. /\ UNCHANGED <<wins, tried, expired, flag, slot, thread, printed, skipped>>
        /\ host = "sync"
        /\ D!KernelOver /\ ~flag /\ cursor' = cursor + Slice /\ cursor < D!Garbage
        /\ host' \in {"NONE", "launch"} /\ printed = {}
    BY <1>1, <1>6 DEF D!SyncNothing, CudaInv
  <2>2. \A t \in D!Threads : thread[t].at = "out" /\ thread[t].it = Iters
    BY <2>1 DEF CudaInv, D!KernelOver, D!At
  <2>3. tried = ((0..(cursor - 1)) \ skipped) \cup (cursor..(cursor + Slice - 1))
    <3>1. Behind = UNION {Lane(cursor, t, Iters) : t \in D!Threads}
      BY <2>2 DEF Behind
    <3> QED BY <1>1, <2>1, <3>1, SliceIsCovered DEF CudaInv
  <2>4. skipped' \subseteq 0..(cursor' - 1) /\ tried' = (0..(cursor' - 1)) \ skipped'
    <3>1. skipped \subseteq 0..(cursor - 1)
      BY DEF CudaInv
    <3>2. 0..(cursor' - 1) = (0..(cursor - 1)) \cup (cursor..(cursor + Slice - 1))
      BY <1>1, <2>1
    <3>3. \A n \in cursor..(cursor + Slice - 1) : n \notin 0..(cursor - 1)
      BY <1>1
    <3> QED BY <2>1, <2>3, <3>1, <3>2, <3>3
  <2>5. D!TypeOK'
    BY <1>1, <1>3, <2>1 DEF D!TypeOK
  <2>6. D!KernelOver'
    BY <2>1 DEF D!KernelOver, D!At
  <2> QED BY <1>3, <2>1, <2>2, <2>4, <2>5, <2>6 DEF CudaInv
<1>7. CASE D!CudaError
  <2>1. /\ UNCHANGED <<wins, tried, expired, flag, slot, cursor, printed, skipped>> /\ host = "sync"
        /\ host' = "error" /\ thread' = [t \in D!Threads |-> [at |-> "out", it |-> 0]]
    BY <1>7 DEF D!CudaError, D!Idle
  <2>2. thread' \in [D!Threads -> [at : {"look", "hash", "store", "out"}, it : 0..Iters]]
    BY <1>1, <2>1
  <2>3. D!TypeOK'
    BY <1>1, <2>1, <2>2 DEF D!TypeOK
  <2>4. D!KernelOver' /\ \A t \in D!Threads : thread'[t].at = "out"
    BY <2>1 DEF D!KernelOver, D!At
  <2> QED BY <1>2, <2>1, <2>3, <2>4 DEF CudaInv
<1>8. CASE D!Expire
  <2>1. expired' = TRUE /\ UNCHANGED <<wins, tried, flag, slot, thread, cursor, host, printed, skipped>>
    BY <1>8 DEF D!Expire, D!hostVars
  <2>2. D!TypeOK' /\ Behind' = Behind /\ (D!KernelOver' <=> D!KernelOver)
    BY <1>1, <2>1 DEF D!TypeOK, Behind, D!KernelOver, D!At
  <2>3. \A t \in D!Threads : D!NonceOf(t)' = D!NonceOf(t)
    BY <2>1 DEF D!NonceOf
  <2> QED BY <2>1, <2>2, <2>3 DEF CudaInv
<1>9. CASE D!LaunchRefused
  <2>1. /\ UNCHANGED <<wins, tried, expired, flag, slot, thread, printed>> /\ host = "launch"
        /\ cursor' = cursor + Slice /\ cursor < D!Garbage /\ host' \in {"NONE", "launch"}
        /\ skipped' = skipped \cup (cursor..(cursor + Slice - 1)) /\ ~flag
        /\ D!KernelOver /\ printed = {} /\ tried = (0..(cursor - 1)) \ skipped
        /\ skipped \subseteq 0..(cursor - 1)
    BY <1>1, <1>9 DEF D!LaunchRefused, CudaInv
  <2>2. 0..(cursor' - 1) = (0..(cursor - 1)) \cup (cursor..(cursor + Slice - 1))
    BY <1>1, <2>1
  <2>3. \A n \in cursor..(cursor + Slice - 1) : n \notin 0..(cursor - 1)
    BY <1>1
  <2>4. skipped' \subseteq 0..(cursor' - 1) /\ tried' = (0..(cursor' - 1)) \ skipped'
    BY <2>1, <2>2, <2>3
  <2>5. skipped' \subseteq D!Nonces
    <3>1. 0..(cursor' - 1) \subseteq 0..(D!Garbage - 1)
      BY <1>1, <1>3, <2>1
    <3> QED BY <2>4, <3>1 DEF D!Nonces, D!Garbage
  <2>6. D!TypeOK'
    BY <1>1, <1>3, <2>1, <2>5 DEF D!TypeOK
  <2>7. D!KernelOver' /\ \A t \in D!Threads : thread'[t].at = "out"
    BY <2>1 DEF D!KernelOver, D!At
  <2>8. ~flag' => tried' \cap wins' = {}
    BY <2>1 DEF CudaInv
  <2>9. \E d \in 0..MaxLaunches : cursor' = d * Slice
    BY <1>3, <2>1
  <2> QED BY <2>1, <2>4, <2>6, <2>7, <2>8, <2>9 DEF CudaInv
<1>10. CASE \E t \in D!Threads : D!KernelStep(t)
  BY <1>10, CudaThreadStep
<1> QED BY <1>4, <1>5, <1>6, <1>7, <1>8, <1>9, <1>10 DEF D!Next, D!HostStep

LEMMA GapsAreRefusals == ASSUME CudaInv PROVE D!OnlyRefusedLaunchesLeaveGaps
BY DEF CudaInv, D!OnlyRefusedLaunchesLeaveGaps

-----------------------------------------------------------------------------
(* solver_mp.py's workers and their parent.                                *)

\* What was hashed in the lane of worker i.
Hashed(i) == {n \in tried : n % NWorkers = i}

\* The workers whose message the parent has taken.
Told == {i \in M!Workers : worker[i].at \in {"leave", "gone"} /\ \A m \in queue : m.from # i}

\* A worker is on a nonce of its lane and within its batch, and one that has won
\* has hashed a winner.
WorkerFits(i) ==
    /\ worker[i].nonce = i + NWorkers * worker[i].done
    /\ worker[i].at = "look" => worker[i].done = worker[i].batch * Check
    /\ worker[i].at = "hash" =>
          /\ worker[i].batch > 0
          /\ (worker[i].batch - 1) * Check <= worker[i].done
          /\ worker[i].done < worker[i].batch * Check
    /\ worker[i].at \in {"won", "tell"} => worker[i].nonce \in tried \cap wins

\* A worker's next nonce is ahead of what was hashed in its lane.
Ahead(i) ==
    worker[i].at \in {"look", "hash"} => \A n \in Hashed(i) : n < worker[i].nonce

\* Whatever happens to the workers: a found message holds a winner that was
\* hashed, and when solve has ended no worker is left.
MpLanes ==
    /\ M!TypeOK
    /\ \A i \in M!Workers : WorkerFits(i) /\ Ahead(i)
    /\ \A m \in queue : m.kind = "found" => \E n \in tried \cap wins : m.nonce = {n}
    /\ result \subseteq tried \cap wins
    /\ parent \in {"returned", "dead"} => \A i \in M!Workers : worker[i].at = "gone"

\* A worker's hash count, until its message has it, is that of its lane.
LaneCounted(i) ==
    /\ worker[i].at \in {"look", "hash"} => Cardinality(Hashed(i)) = worker[i].done
    /\ worker[i].at \in {"won", "tell"} => Cardinality(Hashed(i)) = worker[i].done + 1

\* A worker has one message at most, its last act, with the count of its lane.
MessagesCount ==
    /\ \A m \in queue : worker[m.from].at \in {"leave", "gone"}
                        /\ m.done = Cardinality(Hashed(m.from))
    /\ \A l, m \in queue : l.from = m.from => l = m

\* The total is what the workers hashed that the parent has heard of.
TotalCounts ==
    parent = "get" =>
       /\ remaining + Cardinality(Told) = NWorkers
       /\ total = Cardinality({n \in tried : n % NWorkers \in Told})

\* Until the parent has a winner, a winner that was hashed is about to be told.
WinnerIsTold ==
    parent = "get" =>
       \/ result # {}
       \/ \A n \in tried \cap wins :
             \/ \E i \in M!Workers : worker[i].nonce = n /\ worker[i].at \in {"won", "tell"}
             \/ \E m \in queue : m.kind = "found"

\* What solve returns.
ReturnedRight ==
    parent = "returned" => total = Cardinality(tried) /\ (result = {} => tried \cap wins = {})

MpCounts ==
    /\ \A i \in M!Workers : LaneCounted(i)
    /\ MessagesCount /\ TotalCounts /\ WinnerIsTold /\ ReturnedRight

\* The counts are right, and no winner is lost, as long as nobody was interrupted
\* or killed.
MpInv == MpLanes /\ (signalled = {} => MpCounts)

\* The lane of a nonce.
LEMMA LaneOf ==
    ASSUME NEW n \in Nat, n > 0, NEW i \in 0..(n - 1), NEW c \in Nat
    PROVE  (i + n * c) % n = i
<1>1. i + c * n \in Nat /\ i + c * n = i + n * c
  OBVIOUS
<1>2. \A a, b, r, s \in Nat : r < n /\ s < n /\ r + a * n = s + b * n => r = s
  <2> SUFFICES ASSUME NEW a \in Nat, NEW b \in Nat, NEW r \in Nat, NEW s \in Nat,
                      r < n, s < n, r + a * n = s + b * n
               PROVE  r = s
    OBVIOUS
  <2>1. a > b => a * n >= b * n + n
    OBVIOUS
  <2>2. b > a => b * n >= a * n + n
    OBVIOUS
  <2>3. a * n \in Nat /\ b * n \in Nat
    OBVIOUS
  <2>4. a = b
    BY <2>1, <2>2, <2>3
  <2> QED BY <2>3, <2>4
<1>3. /\ (i + c * n) % n \in Nat /\ (i + c * n) % n < n /\ (i + c * n) \div n \in Nat
      /\ i + c * n = ((i + c * n) % n) + ((i + c * n) \div n) * n
  BY <1>1, Division
<1>4. i \in Nat /\ i < n
  OBVIOUS
<1> QED BY <1>1, <1>2, <1>3, <1>4

\* A batch ends with a multiple of its length, and only there.
LEMMA BatchEnds ==
    ASSUME NEW n \in Nat, n > 0, NEW b \in Nat, b > 0, NEW d \in Nat,
           (b - 1) * n <= d, d < b * n
    PROVE  /\ (d + 1) % n = 0 => d + 1 = b * n
           /\ (d + 1) % n # 0 => d + 1 < b * n
<1>1. b * n \in Nat /\ (b - 1) * n = b * n - n
  OBVIOUS
<1>2. (b * n) % n = 0
  OBVIOUS
<1>3. (d + 1) % n # 0 => d + 1 < b * n
  BY <1>1, <1>2
<1>4. ASSUME (d + 1) % n = 0 PROVE d + 1 = b * n
  <2>1. PICK q \in Nat : d + 1 = q * n
    BY <1>4, Division
  <2>2. q < b => q * n <= b * n - n
    BY <1>1
  <2>3. q > b => q * n >= b * n + n
    BY <1>1
  <2>4. q * n \in Nat
    OBVIOUS
  <2> QED BY <1>1, <2>1, <2>2, <2>3, <2>4
<1> QED BY <1>3, <1>4

\* The workers, and what can be counted.
LEMMA WorkerNumbers ==
    /\ IsFiniteSet(M!Workers) /\ Cardinality(M!Workers) = NWorkers
    /\ \A i \in M!Workers : i \in 0..(NWorkers - 1) /\ i \in Nat
    /\ IsFiniteSet(M!Nonces) /\ M!Nonces \subseteq Nat
    /\ \A n \in M!Nonces : n % NWorkers \in M!Workers
<1>1. NWorkers * Check * MaxBatches \in Nat
  BY Numbers
<1>2. \A n \in Nat : n % NWorkers \in 0..(NWorkers - 1)
  BY Numbers
<1> QED BY <1>1, <1>2, Numbers, RangeSize DEF M!Workers, M!Nonces

\* A worker with a nonce to hash hashes a new one of its lane.
LEMMA WorkerNonce ==
    ASSUME MpLanes, NEW i \in M!Workers, worker[i].at = "hash"
    PROVE  /\ worker[i].nonce \in M!Nonces /\ worker[i].nonce % NWorkers = i
           /\ worker[i].nonce \notin tried
<1>1. /\ i \in 0..(NWorkers - 1) /\ worker[i].done \in Nat /\ worker[i].batch \in 0..MaxBatches
      /\ worker[i].nonce = i + NWorkers * worker[i].done
      /\ worker[i].done < worker[i].batch * Check
      /\ \A n \in Hashed(i) : n < worker[i].nonce
  BY WorkerNumbers DEF MpLanes, M!TypeOK, WorkerFits, Ahead
<1>2. worker[i].batch * Check <= Check * MaxBatches /\ Check * MaxBatches \in Nat
  BY <1>1, Numbers
<1>3. worker[i].done \in 0..(Check * MaxBatches) /\ worker[i].done < Check * MaxBatches
  <2>1. worker[i].batch * Check \in Nat
    BY <1>1, Numbers
  <2> QED BY <1>1, <1>2, <2>1
<1>4. worker[i].nonce \in 0..(NWorkers * (Check * MaxBatches) - 1)
  BY <1>1, <1>2, <1>3, Numbers, LaneNonce
<1>5. NWorkers * (Check * MaxBatches) = NWorkers * Check * MaxBatches
  BY Numbers
<1>6. worker[i].nonce % NWorkers = i
  <2>1. (i + NWorkers * worker[i].done) % NWorkers = i
    BY <1>1, Numbers, LaneOf
  <2> QED BY <1>1, <2>1
<1>7. worker[i].nonce \notin Hashed(i)
  BY <1>1, <1>4
<1> QED BY <1>4, <1>5, <1>6, <1>7 DEF M!Nonces, Hashed

LEMMA MpInvInit == ASSUME M!Init PROVE MpInv
<1>1. /\ wins \subseteq M!Nonces /\ tried = {} /\ expired = FALSE /\ flag = FALSE
      /\ worker = [i \in M!Workers |-> [at |-> "look", nonce |-> i, batch |-> 0, done |-> 0]]
      /\ signalled = {} /\ queue = {} /\ parent = "get" /\ remaining = NWorkers
      /\ result = {} /\ total = 0
  BY DEF M!Init
<1>2. worker \in [M!Workers -> [at : {"look", "hash", "won", "tell", "leave", "gone", "cut", "killed"},
                                nonce : Nat, batch : 0..MaxBatches, done : Nat]]
  BY <1>1, WorkerNumbers, Numbers
<1>3. M!TypeOK
  <2>1. remaining \in 0..NWorkers /\ total \in Nat
    BY <1>1, Numbers
  <2> QED BY <1>1, <1>2, <2>1 DEF M!TypeOK
<1>4. \A i \in M!Workers : Hashed(i) = {}
  BY <1>1 DEF Hashed
<1>5. Told = {} /\ {n \in tried : n % NWorkers \in Told} = {}
  BY <1>1 DEF Told
<1>6. \A i \in M!Workers : WorkerFits(i) /\ Ahead(i) /\ LaneCounted(i)
  <2> SUFFICES ASSUME NEW i \in M!Workers PROVE WorkerFits(i) /\ Ahead(i) /\ LaneCounted(i)
    OBVIOUS
  <2>1. /\ worker[i].at = "look" /\ worker[i].nonce = i /\ worker[i].batch = 0
        /\ worker[i].done = 0 /\ i \in Nat
    BY <1>1, WorkerNumbers
  <2>2. i = i + NWorkers * 0 /\ 0 = 0 * Check
    BY <2>1, Numbers
  <2>3. WorkerFits(i)
    BY <2>1, <2>2 DEF WorkerFits
  <2> QED BY <1>4, <2>1, <2>3, FS_EmptySet DEF Ahead, LaneCounted
<1>7. MpLanes
  BY <1>1, <1>3, <1>6 DEF MpLanes
<1>8. MessagesCount /\ TotalCounts /\ WinnerIsTold /\ ReturnedRight
  BY <1>1, <1>5, Numbers, FS_EmptySet DEF MessagesCount, TotalCounts, WinnerIsTold, ReturnedRight
<1> QED BY <1>6, <1>7, <1>8 DEF MpInv, MpCounts

Labels      == {"look", "hash", "won", "tell", "leave", "gone", "cut", "killed"}
WorkerState == [at : Labels, nonce : Nat, batch : 0..MaxBatches, done : Nat]
Mail        == [kind : {"done", "found"}, from : M!Workers, done : Nat,
                nonce : SUBSET M!Nonces, second : BOOLEAN]

\* Only the place of worker i changes.
Goes(i, label) ==
    /\ worker' \in [M!Workers -> WorkerState]
    /\ worker'[i].at = label
    /\ worker'[i].nonce = worker[i].nonce /\ worker'[i].batch = worker[i].batch
    /\ worker'[i].done = worker[i].done
    /\ \A j \in M!Workers \ {i} : worker'[j] = worker[j]

LEMMA WorkerGoes ==
    ASSUME M!TypeOK, NEW i \in M!Workers, NEW label \in Labels,
           worker' = [worker EXCEPT ![i].at = label]
    PROVE  Goes(i, label)
<1>1. worker \in [M!Workers -> WorkerState]
  BY DEF M!TypeOK, WorkerState, Labels
<1>2. [worker[i] EXCEPT !.at = label] \in WorkerState
  BY <1>1 DEF WorkerState
<1>3. worker' = [worker EXCEPT ![i] = [worker[i] EXCEPT !.at = label]]
  OBVIOUS
<1>4. worker' \in [M!Workers -> WorkerState]
  BY <1>1, <1>2, <1>3
<1>5. worker'[i] = [worker[i] EXCEPT !.at = label]
  BY <1>1, <1>3
<1>6. worker[i] \in WorkerState
  BY <1>1
<1>7. /\ worker'[i].at = label /\ worker'[i].nonce = worker[i].nonce
      /\ worker'[i].batch = worker[i].batch /\ worker'[i].done = worker[i].done
  BY <1>5, <1>6 DEF WorkerState
<1>8. \A j \in M!Workers \ {i} : worker'[j] = worker[j]
  BY <1>1, <1>3
<1> QED BY <1>4, <1>7, <1>8 DEF Goes

\* A worker that gives up its search, or stays in its win, disturbs no lane.
LEMMA LanesStay ==
    ASSUME MpLanes, UNCHANGED <<wins, tried>>, NEW i \in M!Workers, NEW label,
           Goes(i, label), label \notin {"look", "hash"},
           label \in {"won", "tell"} => worker[i].at \in {"won", "tell"}
    PROVE  \A j \in M!Workers : WorkerFits(j)' /\ Ahead(j)'
<1>1. WorkerFits(i)' /\ Ahead(i)'
  BY DEF MpLanes, WorkerFits, Ahead, Hashed, Goes
<1>2. ASSUME NEW j \in M!Workers \ {i} PROVE WorkerFits(j)' /\ Ahead(j)'
  <2>1. worker'[j] = worker[j]
    BY DEF Goes
  <2> QED BY <2>1 DEF MpLanes, WorkerFits, Ahead, Hashed
<1> QED BY <1>1, <1>2

LEMMA MailIsTyped ==
    ASSUME M!TypeOK, NEW i \in M!Workers
    PROVE  /\ M!DoneMessage(i) \in Mail /\ M!DoneMessage(i).kind = "done"
           /\ M!DoneMessage(i).from = i /\ M!DoneMessage(i).done = worker[i].done
           /\ \A b \in BOOLEAN : /\ [M!DoneMessage(i) EXCEPT !.second = b] \in Mail
                                 /\ [M!DoneMessage(i) EXCEPT !.second = b].kind = "done"
BY DEF M!TypeOK, M!DoneMessage, M!Message, Mail

\* The rest of the type.
LEMMA RestTyped ==
    M!TypeOK <=> /\ worker \in [M!Workers -> WorkerState] /\ queue \subseteq Mail
                 /\ wins \subseteq M!Nonces /\ tried \subseteq M!Nonces
                 /\ expired \in BOOLEAN /\ flag \in BOOLEAN
                 /\ signalled \subseteq M!Workers
                 /\ parent \in {"get", "returned", "raised", "dead"}
                 /\ remaining \in 0..NWorkers
                 /\ result \subseteq M!Nonces /\ total \in Nat
BY DEF M!TypeOK, WorkerState, Labels, Mail

\* A worker that is not at its end is heard by a parent that waits.
LEMMA ParentWaits ==
    ASSUME MpLanes, NEW i \in M!Workers, worker[i].at # "gone"
    PROVE  parent \notin {"returned", "dead"}
BY DEF MpLanes

LEMMA LeaveKeepsLanes == ASSUME MpLanes, NEW i \in M!Workers, M!Leave(i) PROVE MpLanes'
<1>1. /\ worker[i].at = "look" /\ worker' = [worker EXCEPT ![i].at = "leave"]
      /\ queue' = queue \cup {M!DoneMessage(i)} /\ M!TypeOK
      /\ UNCHANGED <<wins, tried, expired, flag, signalled, parent, remaining, result, total>>
  BY DEF M!Leave, M!At, M!parentVars, MpLanes
<1>2. Goes(i, "leave")
  BY <1>1, WorkerGoes DEF Labels
<1>3. M!TypeOK'
  BY <1>1, <1>2, MailIsTyped DEF Goes, M!TypeOK, WorkerState, Labels, Mail
<1> QED BY <1>1, <1>2, <1>3, LanesStay, MailIsTyped, ParentWaits DEF MpLanes

LEMMA BeginKeepsLanes == ASSUME MpLanes, NEW i \in M!Workers, M!Begin(i) PROVE MpLanes'
<1>1. /\ worker[i].at = "look" /\ worker[i].batch < MaxBatches /\ M!TypeOK
      /\ worker' = [worker EXCEPT ![i].at = "hash", ![i].batch = @ + 1]
      /\ UNCHANGED <<wins, tried, expired, flag, signalled, queue, parent, remaining, result, total>>
  BY DEF M!Begin, M!At, M!parentVars, MpLanes
<1>2. worker \in [M!Workers -> WorkerState] /\ worker[i] \in WorkerState
  BY <1>1, RestTyped
<1>3. worker[i].batch + 1 \in 0..MaxBatches /\ worker[i].batch \in Nat /\ worker[i].done \in Nat
  BY <1>1, <1>2, Numbers DEF WorkerState
<1>4. worker' = [worker EXCEPT ![i] = [worker[i] EXCEPT !.at = "hash", !.batch = worker[i].batch + 1]]
  BY <1>1
<1>5. /\ worker'[i].at = "hash" /\ worker'[i].batch = worker[i].batch + 1
      /\ worker'[i].nonce = worker[i].nonce /\ worker'[i].done = worker[i].done
      /\ \A j \in M!Workers \ {i} : worker'[j] = worker[j]
  BY <1>2, <1>4 DEF WorkerState
<1>6. worker' \in [M!Workers -> WorkerState]
  BY <1>2, <1>3, <1>4 DEF WorkerState, Labels
<1>7. M!TypeOK'
  BY <1>1, <1>6 DEF M!TypeOK, WorkerState, Labels, Mail
<1>8. WorkerFits(i)'
  <2>1. /\ worker[i].done = worker[i].batch * Check
        /\ worker[i].nonce = i + NWorkers * worker[i].done
    BY <1>1 DEF MpLanes, WorkerFits
  <2>2. (worker[i].batch + 1) * Check = worker[i].batch * Check + Check
        /\ worker[i].batch * Check \in Nat /\ worker[i].batch + 1 - 1 = worker[i].batch
    BY <1>3, Numbers
  <2>3. PICK b \in Nat : b = worker[i].batch + 1
    BY <1>3
  <2>4. b > 0 /\ (b - 1) * Check <= worker[i].done /\ worker[i].done < b * Check
    BY <2>1, <2>2, <2>3, <1>3, Numbers
  <2> QED BY <1>5, <2>1, <2>3, <2>4 DEF WorkerFits
<1>9. Ahead(i)'
  BY <1>1, <1>5 DEF MpLanes, Ahead, Hashed
<1>10. \A j \in M!Workers \ {i} : WorkerFits(j)' /\ Ahead(j)'
  BY <1>1, <1>5 DEF MpLanes, WorkerFits, Ahead, Hashed
<1> QED BY <1>1, <1>7, <1>8, <1>9, <1>10, ParentWaits DEF MpLanes

\* Of a hash: one nonce more in the lane of its worker, which has won, or else
\* goes on, to the end of its batch or within it.
LEMMA HashEffect ==
    ASSUME MpLanes, NEW i \in M!Workers, M!Hash(i)
    PROVE  /\ worker[i].at = "hash" /\ tried' = tried \cup {worker[i].nonce}
           /\ UNCHANGED <<wins, expired, flag, signalled, queue, parent, remaining, result, total>>
           /\ \A j \in M!Workers \ {i} : worker'[j] = worker[j] /\ Hashed(j)' = Hashed(j)
           /\ Hashed(i)' = Hashed(i) \cup {worker[i].nonce} /\ worker[i].nonce \notin Hashed(i)
           /\ worker' \in [M!Workers -> WorkerState]
           /\ worker'[i].batch = worker[i].batch
           /\ \/ /\ worker[i].nonce \in wins /\ worker'[i].at = "won"
                 /\ worker'[i].nonce = worker[i].nonce /\ worker'[i].done = worker[i].done
              \/ /\ worker[i].nonce \notin wins
                 /\ worker'[i].nonce = worker[i].nonce + NWorkers
                 /\ worker'[i].done = worker[i].done + 1
                 /\ worker'[i].at = IF (worker[i].done + 1) % Check = 0 THEN "look" ELSE "hash"
<1>1. /\ worker[i].at = "hash" /\ tried' = tried \cup {worker[i].nonce}
      /\ UNCHANGED <<wins, expired, flag, signalled, queue, parent, remaining, result, total>>
      /\ worker \in [M!Workers -> WorkerState] /\ worker[i] \in WorkerState
  BY RestTyped DEF M!Hash, M!At, M!parentVars, MpLanes
<1>2. worker[i].nonce % NWorkers = i /\ worker[i].nonce \notin tried
  BY <1>1, WorkerNonce
<1>3. /\ Hashed(i)' = Hashed(i) \cup {worker[i].nonce} /\ worker[i].nonce \notin Hashed(i)
      /\ \A j \in M!Workers \ {i} : Hashed(j)' = Hashed(j)
  BY <1>1, <1>2 DEF Hashed
<1>4. CASE worker[i].nonce \in wins
  <2>1. worker' = [worker EXCEPT ![i].at = "won"]
    BY <1>4 DEF M!Hash
  <2>2. Goes(i, "won")
    BY <2>1, WorkerGoes DEF Labels, MpLanes
  <2> QED BY <1>1, <1>3, <1>4, <2>2 DEF Goes
<1>5. CASE worker[i].nonce \notin wins
  <2> DEFINE new == [worker[i] EXCEPT !.nonce = worker[i].nonce + NWorkers, !.done = worker[i].done + 1,
                         !.at = IF (worker[i].done + 1) % Check = 0 THEN "look" ELSE "hash"]
  <2>1. worker' = [worker EXCEPT ![i] = new]
    BY <1>5 DEF M!Hash, M!Stride
  <2>2. new \in WorkerState
    <3>1. worker[i].nonce + NWorkers \in Nat /\ worker[i].done + 1 \in Nat
      BY <1>1, Numbers DEF WorkerState
    <3>2. (IF (worker[i].done + 1) % Check = 0 THEN "look" ELSE "hash") \in Labels
      BY DEF Labels
    <3> QED BY <1>1, <3>1, <3>2 DEF WorkerState
  <2>3. /\ new.nonce = worker[i].nonce + NWorkers /\ new.done = worker[i].done + 1
        /\ new.batch = worker[i].batch
        /\ new.at = IF (worker[i].done + 1) % Check = 0 THEN "look" ELSE "hash"
    BY <1>1 DEF WorkerState
  <2> HIDE DEF new
  <2>4. worker'[i] = new /\ (\A j \in M!Workers \ {i} : worker'[j] = worker[j])
        /\ worker' \in [M!Workers -> WorkerState]
    BY <1>1, <2>1, <2>2
  <2> QED BY <1>1, <1>3, <1>5, <2>3, <2>4
<1> QED BY <1>4, <1>5

LEMMA HashKeepsLanes == ASSUME MpLanes, NEW i \in M!Workers, M!Hash(i) PROVE MpLanes'
<1>1. /\ worker[i].at = "hash" /\ tried' = tried \cup {worker[i].nonce}
      /\ UNCHANGED <<wins, expired, flag, signalled, queue, parent, remaining, result, total>>
      /\ \A j \in M!Workers \ {i} : worker'[j] = worker[j] /\ Hashed(j)' = Hashed(j)
      /\ Hashed(i)' = Hashed(i) \cup {worker[i].nonce}
      /\ worker' \in [M!Workers -> WorkerState] /\ worker'[i].batch = worker[i].batch
  BY HashEffect
<1>2. worker[i].nonce \in M!Nonces
  BY <1>1, WorkerNonce
<1>3. M!TypeOK'
  BY <1>1, <1>2 DEF MpLanes, M!TypeOK, WorkerState, Labels
<1>4. \A j \in M!Workers \ {i} : WorkerFits(j)' /\ Ahead(j)'
  <2> SUFFICES ASSUME NEW j \in M!Workers \ {i} PROVE WorkerFits(j)' /\ Ahead(j)'
    OBVIOUS
  <2>1. WorkerFits(j) /\ Ahead(j)
    BY DEF MpLanes
  <2>2. worker'[j] = worker[j] /\ Hashed(j)' = Hashed(j) /\ tried \subseteq tried' /\ wins' = wins
    BY <1>1
  <2> QED BY <2>1, <2>2 DEF WorkerFits, Ahead
<1>5. /\ worker[i].nonce = i + NWorkers * worker[i].done /\ worker[i].batch > 0
      /\ (worker[i].batch - 1) * Check <= worker[i].done
      /\ worker[i].done < worker[i].batch * Check
      /\ \A n \in Hashed(i) : n < worker[i].nonce
      /\ worker[i].done \in Nat /\ worker[i].nonce \in Nat /\ worker[i].batch \in Nat
      /\ i \in Nat
  BY <1>1, RestTyped, WorkerNumbers DEF MpLanes, WorkerFits, Ahead, WorkerState
<1>6. WorkerFits(i)' /\ Ahead(i)'
  <2>1. CASE /\ worker[i].nonce \in wins /\ worker'[i].at = "won"
             /\ worker'[i].nonce = worker[i].nonce /\ worker'[i].done = worker[i].done
    BY <1>1, <1>5, <2>1 DEF WorkerFits, Ahead
  <2>2. CASE /\ worker'[i].nonce = worker[i].nonce + NWorkers
             /\ worker'[i].done = worker[i].done + 1
             /\ worker'[i].at = IF (worker[i].done + 1) % Check = 0 THEN "look" ELSE "hash"
    <3>1. \A n \in Hashed(i)' : n < worker'[i].nonce
      <4>1. \A n \in Hashed(i) : n \in Nat
        BY <1>3, WorkerNumbers, RestTyped DEF Hashed, MpLanes
      <4> QED BY <1>1, <1>5, <2>2, <4>1, Numbers
    <3>2. worker'[i].nonce = i + NWorkers * worker'[i].done
      <4>1. NWorkers * (worker[i].done + 1) = NWorkers * worker[i].done + NWorkers
            /\ NWorkers * worker[i].done \in Nat
        BY <1>5, Numbers
      <4> QED BY <1>5, <2>2, <4>1, Numbers
    <3>3. /\ (worker[i].done + 1) % Check = 0 => worker[i].done + 1 = worker[i].batch * Check
          /\ (worker[i].done + 1) % Check # 0 => worker[i].done + 1 < worker[i].batch * Check
      BY <1>5, Numbers, BatchEnds
    <3>4. (worker[i].batch - 1) * Check <= worker[i].done + 1
      <4>1. (worker[i].batch - 1) * Check \in Nat
        BY <1>5, Numbers
      <4> QED BY <1>5, <4>1
    <3>5. worker'[i].at = "look" => worker'[i].done = worker'[i].batch * Check
      BY <1>1, <2>2, <3>3
    <3>6. worker'[i].at = "hash" =>
             /\ worker'[i].batch > 0
             /\ (worker'[i].batch - 1) * Check <= worker'[i].done
             /\ worker'[i].done < worker'[i].batch * Check
      BY <1>1, <1>5, <2>2, <3>3, <3>4
    <3> QED BY <2>2, <3>1, <3>2, <3>5, <3>6 DEF WorkerFits, Ahead
  <2> QED BY <2>1, <2>2, HashEffect
<1>7. (\A m \in queue' : m.kind = "found" => \E n \in tried' \cap wins' : m.nonce = {n})
      /\ result' \subseteq tried' \cap wins'
  BY <1>1 DEF MpLanes
<1> QED BY <1>1, <1>3, <1>4, <1>6, <1>7, ParentWaits DEF MpLanes

LEMMA EndingsKeepLanes ==
    ASSUME MpLanes, NEW i \in M!Workers,
           M!RaiseFlag(i) \/ M!Tell(i) \/ M!Exit(i) \/ M!Interrupted(i) \/ M!CutShort(i) \/ M!Killed(i)
    PROVE  MpLanes'
<1>0. M!TypeOK /\ UNCHANGED <<wins, tried, expired, parent, remaining, result, total>>
  BY DEF M!RaiseFlag, M!Tell, M!Exit, M!Interrupted, M!CutShort, M!Killed, M!Signal, M!parentVars,
         MpLanes
<1>1. CASE M!RaiseFlag(i)
  <2>1. /\ worker[i].at = "won" /\ worker' = [worker EXCEPT ![i].at = "tell"]
        /\ flag' = TRUE /\ UNCHANGED <<signalled, queue>>
    BY <1>1 DEF M!RaiseFlag, M!At
  <2>2. Goes(i, "tell")
    BY <1>0, <2>1, WorkerGoes DEF Labels
  <2>3. M!TypeOK'
    BY <1>0, <2>1, <2>2 DEF Goes, M!TypeOK, WorkerState, Labels
  <2> QED BY <1>0, <2>1, <2>2, <2>3, LanesStay, ParentWaits DEF MpLanes
<1>2. CASE M!Tell(i)
  <2> DEFINE mail == M!Message(i, "found", M!HashesOfWinner(i), {worker[i].nonce})
  <2>1. /\ worker[i].at = "tell" /\ worker' = [worker EXCEPT ![i].at = "leave"]
        /\ queue' = queue \cup {mail} /\ UNCHANGED <<flag, signalled>>
    BY <1>2 DEF M!Tell, M!At
  <2>2. Goes(i, "leave")
    BY <1>0, <2>1, WorkerGoes DEF Labels
  <2>3. worker[i].nonce \in tried \cap wins
    BY <2>1 DEF MpLanes, WorkerFits
  <2>4. worker[i].done + 1 \in Nat /\ worker[i].nonce \in M!Nonces
    BY <1>0, <2>3, RestTyped DEF WorkerState
  <2>5. mail \in Mail /\ mail.nonce = {worker[i].nonce}
    BY <2>4 DEF Mail, M!Message, M!HashesOfWinner
  <2> HIDE DEF mail
  <2>6. M!TypeOK'
    BY <1>0, <2>1, <2>2, <2>5 DEF Goes, M!TypeOK, WorkerState, Labels, Mail
  <2> QED BY <1>0, <2>1, <2>2, <2>3, <2>5, <2>6, LanesStay, ParentWaits DEF MpLanes
<1>3. CASE M!Exit(i)
  <2>1. /\ worker[i].at = "leave" /\ worker' = [worker EXCEPT ![i].at = "gone"]
        /\ UNCHANGED <<flag, signalled, queue>>
    BY <1>3 DEF M!Exit, M!At
  <2>2. Goes(i, "gone")
    BY <1>0, <2>1, WorkerGoes DEF Labels
  <2>3. M!TypeOK'
    BY <1>0, <2>1, <2>2 DEF Goes, M!TypeOK, WorkerState, Labels
  <2> QED BY <1>0, <2>1, <2>2, <2>3, LanesStay, ParentWaits DEF MpLanes
<1>4. CASE M!Interrupted(i)
  <2> DEFINE mail == [M!DoneMessage(i) EXCEPT !.second = (worker[i].at = "leave")]
  <2>1. /\ worker[i].at # "gone" /\ worker' = [worker EXCEPT ![i].at = "leave"]
        /\ queue' = queue \cup {mail} /\ UNCHANGED flag
        /\ signalled' = signalled \cup {i}
    BY <1>4 DEF M!Interrupted, M!Signal, M!At
  <2>2. Goes(i, "leave")
    BY <1>0, <2>1, WorkerGoes DEF Labels
  <2>3. mail \in Mail /\ mail.kind = "done"
    BY <1>0, MailIsTyped
  <2> HIDE DEF mail
  <2>4. M!TypeOK'
    BY <1>0, <2>1, <2>2, <2>3 DEF Goes, M!TypeOK, WorkerState, Labels, Mail
  <2> QED BY <1>0, <2>1, <2>2, <2>3, <2>4, LanesStay, ParentWaits DEF MpLanes
<1>5. CASE M!CutShort(i) \/ M!Killed(i)
  <2>1. /\ worker[i].at # "gone"
        /\ \/ worker' = [worker EXCEPT ![i].at = "cut"]
           \/ worker' = [worker EXCEPT ![i].at = "killed"]
        /\ queue' \subseteq queue /\ UNCHANGED flag
        /\ signalled' = signalled \cup {i}
    BY <1>5 DEF M!CutShort, M!Killed, M!MayLose, M!Signal, M!At
  <2>2. PICK label \in {"cut", "killed"} : Goes(i, label)
    BY <1>0, <2>1, WorkerGoes DEF Labels
  <2>4. M!TypeOK'
    BY <1>0, <2>1, <2>2 DEF Goes, M!TypeOK, WorkerState, Labels, Mail
  <2> QED BY <1>0, <2>1, <2>2, <2>4, LanesStay, ParentWaits DEF MpLanes
<1> QED BY <1>1, <1>2, <1>3, <1>4, <1>5

\* When the workers are stopped nothing else of them changes.
LEMMA AllGone ==
    ASSUME M!TypeOK, worker' = [i \in M!Workers |-> [worker[i] EXCEPT !.at = "gone"]]
    PROVE  /\ worker' \in [M!Workers -> WorkerState]
           /\ \A i \in M!Workers : /\ worker'[i].at = "gone"
                                   /\ worker'[i].nonce = worker[i].nonce
                                   /\ worker'[i].done = worker[i].done
<1>1. \A i \in M!Workers : worker[i] \in WorkerState
  BY RestTyped
<1>2. \A i \in M!Workers : [worker[i] EXCEPT !.at = "gone"] \in WorkerState
  BY <1>1 DEF WorkerState, Labels
<1>3. \A i \in M!Workers : worker'[i] = [worker[i] EXCEPT !.at = "gone"]
  OBVIOUS
<1>4. worker' \in [M!Workers -> WorkerState]
  BY <1>2
<1> QED BY <1>1, <1>3, <1>4 DEF WorkerState

LEMMA ParentKeepsLanes ==
    ASSUME MpLanes, M!ParentStep \/ M!Abort \/ M!Expire
    PROVE  MpLanes'
<1>0. M!TypeOK
  BY DEF MpLanes
<1>1. CASE M!Get
  <2>1. PICK m \in queue :
          /\ queue' = queue \ {m}
          /\ total' = total + m.done
          /\ remaining' = remaining - 1
          /\ \/ m.kind = "found" /\ result' = m.nonce /\ flag' = TRUE
             \/ m.kind = "done" /\ UNCHANGED <<result, flag>>
    BY <1>1 DEF M!Get
  <2>2. /\ parent = "get" /\ remaining > 0
        /\ UNCHANGED <<wins, tried, expired, worker, signalled, parent>>
    BY <1>1 DEF M!Get
  <2>3. m \in Mail /\ m.done \in Nat /\ total \in Nat /\ remaining \in 0..NWorkers
    BY <1>0, RestTyped DEF Mail
  <2>4. total' \in Nat /\ remaining' \in 0..NWorkers
    BY <2>1, <2>2, <2>3, Numbers
  <2>5. result' \subseteq tried \cap wins
    BY <2>1 DEF MpLanes
  <2>6. M!TypeOK'
    BY <1>0, <2>1, <2>2, <2>4, <2>5 DEF M!TypeOK
  <2>7. \A i \in M!Workers : WorkerFits(i)' /\ Ahead(i)'
    BY <2>2 DEF MpLanes, WorkerFits, Ahead, Hashed
  <2> QED BY <2>1, <2>2, <2>5, <2>6, <2>7 DEF MpLanes
<1>2. CASE M!Return \/ M!StopDaemons
  <2>1. /\ worker' = [i \in M!Workers |-> [worker[i] EXCEPT !.at = "gone"]]
        /\ parent' \in {"returned", "dead"}
        /\ UNCHANGED <<wins, tried, expired, flag, signalled, queue, remaining, result, total>>
    BY <1>2 DEF M!Return, M!StopDaemons
  <2>2. /\ worker' \in [M!Workers -> WorkerState]
        /\ \A i \in M!Workers : /\ worker'[i].at = "gone"
                                /\ worker'[i].nonce = worker[i].nonce
                                /\ worker'[i].done = worker[i].done
    BY <1>0, <2>1, AllGone
  <2>3. M!TypeOK'
    BY <1>0, <2>1, <2>2 DEF M!TypeOK, WorkerState, Labels
  <2>4. \A i \in M!Workers : WorkerFits(i)' /\ Ahead(i)'
    BY <2>1, <2>2 DEF MpLanes, WorkerFits, Ahead, Hashed
  <2> QED BY <2>1, <2>2, <2>3, <2>4 DEF MpLanes
<1>3. CASE M!Abort \/ M!Expire
  <2>1. /\ UNCHANGED <<wins, tried, flag, worker, signalled, queue, remaining, result, total>>
        /\ \/ parent' = "raised" /\ UNCHANGED expired
           \/ expired' = TRUE /\ UNCHANGED parent
    BY <1>3 DEF M!Abort, M!Expire, M!parentVars
  <2>2. M!TypeOK'
    BY <1>0, <2>1 DEF M!TypeOK
  <2>3. \A i \in M!Workers : WorkerFits(i)' /\ Ahead(i)'
    BY <2>1 DEF MpLanes, WorkerFits, Ahead, Hashed
  <2> QED BY <2>1, <2>2, <2>3 DEF MpLanes
<1> QED BY <1>1, <1>2, <1>3 DEF M!ParentStep

LEMMA MpLanesStep == ASSUME MpLanes, M!Next PROVE MpLanes'
<1>1. CASE \E i \in M!Workers : M!WorkerStep(i) \/ M!Interrupted(i) \/ M!CutShort(i) \/ M!Killed(i)
  BY <1>1, LeaveKeepsLanes, BeginKeepsLanes, HashKeepsLanes, EndingsKeepLanes DEF M!WorkerStep
<1> QED BY <1>1, ParentKeepsLanes DEF M!Next

\* What was hashed is a finite set, and so is any part of it.
LEMMA HashedIsFinite ==
    ASSUME M!TypeOK
    PROVE  /\ IsFiniteSet(tried) /\ (\A s \in SUBSET tried : IsFiniteSet(s))
           /\ \A i \in M!Workers : IsFiniteSet(Hashed(i)) /\ Hashed(i) \subseteq tried
           /\ IsFiniteSet(Told) /\ Told \subseteq M!Workers
<1>1. \A s \in SUBSET tried : IsFiniteSet(s)
  BY WorkerNumbers, FS_Subset DEF M!TypeOK
<1>2. \A i \in M!Workers : Hashed(i) \subseteq tried
  BY DEF Hashed
<1>3. Told \subseteq M!Workers
  BY DEF Told
<1> QED BY <1>1, <1>2, <1>3, WorkerNumbers, FS_Subset

\* A worker puts its one message, and leaves.
LEMMA PostKeepsCounts ==
    ASSUME MpLanes, MpCounts, NEW i \in M!Workers, worker[i].at \in {"look", "tell"},
           Goes(i, "leave"), NEW mail, mail.from = i, mail.done = Cardinality(Hashed(i)),
           worker[i].at = "tell" => mail.kind = "found", queue' = queue \cup {mail},
           UNCHANGED <<wins, tried, parent, remaining, result, total>>
    PROVE  MpCounts'
<1>1. /\ worker'[i].at = "leave" /\ \A j \in M!Workers \ {i} : worker'[j] = worker[j]
      /\ \A j \in M!Workers : Hashed(j)' = Hashed(j)
  BY DEF Goes, Hashed
<1>2. \A m \in queue : m.from # i /\ m.from \in M!Workers
  BY RestTyped DEF MpLanes, MpCounts, MessagesCount, Mail
<1>3. \A j \in M!Workers : LaneCounted(j)'
  BY <1>1 DEF MpCounts, LaneCounted
<1>4. MessagesCount'
  <2>1. \A m \in queue' : \/ m = mail
                          \/ m \in queue /\ m.from # i /\ worker'[m.from] = worker[m.from]
                             /\ Hashed(m.from)' = Hashed(m.from)
    BY <1>1, <1>2
  <2>2. \A m \in queue' : worker'[m.from].at \in {"leave", "gone"}
                          /\ m.done = Cardinality(Hashed(m.from)')
    BY <1>1, <2>1 DEF MpCounts, MessagesCount
  <2>3. \A l, m \in queue' : l.from = m.from => l = m
    BY <2>1 DEF MpCounts, MessagesCount
  <2> QED BY <2>2, <2>3 DEF MessagesCount, Hashed
<1>5. Told' = Told
  BY <1>1 DEF Told
<1>6. TotalCounts'
  BY <1>5 DEF MpCounts, TotalCounts
<1>7. WinnerIsTold'
  BY <1>1 DEF MpCounts, WinnerIsTold
<1> QED BY <1>3, <1>4, <1>6, <1>7 DEF MpCounts, ReturnedRight

\* A worker goes on without having hashed, counted or told anything.
LEMMA WalkKeepsCounts ==
    ASSUME MpLanes, MpCounts, NEW i \in M!Workers,
           \A j \in M!Workers \ {i} : worker'[j] = worker[j],
           worker'[i].nonce = worker[i].nonce, worker'[i].done = worker[i].done,
           \/ worker[i].at = "look" /\ worker'[i].at = "hash"
           \/ worker[i].at = "won" /\ worker'[i].at = "tell"
           \/ worker[i].at = "leave" /\ worker'[i].at = "gone",
           UNCHANGED <<wins, tried, queue, parent, remaining, result, total>>
    PROVE  MpCounts'
<1>1. \A j \in M!Workers : Hashed(j)' = Hashed(j)
  BY DEF Hashed
<1>2. \A m \in queue : m.from \in M!Workers
  BY RestTyped DEF MpLanes, Mail
<1>3. \A j \in M!Workers : LaneCounted(j)'
  BY <1>1 DEF MpCounts, LaneCounted
<1>4. MessagesCount'
  <2>1. \A m \in queue' : worker'[m.from].at \in {"leave", "gone"}
                          /\ m.done = Cardinality(Hashed(m.from)')
    BY <1>1, <1>2 DEF MpCounts, MessagesCount
  <2> QED BY <2>1 DEF MpCounts, MessagesCount, Hashed
<1>5. Told' = Told
  BY DEF Told
<1>6. TotalCounts'
  BY <1>5 DEF MpCounts, TotalCounts
<1>7. WinnerIsTold'
  BY DEF MpCounts, WinnerIsTold
<1> QED BY <1>3, <1>4, <1>6, <1>7 DEF MpCounts, ReturnedRight

LEMMA HashKeepsCounts ==
    ASSUME MpLanes, MpCounts, NEW i \in M!Workers, M!Hash(i)
    PROVE  MpCounts'
<1>1. /\ worker[i].at = "hash" /\ tried' = tried \cup {worker[i].nonce}
      /\ UNCHANGED <<wins, expired, flag, signalled, queue, parent, remaining, result, total>>
      /\ \A j \in M!Workers \ {i} : worker'[j] = worker[j] /\ Hashed(j)' = Hashed(j)
      /\ Hashed(i)' = Hashed(i) \cup {worker[i].nonce} /\ worker[i].nonce \notin Hashed(i)
  BY HashEffect
<1>2. \/ /\ worker[i].nonce \in wins /\ worker'[i].at = "won"
         /\ worker'[i].nonce = worker[i].nonce /\ worker'[i].done = worker[i].done
      \/ /\ worker[i].nonce \notin wins
         /\ worker'[i].done = worker[i].done + 1
         /\ worker'[i].at \in {"look", "hash"}
  BY HashEffect
<1>3. worker[i].nonce % NWorkers = i /\ M!TypeOK
  BY <1>1, WorkerNonce DEF MpLanes
<1>4. \A m \in queue : m.from # i /\ m.from \in M!Workers
  BY <1>1, RestTyped DEF MpLanes, MpCounts, MessagesCount, Mail
<1>5. Cardinality(Hashed(i)') = worker[i].done + 1
  <2>1. Cardinality(Hashed(i)) = worker[i].done /\ IsFiniteSet(Hashed(i))
    BY <1>1, <1>3, HashedIsFinite DEF MpCounts, LaneCounted
  <2>2. Cardinality(Hashed(i) \cup {worker[i].nonce}) = Cardinality(Hashed(i)) + 1
    BY <1>1, <2>1, FS_AddElement
  <2> QED BY <1>1, <2>1, <2>2
<1>6. \A j \in M!Workers : LaneCounted(j)'
  BY <1>1, <1>2, <1>5 DEF MpCounts, LaneCounted
<1>7. MessagesCount'
  <2>1. \A m \in queue' : worker'[m.from].at \in {"leave", "gone"}
                          /\ m.done = Cardinality(Hashed(m.from)')
    BY <1>1, <1>4 DEF MpCounts, MessagesCount
  <2> QED BY <1>1, <2>1 DEF MpCounts, MessagesCount, Hashed
<1>8. Told' = Told /\ i \notin Told
  BY <1>1, <1>2 DEF Told
<1>9. {n \in tried' : n % NWorkers \in Told'} = {n \in tried : n % NWorkers \in Told}
  BY <1>1, <1>3, <1>8
<1>10. TotalCounts'
  BY <1>1, <1>8, <1>9 DEF MpCounts, TotalCounts
<1>11. WinnerIsTold'
  <2> SUFFICES ASSUME parent = "get", result = {}, NEW n \in tried' \cap wins
               PROVE  \/ \E j \in M!Workers : worker'[j].nonce = n /\ worker'[j].at \in {"won", "tell"}
                      \/ \E m \in queue : m.kind = "found"
    BY <1>1 DEF WinnerIsTold
  <2>1. CASE n = worker[i].nonce
    BY <1>2, <2>1
  <2>2. CASE n \in tried
    BY <1>1, <2>2 DEF MpCounts, WinnerIsTold
  <2> QED BY <1>1, <2>1, <2>2
<1>12. parent # "returned"
  BY <1>1, ParentWaits
<1> QED BY <1>1, <1>6, <1>7, <1>10, <1>11, <1>12 DEF MpCounts, ReturnedRight

LEMMA GetKeepsCounts == ASSUME MpLanes, MpCounts, M!Get PROVE MpCounts'
<1>1. PICK m \in queue :
          /\ queue' = queue \ {m}
          /\ total' = total + m.done
          /\ remaining' = remaining - 1
          /\ \/ m.kind = "found" /\ result' = m.nonce
             \/ m.kind = "done" /\ UNCHANGED result
  BY DEF M!Get
<1>2. /\ parent = "get" /\ remaining > 0 /\ M!TypeOK
      /\ UNCHANGED <<wins, tried, worker, parent>>
  BY DEF M!Get, MpLanes
<1>3. /\ m.from \in M!Workers /\ m.done = Cardinality(Hashed(m.from))
      /\ worker[m.from].at \in {"leave", "gone"}
      /\ \A l \in queue : l.from = m.from => l = m
      /\ total \in Nat /\ remaining \in Nat
  BY <1>2, RestTyped, Numbers DEF MpCounts, MessagesCount, Mail
<1>4. \A j \in M!Workers : Hashed(j)' = Hashed(j)
  BY <1>2 DEF Hashed
<1>5. \A j \in M!Workers : LaneCounted(j)'
  BY <1>2, <1>4 DEF MpCounts, LaneCounted
<1>6. MessagesCount'
  BY <1>1, <1>2, <1>4 DEF MpCounts, MessagesCount, Hashed
<1>7. Told' = Told \cup {m.from} /\ m.from \notin Told
  BY <1>1, <1>2, <1>3 DEF Told
<1>8. TotalCounts'
  <2>1. Cardinality(Told') = Cardinality(Told) + 1 /\ Cardinality(Told) \in Nat
    BY <1>2, <1>7, HashedIsFinite, FS_AddElement, FS_CardinalityType
  <2> DEFINE heard == {n \in tried : n % NWorkers \in Told}
  <2>2. {n \in tried' : n % NWorkers \in Told'} = heard \cup Hashed(m.from)
    BY <1>2, <1>7 DEF Hashed
  <2>3. heard \cap Hashed(m.from) = {}
    BY <1>7 DEF Hashed
  <2>4. IsFiniteSet(heard) /\ IsFiniteSet(Hashed(m.from))
    BY <1>2, <1>3, HashedIsFinite
  <2>5. total = Cardinality(heard) /\ remaining + Cardinality(Told) = NWorkers
    BY <1>2 DEF MpCounts, TotalCounts
  <2> HIDE DEF heard
  <2>6. Cardinality(heard \cup Hashed(m.from)) = Cardinality(heard) + Cardinality(Hashed(m.from))
    <3>1. Cardinality({}) = 0
      BY FS_EmptySet
    <3>2. Cardinality(heard) \in Nat /\ Cardinality(Hashed(m.from)) \in Nat
      BY <2>4, FS_CardinalityType
    <3>3. Cardinality(heard \cup Hashed(m.from)) =
             Cardinality(heard) + Cardinality(Hashed(m.from)) - Cardinality(heard \cap Hashed(m.from))
      BY <2>4, FS_Union
    <3>4. \A a, b, c \in Nat : c = 0 => a + b - c = a + b
      OBVIOUS
    <3>5. Cardinality(heard \cap Hashed(m.from)) = 0
      BY <2>3, <3>1
    <3> QED BY <3>2, <3>3, <3>4, <3>5
  <2>7. total' = Cardinality({n \in tried' : n % NWorkers \in Told'})
    BY <1>1, <1>3, <2>2, <2>5, <2>6
  <2>8. remaining' + Cardinality(Told') = NWorkers
    BY <1>1, <1>3, <2>1, <2>5
  <2> QED BY <2>7, <2>8 DEF TotalCounts
<1>9. WinnerIsTold'
  <2>1. CASE m.kind = "found"
    <3>1. result' = m.nonce /\ \E n \in tried \cap wins : m.nonce = {n}
      BY <1>1, <2>1 DEF MpLanes
    <3> QED BY <3>1 DEF WinnerIsTold
  <2>2. CASE m.kind = "done"
    BY <1>1, <1>2, <2>2 DEF MpCounts, WinnerIsTold
  <2> QED BY <1>1, <2>1, <2>2
<1> QED BY <1>2, <1>5, <1>6, <1>8, <1>9 DEF MpCounts, ReturnedRight

LEMMA EndKeepsCounts ==
    ASSUME MpLanes, MpCounts, M!Return \/ M!StopDaemons
    PROVE  MpCounts'
<1>1. /\ worker' = [i \in M!Workers |-> [worker[i] EXCEPT !.at = "gone"]]
      /\ parent' \in {"returned", "dead"} /\ M!TypeOK
      /\ UNCHANGED <<wins, tried, queue, remaining, result, total>>
  BY DEF M!Return, M!StopDaemons, MpLanes
<1>2. \A j \in M!Workers : worker'[j].at = "gone" /\ Hashed(j)' = Hashed(j)
  BY <1>1, AllGone DEF Hashed
<1>3. \A m \in queue : m.from \in M!Workers
  BY <1>1, RestTyped DEF Mail
<1>4. \A j \in M!Workers : LaneCounted(j)'
  BY <1>2 DEF LaneCounted
<1>5. MessagesCount'
  <2>1. \A m \in queue' : worker'[m.from].at \in {"leave", "gone"}
                          /\ m.done = Cardinality(Hashed(m.from)')
    BY <1>1, <1>2, <1>3 DEF MpCounts, MessagesCount
  <2> QED BY <1>1, <2>1 DEF MpCounts, MessagesCount, Hashed
<1>6. ASSUME M!Return PROVE total = Cardinality(tried) /\ (result = {} => tried \cap wins = {})
  <2>1. parent = "get" /\ remaining = 0
    BY <1>6 DEF M!Return
  <2>2. Cardinality(Told) = NWorkers
    <3>1. 0 + Cardinality(Told) = NWorkers /\ Cardinality(Told) \in Nat
      BY <1>1, <2>1, HashedIsFinite, FS_CardinalityType DEF MpCounts, TotalCounts
    <3> QED BY <3>1
  <2>3. Told = M!Workers
    BY <1>1, <2>2, HashedIsFinite, WorkerNumbers, FS_Subset
  <2>4. {n \in tried : n % NWorkers \in Told} = tried
    BY <1>1, <2>3, WorkerNumbers DEF M!TypeOK
  <2>5. total = Cardinality(tried)
    BY <2>1, <2>4 DEF MpCounts, TotalCounts
  <2>6. \A i \in M!Workers : worker[i].at \notin {"won", "tell"}
    BY <2>3 DEF Told
  <2>7. queue = {}
    BY <1>3, <2>3 DEF Told
  <2>8. result = {} => tried \cap wins = {}
    BY <2>1, <2>6, <2>7 DEF MpCounts, WinnerIsTold
  <2> QED BY <2>5, <2>8
<1>7. ReturnedRight'
  <2>1. CASE M!Return
    BY <1>1, <1>6, <2>1 DEF ReturnedRight
  <2>2. CASE M!StopDaemons
    BY <2>2 DEF M!StopDaemons, ReturnedRight
  <2> QED BY <2>1, <2>2
<1>8. TotalCounts' /\ WinnerIsTold'
  BY <1>1 DEF TotalCounts, WinnerIsTold
<1> QED BY <1>4, <1>5, <1>7, <1>8 DEF MpCounts

LEMMA MpInvStep == ASSUME MpInv, M!Next PROVE MpInv'
<1>1. MpLanes /\ MpLanes'
  BY MpLanesStep DEF MpInv
<1> SUFFICES ASSUME signalled' = {} PROVE MpCounts'
  BY <1>1 DEF MpInv
<1>2. ASSUME NEW i \in M!Workers PROVE ~(M!Interrupted(i) \/ M!CutShort(i) \/ M!Killed(i))
  BY DEF M!Interrupted, M!CutShort, M!Killed, M!Signal
<1>3. signalled = {}
  BY <1>2 DEF M!Next, M!WorkerStep, M!Leave, M!Begin, M!Hash, M!RaiseFlag, M!Tell, M!Exit,
              M!ParentStep, M!Get, M!Return, M!StopDaemons, M!Abort, M!Expire
<1>4. MpCounts /\ M!TypeOK
  BY <1>3 DEF MpInv, MpLanes
<1>5. ASSUME NEW i \in M!Workers, M!Leave(i) PROVE MpCounts'
  <2>1. /\ worker[i].at = "look" /\ worker' = [worker EXCEPT ![i].at = "leave"]
        /\ queue' = queue \cup {M!DoneMessage(i)}
        /\ UNCHANGED <<wins, tried, parent, remaining, result, total>>
    BY <1>5 DEF M!Leave, M!At, M!parentVars
  <2>2. Goes(i, "leave")
    BY <1>4, <2>1, WorkerGoes DEF Labels
  <2>3. M!DoneMessage(i).from = i /\ M!DoneMessage(i).done = Cardinality(Hashed(i))
    BY <1>4, <2>1, MailIsTyped DEF MpCounts, LaneCounted
  <2> QED BY <1>1, <1>4, <2>1, <2>2, <2>3, PostKeepsCounts
<1>6. ASSUME NEW i \in M!Workers, M!Tell(i) PROVE MpCounts'
  <2> DEFINE mail == M!Message(i, "found", M!HashesOfWinner(i), {worker[i].nonce})
  <2>1. /\ worker[i].at = "tell" /\ worker' = [worker EXCEPT ![i].at = "leave"]
        /\ queue' = queue \cup {mail}
        /\ UNCHANGED <<wins, tried, parent, remaining, result, total>>
    BY <1>6 DEF M!Tell, M!At, M!parentVars
  <2>2. Goes(i, "leave")
    BY <1>4, <2>1, WorkerGoes DEF Labels
  <2>3. mail.from = i /\ mail.done = worker[i].done + 1 /\ mail.kind = "found"
    BY DEF M!Message, M!HashesOfWinner
  <2>4. mail.done = Cardinality(Hashed(i))
    BY <1>4, <2>1, <2>3 DEF MpCounts, LaneCounted
  <2> HIDE DEF mail
  <2> QED BY <1>1, <1>4, <2>1, <2>2, <2>3, <2>4, PostKeepsCounts
<1>7. ASSUME NEW i \in M!Workers, M!Begin(i) PROVE MpCounts'
  <2>1. /\ worker[i].at = "look"
        /\ worker' = [worker EXCEPT ![i].at = "hash", ![i].batch = @ + 1]
        /\ UNCHANGED <<wins, tried, queue, parent, remaining, result, total>>
    BY <1>7 DEF M!Begin, M!At, M!parentVars
  <2>2. worker \in [M!Workers -> WorkerState] /\ worker[i] \in WorkerState
    BY <1>4, RestTyped
  <2>3. worker' = [worker EXCEPT ![i] = [worker[i] EXCEPT !.at = "hash", !.batch = worker[i].batch + 1]]
    BY <2>1
  <2>4. /\ worker'[i].at = "hash"
        /\ worker'[i].nonce = worker[i].nonce /\ worker'[i].done = worker[i].done
        /\ \A j \in M!Workers \ {i} : worker'[j] = worker[j]
    BY <2>2, <2>3 DEF WorkerState
  <2> QED BY <1>1, <1>4, <2>1, <2>4, WalkKeepsCounts
<1>8. ASSUME NEW i \in M!Workers, M!RaiseFlag(i) PROVE MpCounts'
  <2>1. /\ worker[i].at = "won" /\ worker' = [worker EXCEPT ![i].at = "tell"]
        /\ UNCHANGED <<wins, tried, queue, parent, remaining, result, total>>
    BY <1>8 DEF M!RaiseFlag, M!At, M!parentVars
  <2>2. Goes(i, "tell")
    BY <1>4, <2>1, WorkerGoes DEF Labels
  <2> QED BY <1>1, <1>4, <2>1, <2>2, WalkKeepsCounts DEF Goes
<1>9. ASSUME NEW i \in M!Workers, M!Exit(i) PROVE MpCounts'
  <2>1. /\ worker[i].at = "leave" /\ worker' = [worker EXCEPT ![i].at = "gone"]
        /\ UNCHANGED <<wins, tried, queue, parent, remaining, result, total>>
    BY <1>9 DEF M!Exit, M!At, M!parentVars
  <2>2. Goes(i, "gone")
    BY <1>4, <2>1, WorkerGoes DEF Labels
  <2> QED BY <1>1, <1>4, <2>1, <2>2, WalkKeepsCounts DEF Goes
<1>10. CASE M!Abort \/ M!Expire
  <2>1. /\ UNCHANGED <<wins, tried, worker, queue, remaining, result, total>>
        /\ parent' = "raised" \/ parent' = parent
    BY <1>10 DEF M!Abort, M!Expire, M!parentVars
  <2>2. \A j \in M!Workers : LaneCounted(j)'
    BY <1>4, <2>1 DEF MpCounts, LaneCounted, Hashed
  <2>3. MessagesCount'
    BY <1>4, <2>1 DEF MpCounts, MessagesCount, Hashed
  <2>4. TotalCounts' /\ WinnerIsTold' /\ ReturnedRight'
    BY <1>4, <2>1 DEF MpCounts, TotalCounts, Told, WinnerIsTold, ReturnedRight
  <2> QED BY <2>2, <2>3, <2>4 DEF MpCounts
<1> QED BY <1>1, <1>2, <1>4, <1>5, <1>6, <1>7, <1>8, <1>9, <1>10, HashKeepsCounts, GetKeepsCounts,
           EndKeepsCounts DEF M!Next, M!WorkerStep, M!ParentStep

\* What solve reports as hashes is what its workers hashed.
LEMMA TotalIsRight == ASSUME MpInv PROVE M!TotalIsTried
<1>1. M!Cardinality(tried) = Cardinality(tried)
  BY DEF M!Cardinality, Cardinality
<1> QED BY <1>1 DEF MpInv, MpCounts, ReturnedRight, M!TotalIsTried, M!Disturbed

-----------------------------------------------------------------------------
(* Whichever search was started.                                           *)

SearcherInv ==
    /\ search \in {"mp", "cuda", "keccak", "miner"}
    /\ Is("mp") => MpInv
    /\ Is("cuda") => CudaInv
    /\ Is("keccak") => KeccakInv
    /\ Is("miner") => MinerInv

LEMMA SearcherInvInit == ASSUME Init PROVE SearcherInv
BY MpInvInit, CudaInvInit, KeccakInvInit, MinerInvInit DEF Init, SearcherInv, Is

LEMMA MpInvStutters == ASSUME MpInv, UNCHANGED vars PROVE MpInv'
<1>1. UNCHANGED <<wins, tried, expired, flag, worker, signalled, queue, parent, remaining,
                  result, total>>
  BY DEF vars, mpOnly
<1>2. M!TypeOK' <=> M!TypeOK
  BY <1>1 DEF M!TypeOK
<1>3. \A i \in M!Workers : /\ WorkerFits(i)' <=> WorkerFits(i)
                           /\ Ahead(i)' <=> Ahead(i)
                           /\ LaneCounted(i)' <=> LaneCounted(i)
  BY <1>1 DEF WorkerFits, Ahead, LaneCounted, Hashed
<1>4. MpLanes' <=> MpLanes
  BY <1>1, <1>2, <1>3 DEF MpLanes
<1>5. (MessagesCount' <=> MessagesCount) /\ Told' = Told
  BY <1>1 DEF MessagesCount, Hashed, Told
<1>6. /\ TotalCounts' <=> TotalCounts
      /\ WinnerIsTold' <=> WinnerIsTold
      /\ ReturnedRight' <=> ReturnedRight
  BY <1>1, <1>5 DEF TotalCounts, WinnerIsTold, ReturnedRight
<1> QED BY <1>1, <1>3, <1>4, <1>5, <1>6 DEF MpInv, MpCounts

LEMMA CudaInvStutters == ASSUME CudaInv, UNCHANGED vars PROVE CudaInv'
<1>1. UNCHANGED <<wins, tried, expired, flag, slot, thread, cursor, host, printed, skipped>>
  BY DEF vars, cudaOnly
<1>2. (D!TypeOK' <=> D!TypeOK) /\ (D!KernelOver' <=> D!KernelOver) /\ Behind' = Behind
  BY <1>1 DEF D!TypeOK, D!KernelOver, D!At, Behind
<1>3. \A t \in D!Threads : D!NonceOf(t)' = D!NonceOf(t)
  BY <1>1 DEF D!NonceOf
<1> QED BY <1>1, <1>2, <1>3 DEF CudaInv

LEMMA OthersStutter ==
    ASSUME UNCHANGED vars
    PROVE  (KeccakInv => KeccakInv') /\ (MinerInv => MinerInv')
BY DEF vars, keccakOnly, minerOnly, KeccakInv, K!TypeOK, MinerInv, P!TypeOK

LEMMA SearcherInvStep == ASSUME SearcherInv, [Next]_vars PROVE SearcherInv'
<1>1. CASE UNCHANGED vars
  <2>1. search' = search
    BY <1>1 DEF vars
  <2> QED BY <1>1, <2>1, MpInvStutters, CudaInvStutters, OthersStutter DEF SearcherInv, Is
<1>2. CASE Next
  <2>1. search' = search
    BY <1>2 DEF Next
  <2>2. Is("mp") => MpInv'
    BY <1>2, MpInvStep DEF Next, SearcherInv, Is
  <2>3. Is("cuda") => CudaInv'
    BY <1>2, CudaInvStep DEF Next, SearcherInv, Is
  <2>4. Is("keccak") => KeccakInv'
    BY <1>2, KeccakInvStep DEF Next, SearcherInv, Is
  <2>5. Is("miner") => MinerInv'
    BY <1>2, MinerInvStep DEF Next, SearcherInv, Is
  <2> QED BY <2>1, <2>2, <2>3, <2>4, <2>5 DEF SearcherInv, Is
<1> QED BY <1>1, <1>2

LEMMA SearcherInvariant == Spec => []SearcherInv
<1>1. Init => SearcherInv
  BY SearcherInvInit
<1>2. SearcherInv /\ [Next]_vars => SearcherInv'
  BY SearcherInvStep
<1> QED BY <1>1, <1>2, PTL DEF Spec

\* The types of the search that runs: the nonces of workers, lanes and threads
\* stay within what they were started on.
THEOREM SearcherTypesCorrect == Spec => []TypeOK
<1>1. SearcherInv => TypeOK
  BY DEF SearcherInv, TypeOK, MpInv, MpLanes, CudaInv, KeccakInv, MinerInv
<1> QED BY <1>1, SearcherInvariant, PTL

\* solve reports as hashes what its workers hashed, however many workers there
\* are and however their messages arrive.
THEOREM TotalsAreTrue == Spec => []TotalIsTried
<1>1. SearcherInv => TotalIsTried
  BY TotalIsRight DEF SearcherInv, TotalIsTried
<1> QED BY <1>1, SearcherInvariant, PTL

\* The CUDA miner says NONE of a range whose only gaps are the slices of refused
\* launches, for every number of threads, iterations and launches, refused or not.
THEOREM GapsOfNone == Spec => []OnlyRefusedLaunchesLeaveGaps
<1>1. SearcherInv => OnlyRefusedLaunchesLeaveGaps
  BY GapsAreRefusals DEF SearcherInv, OnlyRefusedLaunchesLeaveGaps
<1> QED BY <1>1, SearcherInvariant, PTL

\* miner.py's None and its count, and verify_correctness.py's "ALL CHECKS
\* PASSED", are what they say.
THEOREM MinerVerdictsTrue == Spec => []MinerVerdictsHold
<1>1. SearcherInv => MinerVerdictsHold
  BY MinerVerdicts DEF SearcherInv, MinerVerdictsHold
<1> QED BY <1>1, SearcherInvariant, PTL

-----------------------------------------------------------------------------
(* Every search implements NonceSearch, step by step.                      *)

AllNonces == M!Nonces \cup D!Nonces \cup K!Nonces \cup P!Nonces

Found == CASE Is("mp") -> result [] Is("cuda") -> printed
           [] Is("keccak") -> said [] OTHER -> got

Over == CASE Is("mp") -> M!HowEnded [] Is("cuda") -> D!HowEnded
          [] Is("keccak") -> K!HowEnded [] OTHER -> P!HowEnded

\* A step of a search, seen from outside.
Tries ==
    /\ Over = "no" /\ Over' = "no" /\ Found' = Found /\ wins' = wins
    /\ \E n \in AllNonces : tried' = tried \cup {n}

HandsOver ==
    /\ Over = "no" /\ Over' = "no" /\ UNCHANGED <<wins, tried>>
    /\ \E n \in tried \cap wins : Found' = {n}

Ends ==
    /\ Over = "no" /\ Found' = Found /\ UNCHANGED <<wins, tried>>
    /\ \/ Over' = "ended" /\ (Found = {} => tried \cap wins = {})
       \/ Over' = "failed"

Rests == UNCHANGED <<wins, tried>> /\ Found' = Found /\ Over' = Over

Seen == Tries \/ HandsOver \/ Ends \/ Rests

LEMMA SeenIsAllowed == ASSUME Seen PROVE [Search!Next]_Search!searchVars
<1>1. CASE Tries
  <2>1. PICK n \in AllNonces : tried' = tried \cup {n}
    BY <1>1 DEF Tries
  <2>2. CASE n \in tried
    <3>1. UNCHANGED <<wins, tried, Found, Over>>
      BY <1>1, <2>1, <2>2 DEF Tries
    <3> QED BY <3>1 DEF Search!searchVars, Found, Over
  <2>3. CASE n \notin tried
    <3>1. Search!Try
      BY <1>1, <2>1, <2>3 DEF Tries, Search!Try, Found, Over, AllNonces
    <3> QED BY <3>1 DEF Search!Next
  <2> QED BY <2>2, <2>3
<1>2. CASE HandsOver
  <2>1. Search!HandOver
    BY <1>2 DEF HandsOver, Search!HandOver, Found, Over
  <2> QED BY <2>1 DEF Search!Next
<1>3. CASE Ends
  <2>1. Search!End
    BY <1>3 DEF Ends, Search!End, Found, Over
  <2> QED BY <2>1 DEF Search!Next
<1>4. CASE Rests
  BY <1>4 DEF Rests, Search!searchVars, Found, Over
<1> QED BY <1>1, <1>2, <1>3, <1>4 DEF Seen

\* solver_mp.py: once solve has returned or died, nothing more happens.
LEMMA MpIsSeen == ASSUME SearcherInv, Is("mp"), M!Next, search' = search PROVE Seen
<1>0. MpInv /\ MpInv' /\ MpLanes /\ M!TypeOK /\ M!Nonces \subseteq AllNonces
  BY MpInvStep DEF SearcherInv, MpInv, MpLanes, AllNonces
<1>1. Found = result /\ Found' = result' /\ Over = M!HowEnded /\ Over' = M!HowEnded'
  BY DEF Found, Over, Is
<1>2. /\ parent \notin {"returned", "dead"} => M!HowEnded = "no"
      /\ parent' \notin {"returned", "dead"} => M!HowEnded' = "no"
  BY DEF M!HowEnded
<1>3. ASSUME NEW i \in M!Workers, M!WorkerStep(i) \/ M!Interrupted(i) \/ M!CutShort(i) \/ M!Killed(i) PROVE Seen
  <2>1. worker[i].at # "gone" /\ UNCHANGED <<wins, parent, result>>
    BY <1>3 DEF M!WorkerStep, M!Leave, M!Begin, M!Hash, M!RaiseFlag, M!Tell, M!Exit, M!Interrupted,
                M!CutShort, M!Killed, M!Signal, M!At, M!parentVars
  <2>2. Over = "no" /\ Over' = "no"
    BY <1>0, <1>1, <1>2, <2>1, ParentWaits
  <2>3. CASE M!Hash(i)
    <3>1. tried' = tried \cup {worker[i].nonce} /\ worker[i].nonce \in M!Nonces
      BY <1>0, <2>3, HashEffect, WorkerNonce
    <3> QED BY <1>0, <1>1, <2>1, <2>2, <3>1 DEF Seen, Tries
  <2>4. CASE ~M!Hash(i)
    <3>1. tried' = tried
      BY <1>3, <2>4 DEF M!WorkerStep, M!Leave, M!Begin, M!RaiseFlag, M!Tell, M!Exit, M!Interrupted,
                        M!CutShort, M!Killed, M!Signal
    <3> QED BY <1>1, <2>1, <2>2, <3>1 DEF Seen, Rests
  <2> QED BY <2>3, <2>4
<1>4. CASE M!Get
  <2>1. /\ parent = "get" /\ UNCHANGED <<wins, tried, parent>>
        /\ \/ \E m \in queue : m.kind = "found" /\ result' = m.nonce
           \/ UNCHANGED result
    BY <1>4 DEF M!Get
  <2>2. Over = "no" /\ Over' = "no"
    BY <1>1, <1>2, <2>1
  <2>3. (\E n \in tried \cap wins : result' = {n}) \/ UNCHANGED result
    BY <1>0, <2>1 DEF MpLanes
  <2> QED BY <1>1, <2>1, <2>2, <2>3 DEF Seen, HandsOver, Rests
<1>5. CASE M!Return
  <2>1. parent = "get" /\ parent' = "returned" /\ UNCHANGED <<wins, tried, signalled, result>>
    BY <1>5 DEF M!Return
  <2>2. Over = "no"
    BY <1>1, <1>2, <2>1
  <2>3. CASE signalled = {}
    <3>1. Over' = "ended"
      BY <1>1, <2>1, <2>3 DEF M!HowEnded, M!Disturbed
    <3>2. result = {} => tried \cap wins = {}
      BY <1>0, <2>1, <2>3 DEF MpInv, MpCounts, ReturnedRight
    <3> QED BY <1>1, <2>1, <2>2, <3>1, <3>2 DEF Seen, Ends
  <2>4. CASE signalled # {}
    <3>1. Over' = "failed"
      BY <1>1, <2>1, <2>4 DEF M!HowEnded, M!Disturbed
    <3> QED BY <1>1, <2>1, <2>2, <3>1 DEF Seen, Ends
  <2> QED BY <2>3, <2>4
<1>6. CASE M!StopDaemons
  <2>1. parent = "raised" /\ parent' = "dead" /\ UNCHANGED <<wins, tried, result>>
    BY <1>6 DEF M!StopDaemons
  <2>2. Over = "no" /\ Over' = "failed"
    BY <1>1, <2>1 DEF M!HowEnded
  <2> QED BY <1>1, <2>1, <2>2 DEF Seen, Ends
<1>7. CASE M!Abort
  <2>1. parent = "get" /\ parent' = "raised" /\ UNCHANGED <<wins, tried, result>>
    BY <1>7 DEF M!Abort
  <2> QED BY <1>1, <1>2, <2>1 DEF Seen, Rests
<1>8. CASE M!Expire
  <2>1. UNCHANGED <<wins, tried, result, parent, signalled>>
    BY <1>8 DEF M!Expire, M!parentVars
  <2>2. M!HowEnded' = M!HowEnded
    BY <2>1 DEF M!HowEnded, M!Disturbed
  <2> QED BY <1>1, <2>1, <2>2 DEF Seen, Rests
<1> QED BY <1>3, <1>4, <1>5, <1>6, <1>7, <1>8 DEF M!Next, M!ParentStep

LEMMA CudaIsSeen == ASSUME SearcherInv, Is("cuda"), D!Next, search' = search PROVE Seen
<1>0. CudaInv /\ D!TypeOK /\ D!Nonces \subseteq AllNonces
  BY DEF SearcherInv, CudaInv, AllNonces
<1>1. Found = printed /\ Found' = printed' /\ Over = D!HowEnded /\ Over' = D!HowEnded'
  BY DEF Found, Over, Is
<1>2. ASSUME NEW t \in D!Threads, D!KernelStep(t) PROVE Seen
  <2>1. host = "sync" /\ UNCHANGED <<wins, host, printed>>
    BY <1>0, <1>2, KernelFrame
  <2>2. Over = "no" /\ Over' = "no"
    BY <1>1, <2>1 DEF D!HowEnded
  <2>3. CASE D!Hash(t)
    <3>1. tried' = tried \cup {D!NonceOf(t)} /\ thread[t].it < Iters
      BY <1>0, <2>3 DEF D!Hash, D!At, CudaInv
    <3>2. D!NonceOf(t) \in D!Nonces
      BY <1>0, <2>1, <3>1, ThreadNonce
    <3> QED BY <1>0, <1>1, <2>1, <2>2, <3>1, <3>2 DEF Seen, Tries
  <2>4. CASE D!Look(t) \/ D!Store(t)
    <3>1. tried' = tried
      BY <2>4 DEF D!Look, D!Store
    <3> QED BY <1>1, <2>1, <2>2, <3>1 DEF Seen, Rests
  <2> QED BY <1>2, <2>3, <2>4 DEF D!KernelStep
<1>3. CASE D!Launch \/ D!Expire
  <2>1. /\ UNCHANGED <<wins, tried, printed>>
        /\ host' = host \/ (host = "launch" /\ host' = "sync")
    BY <1>3 DEF D!Launch, D!Expire, D!hostVars
  <2>2. Over' = Over
    BY <1>1, <2>1 DEF D!HowEnded
  <2> QED BY <1>1, <2>1, <2>2 DEF Seen, Rests
<1>4. CASE D!SyncFound
  <2>1. /\ host = "sync" /\ host' = "FOUND" /\ printed' = {slot} /\ D!KernelOver /\ flag
        /\ UNCHANGED <<wins, tried>>
    BY <1>4 DEF D!SyncFound
  <2>2. slot \in tried \cap wins
    BY <1>0, <2>1 DEF CudaInv, D!KernelOver, D!At
  <2>3. Over = "no" /\ Over' = "no"
    BY <1>1, <2>1 DEF D!HowEnded
  <2> QED BY <1>1, <2>1, <2>2, <2>3 DEF Seen, HandsOver
<1>5. CASE D!SyncNothing
  <2>1. /\ host = "sync" /\ host' \in {"NONE", "launch"} /\ ~flag
        /\ UNCHANGED <<wins, tried, printed>>
    BY <1>5 DEF D!SyncNothing
  <2>2. tried \cap wins = {}
    BY <1>0, <2>1 DEF CudaInv
  <2>3. Over = "no" /\ Over' \in {"no", "ended"}
    BY <1>1, <2>1 DEF D!HowEnded
  <2> QED BY <1>1, <2>1, <2>2, <2>3 DEF Seen, Ends, Rests
<1>6. CASE D!CudaError
  <2>1. host = "sync" /\ host' = "error" /\ UNCHANGED <<wins, tried, printed>>
    BY <1>6 DEF D!CudaError
  <2>2. Over = "no" /\ Over' = "failed"
    BY <1>1, <2>1 DEF D!HowEnded
  <2> QED BY <1>1, <2>1, <2>2 DEF Seen, Ends
<1>7. CASE D!LaunchRefused
  <2>1. /\ host = "launch" /\ host' \in {"NONE", "launch"}
        /\ UNCHANGED <<wins, tried, printed>>
    BY <1>7 DEF D!LaunchRefused
  <2>2. tried \cap wins = {}
    BY <1>0, <2>1 DEF CudaInv
  <2>3. Over = "no" /\ Over' \in {"no", "ended"}
    BY <1>1, <2>1 DEF D!HowEnded
  <2> QED BY <1>1, <2>1, <2>2, <2>3 DEF Seen, Ends, Rests
<1> QED BY <1>2, <1>3, <1>4, <1>5, <1>6, <1>7 DEF D!Next, D!HostStep

LEMMA KeccakIsSeen == ASSUME SearcherInv, Is("keccak"), K!Next, search' = search PROVE Seen
<1>0. KeccakInv /\ KeccakInv' /\ K!TypeOK /\ K!Nonces \subseteq AllNonces
  BY KeccakInvStep DEF SearcherInv, KeccakInv, AllNonces
<1>1. Found = said /\ Found' = said' /\ Over = K!HowEnded /\ Over' = K!HowEnded'
  BY DEF Found, Over, Is
<1>2. CASE K!Expire
  <2>1. UNCHANGED <<wins, tried, said, lane>>
    BY <1>2 DEF K!Expire
  <2>2. Over' = Over
    BY <1>1, <2>1 DEF K!HowEnded, K!Exited, K!Running
  <2> QED BY <1>1, <2>1, <2>2 DEF Seen, Rests
<1>3. ASSUME NEW i \in K!Lanes, K!LaneStep(i) PROVE Seen
  <2>1. K!Running(i) /\ wins' = wins
    BY <1>3 DEF K!LaneStep, K!Win, K!Say, K!Exit, K!Miss, K!Rate, K!Terminated, K!LaneGoes, K!Running
  <2>2. Over = "no"
    BY <1>1, <2>1 DEF K!HowEnded, K!Exited
  <2>3. K!Running(i)' => Over' = "no"
    BY <1>1 DEF K!HowEnded, K!Exited, K!Running
  <2>4. /\ Over' \in {"no", "ended", "failed"}
        /\ Over' = "ended" => \A j \in K!Lanes : lane'[j] \in {"FOUND", "NONE"}
    <3>1. \A j \in K!Lanes : lane'[j] \in {"hash", "won", "said", "report", "FOUND", "NONE", "killed"}
      BY <1>0 DEF KeccakInv, K!TypeOK
    <3> QED BY <1>1, <3>1 DEF K!HowEnded, K!Exited, K!Running
  <2>5. Over' = "ended" => (said' = {} => tried' \cap wins' = {})
    BY <1>0, <2>4 DEF KeccakInv
  <2>6. CASE K!Win(i) \/ K!Miss(i)
    <3>1. tried' = tried \cup {nonce[i]} /\ said' = said
      BY <2>6 DEF K!Win, K!Miss, K!Hashing
    <3>2. nonce[i] \in K!Nonces
      <4>1. tried' \subseteq K!Nonces
        BY <1>0 DEF KeccakInv, K!TypeOK
      <4> QED BY <3>1, <4>1
    <3>3. lane'[i] \in {"won", "report", "hash"}
      BY <1>0, <2>6 DEF K!Win, K!Miss, K!LaneGoes, K!TypeOK
    <3>4. Over' = "no"
      BY <2>3, <3>3 DEF K!Running
    <3> QED BY <1>0, <1>1, <2>1, <2>2, <3>1, <3>2, <3>4 DEF Seen, Tries
  <2>7. CASE K!Say(i)
    <3>1. lane[i] = "won" /\ said' = {nonce[i]} /\ lane'[i] = "said" /\ tried' = tried
      BY <1>0, <2>7 DEF K!Say, K!LaneGoes, K!TypeOK
    <3>2. nonce[i] \in tried \cap wins
      BY <1>0, <3>1 DEF KeccakInv
    <3>3. Over' = "no"
      BY <2>3, <3>1 DEF K!Running
    <3> QED BY <1>1, <2>1, <2>2, <3>1, <3>2, <3>3 DEF Seen, HandsOver
  <2>8. CASE K!Exit(i) \/ K!Rate(i) \/ K!Terminated(i)
    <3>1. UNCHANGED <<wins, tried, said>>
      BY <2>8 DEF K!Exit, K!Rate, K!Terminated
    <3>2. CASE Over' = "no"
      BY <1>1, <2>2, <3>1, <3>2 DEF Seen, Rests
    <3>3. CASE Over' # "no"
      <4>1. Over' = "failed" \/ (Over' = "ended" /\ (said = {} => tried \cap wins = {}))
        BY <2>4, <2>5, <3>1, <3>3
      <4> QED BY <1>1, <2>2, <3>1, <4>1 DEF Seen, Ends
    <3> QED BY <3>2, <3>3
  <2> QED BY <1>3, <2>6, <2>7, <2>8 DEF K!LaneStep
<1> QED BY <1>2, <1>3 DEF K!Next

LEMMA MinerIsSeen ==
    ASSUME SearcherInv, ~Is("mp"), ~Is("cuda"), ~Is("keccak"), P!Next, search' = search
    PROVE  Seen
<1>0. MinerInv /\ P!TypeOK /\ P!Nonces \subseteq AllNonces
  BY DEF SearcherInv, MinerInv, AllNonces, Is
<1>1. Found = got /\ Found' = got' /\ Over = P!HowEnded /\ Over' = P!HowEnded'
  BY DEF Found, Over, Is
<1>2. CASE P!Compare \/ P!AssertMatch \/ P!Crash
  <2>1. /\ UNCHANGED <<wins, tried, got>>
        /\ \/ at = "check" /\ at' \in {"check", "search"}
           \/ at \in {"check", "verify"} /\ at' \in {"mismatch", "crashed"}
    BY <1>2 DEF P!Compare, P!AssertMatch, P!Crash, P!Goto
  <2>2. Over = "no" /\ Over' \in {"no", "failed"}
    BY <1>1, <2>1 DEF P!HowEnded
  <2> QED BY <1>1, <2>1, <2>2 DEF Seen, Ends, Rests
<1>3. CASE P!Hash
  <2>1. /\ tried' = tried \cup {next} /\ UNCHANGED <<wins, got>> /\ next < Count
        /\ at = "search" /\ at' \in {"search", "won"}
    BY <1>3 DEF P!Hash, P!Goto, P!InRange
  <2>2. next \in P!Nonces
    BY <1>0, <2>1, Numbers DEF P!TypeOK, P!Nonces
  <2>3. Over = "no" /\ Over' = "no"
    BY <1>1, <2>1 DEF P!HowEnded
  <2> QED BY <1>0, <1>1, <2>1, <2>2, <2>3 DEF Seen, Tries
<1>4. CASE P!ReturnNonce
  <2>1. at = "won" /\ at' = "verify" /\ got' = {next} /\ UNCHANGED <<wins, tried>>
    BY <1>4 DEF P!ReturnNonce, P!Goto
  <2>2. next \in tried \cap wins
    BY <1>0, <2>1, Numbers DEF MinerInv, P!TypeOK
  <2>3. Over = "no" /\ Over' = "no"
    BY <1>1, <2>1 DEF P!HowEnded
  <2> QED BY <1>1, <2>1, <2>2, <2>3 DEF Seen, HandsOver
<1>5. CASE P!ReturnNone \/ P!Verify
  <2>1. /\ UNCHANGED <<wins, tried, got>>
        /\ \/ at = "search" /\ at' = "none"
           \/ at = "verify" /\ at' \in {"passed", "wrong"}
    BY <1>5 DEF P!ReturnNone, P!Verify, P!Goto
  <2>2. Over = "no" /\ Over' = "ended"
    BY <1>1, <2>1 DEF P!HowEnded
  <2>3. got = {} => tried \cap wins = {}
    BY <1>0, <2>1 DEF MinerInv
  <2> QED BY <1>1, <2>1, <2>2, <2>3 DEF Seen, Ends
<1> QED BY <1>2, <1>3, <1>4, <1>5 DEF P!Next

\* Each search tries nonces, hands over only winners it tried, and does not end
\* by itself with one kept back: it implements NonceSearch.
THEOREM SearchersImplementSearch == Spec => ImplementsSearch
<1>1. Init => Search!Init
  <2> SUFFICES ASSUME Init PROVE Search!Init
    OBVIOUS
  <2>1. SearcherInv
    BY SearcherInvInit
  <2>2. tried = {} /\ wins \subseteq AllNonces
    BY DEF Init, M!Init, D!Init, K!Init, P!Init, AllNonces
  <2>3. Found = {}
    BY DEF Init, M!Init, D!Init, K!Init, P!Init, Found, Is
  <2>4. Over = "no"
    <3>1. CASE search = "mp" /\ M!Init
      BY <3>1 DEF M!Init, M!HowEnded, Over, Is
    <3>2. CASE search = "cuda" /\ D!Init
      BY <3>2 DEF D!Init, D!HowEnded, Over, Is
    <3>3. CASE search = "keccak" /\ K!Init
      <4>1. 0 \in K!Lanes
        BY Numbers DEF K!Lanes
      <4>2. lane[0] = "hash"
        BY <3>3, <4>1 DEF K!Init
      <4>3. K!HowEnded = "no"
        BY <4>1, <4>2 DEF K!HowEnded, K!Exited, K!Running
      <4> QED BY <3>3, <4>3 DEF Over, Is
    <3>4. CASE search = "miner" /\ P!Init
      BY <3>4 DEF P!Init, P!HowEnded, Over, Is
    <3> QED BY <3>1, <3>2, <3>3, <3>4 DEF Init
  <2> QED BY <2>2, <2>3, <2>4 DEF Search!Init, Found, Over, AllNonces
<1>2. SearcherInv /\ [Next]_vars => [Search!Next]_Search!searchVars
  <2> SUFFICES ASSUME SearcherInv, [Next]_vars PROVE Seen
    BY SeenIsAllowed
  <2>1. CASE UNCHANGED vars
    BY <2>1 DEF vars, mpOnly, cudaOnly, keccakOnly, minerOnly, Seen, Rests, Found, Over, Is,
                M!HowEnded, M!Disturbed, D!HowEnded, K!HowEnded, K!Exited, K!Running, P!HowEnded
  <2>2. CASE Next
    BY <2>2, MpIsSeen, CudaIsSeen, KeccakIsSeen, MinerIsSeen DEF Next, SearcherInv, Is
  <2> QED BY <2>1, <2>2
<1> QED BY <1>1, <1>2, SearcherInvariant, PTL DEF Spec, ImplementsSearch, Search!Spec

-----------------------------------------------------------------------------
(* No nonce is hashed twice, which NonceSearch cannot tell: a second hash of *)
(* one would be a stuttering step.                                         *)

\* A lane of keccak_miner that goes on is ahead of what it hashed.
KeccakFresh ==
    \A i \in K!Lanes : lane[i] \in {"hash", "report"} =>
        \A n \in tried : n % NLanes = i => n < nonce[i]

\* What was hashed of a slice is behind a thread, or is the nonce it ended with.
CudaFresh ==
    host = "sync" =>
        \A n \in tried : \/ n < cursor
                         \/ \E t \in D!Threads, k \in 0..Iters :
                               /\ n = cursor + t + k * NThreads
                               /\ \/ k < thread[t].it
                                  \/ k = thread[t].it /\ thread[t].at \in {"store", "out"}

\* Whoever hashes next hashes a new nonce.
HashesAreNew ==
    /\ Is("mp") => \A i \in M!Workers : M!At(i, "hash") => worker[i].nonce \notin tried
    /\ Is("cuda") => \A t \in D!Threads : D!At(t, "hash") => D!NonceOf(t) \notin tried
    /\ Is("keccak") => \A i \in K!Lanes : lane[i] = "hash" => nonce[i] \notin tried
    /\ Is("miner") => (at = "search" => next \notin tried)

LEMMA KeccakFreshStep == ASSUME KeccakInv, KeccakFresh, K!Next PROVE KeccakFresh'
<1>0. K!TypeOK /\ NLanes \in Nat /\ (\A n \in tried : n \in Nat)
  BY Numbers DEF KeccakInv, K!TypeOK, K!Nonces
<1>1. CASE K!Expire
  BY <1>1 DEF K!Expire, KeccakFresh
<1>2. ASSUME NEW i \in K!Lanes, K!Win(i) \/ K!Miss(i) PROVE KeccakFresh'
  <2>1. /\ tried' = tried \cup {nonce[i]} /\ lane[i] = "hash" /\ nonce[i] \in Nat
        /\ \A j \in K!Lanes \ {i} : lane'[j] = lane[j] /\ nonce'[j] = nonce[j]
        /\ \/ lane'[i] = "won" \/ nonce'[i] = nonce[i] + NLanes
    BY <1>0, <1>2 DEF K!Win, K!Miss, K!Hashing, K!LaneGoes, K!TypeOK
  <2>2. nonce[i] % NLanes = i
    <3>1. nonce[i] = i + NLanes * count[i] /\ count[i] \in Nat /\ i \in 0..(NLanes - 1)
      BY <1>0, Numbers DEF KeccakInv, K!TypeOK, K!Lanes
    <3>2. (i + NLanes * count[i]) % NLanes = i
      BY <3>1, Numbers, LaneOf
    <3> QED BY <3>1, <3>2
  <2>3. ASSUME lane'[i] \in {"hash", "report"}, NEW n \in tried', n % NLanes = i
        PROVE  n < nonce'[i]
    <3>1. nonce'[i] = nonce[i] + NLanes /\ NLanes > 0
      BY <2>1, <2>3, Numbers
    <3>2. CASE n = nonce[i]
      BY <1>0, <2>1, <3>1, <3>2
    <3>3. CASE n \in tried
      <4>1. n < nonce[i] /\ n \in Nat
        BY <1>0, <2>1, <2>3, <3>3 DEF KeccakFresh
      <4> QED BY <1>0, <2>1, <3>1, <4>1
    <3> QED BY <2>1, <3>2, <3>3
  <2>4. ASSUME NEW j \in K!Lanes \ {i}, lane'[j] \in {"hash", "report"},
               NEW n \in tried', n % NLanes = j
        PROVE  n < nonce'[j]
    BY <2>1, <2>2, <2>4 DEF KeccakFresh
  <2> QED BY <2>3, <2>4 DEF KeccakFresh
<1>3. ASSUME NEW i \in K!Lanes, K!Say(i) \/ K!Exit(i) \/ K!Rate(i) \/ K!Terminated(i)
      PROVE  KeccakFresh'
  <2>1. UNCHANGED <<tried, nonce>>
    BY <1>3 DEF K!Say, K!Exit, K!Rate, K!Terminated
  <2>2. \A j \in K!Lanes : lane'[j] \in {"hash", "report"} => lane[j] \in {"hash", "report"}
    BY <1>0, <1>3 DEF K!Say, K!Exit, K!Rate, K!Terminated, K!LaneGoes, K!TypeOK
  <2> QED BY <2>1, <2>2 DEF KeccakFresh
<1> QED BY <1>1, <1>2, <1>3 DEF K!Next, K!LaneStep

LEMMA CudaFreshStep == ASSUME CudaInv, CudaFresh, D!Next PROVE CudaFresh'
<1>0. D!TypeOK /\ cursor \in Nat /\ NThreads \in Nat /\ Iters \in Nat /\ (\A n \in tried : n \in Nat)
  <2>1. NThreads * Iters * MaxLaunches \in Nat
    BY Numbers
  <2> QED BY <2>1, Numbers, CudaNumbers DEF CudaInv, D!TypeOK, D!Nonces
<1>1. CASE D!Expire
  BY <1>1 DEF D!Expire, D!hostVars, CudaFresh
<1>2. CASE D!Launch
  <2>1. tried' \subseteq 0..(cursor - 1) /\ cursor' = cursor
    BY <1>2 DEF D!Launch, CudaInv
  <2> QED BY <1>0, <2>1 DEF CudaFresh
<1>3. CASE D!SyncFound \/ D!SyncNothing \/ D!LaunchRefused \/ D!CudaError
  BY <1>3 DEF D!SyncFound, D!SyncNothing, D!LaunchRefused, D!CudaError, CudaFresh
<1>4. ASSUME NEW t \in D!Threads, D!KernelStep(t) PROVE CudaFresh'
  <2>1. /\ host = "sync" /\ UNCHANGED <<wins, expired, cursor, host, printed, skipped>>
        /\ \A u \in D!Threads \ {t} : thread'[u] = thread[u]
    BY <1>4, KernelFrame
  <2>2. /\ thread[t].at # "out" /\ thread[t].it \in 0..Iters /\ thread[t].it \in Nat
        /\ DOMAIN thread = D!Threads
    BY <1>0, <1>4, Numbers, KernelFrame DEF D!TypeOK
  <2>3. \/ thread'[t].it = thread[t].it
        \/ thread'[t].it = thread[t].it + 1 /\ thread[t].at = "hash"
    BY <1>0, <1>4 DEF D!KernelStep, D!Look, D!Hash, D!Store, D!Misses, D!Beaten, D!At, D!TypeOK
  <2>4. thread[t].at = "store" => thread'[t].at = "out" /\ thread'[t].it = thread[t].it
    BY <1>0, <1>4 DEF D!KernelStep, D!Look, D!Hash, D!Store, D!At, D!TypeOK
  <2>5. ASSUME NEW n \in tried, ~(n < cursor), NEW u \in D!Threads, NEW k \in 0..Iters,
               n = cursor + u + k * NThreads,
               \/ k < thread[u].it
               \/ k = thread[u].it /\ thread[u].at \in {"store", "out"}
        PROVE  \/ k < thread'[u].it
               \/ k = thread'[u].it /\ thread'[u].at \in {"store", "out"}
    <3>1. CASE u = t
      <4>1. CASE k < thread[t].it
        BY <2>2, <2>3, <4>1, <3>1
      <4>2. CASE k = thread[t].it /\ thread[t].at = "store"
        BY <2>4, <4>2, <3>1
      <4> QED BY <2>2, <2>5, <3>1, <4>1, <4>2
    <3> QED BY <2>1, <2>5, <3>1
  <2>6. ASSUME D!Hash(t)
        PROVE  /\ tried' = tried \cup {cursor + t + thread[t].it * NThreads}
               /\ \/ thread[t].it < thread'[t].it
                  \/ thread[t].it = thread'[t].it /\ thread'[t].at \in {"store", "out"}
    BY <1>0, <2>2, <2>6 DEF D!Hash, D!Misses, D!Beaten, D!NonceOf, D!TypeOK
  <2>7. ~D!Hash(t) => tried' = tried
    BY <1>4 DEF D!KernelStep, D!Look, D!Store
  <2>8. \A n \in tried' : n \in tried \/ (D!Hash(t) /\ n = cursor + t + thread[t].it * NThreads)
    BY <2>6, <2>7
  <2> SUFFICES ASSUME NEW n \in tried'
               PROVE  \/ n < cursor
                      \/ \E u \in D!Threads, k \in 0..Iters :
                            /\ n = cursor + u + k * NThreads
                            /\ \/ k < thread'[u].it
                               \/ k = thread'[u].it /\ thread'[u].at \in {"store", "out"}
    BY <2>1 DEF CudaFresh
  <2>9. CASE n \in tried
    BY <2>1, <2>5, <2>9 DEF CudaFresh
  <2>10. CASE D!Hash(t) /\ n = cursor + t + thread[t].it * NThreads
    BY <2>2, <2>6, <2>10
  <2> QED BY <2>8, <2>9, <2>10
<1> QED BY <1>1, <1>2, <1>3, <1>4 DEF D!Next, D!HostStep

\* A thread and an iteration have their own nonce.
LEMMA OneThreadOneNonce ==
    ASSUME NEW c \in Nat, NEW t \in D!Threads, NEW u \in D!Threads, NEW j \in Nat, NEW k \in Nat,
           c + t + j * NThreads = c + u + k * NThreads
    PROVE  t = u /\ j = k
<1>0. NThreads \in Nat /\ NThreads > 0 /\ t \in 0..(NThreads - 1) /\ u \in 0..(NThreads - 1)
      /\ t \in Nat /\ u \in Nat
  BY Numbers, CudaNumbers DEF D!Threads
<1>1. j * NThreads \in Nat /\ k * NThreads \in Nat
      /\ j * NThreads = NThreads * j /\ k * NThreads = NThreads * k
  BY <1>0
<1>2. t + NThreads * j = u + NThreads * k
  BY <1>0, <1>1
<1>3. (t + NThreads * j) % NThreads = t /\ (u + NThreads * k) % NThreads = u
  BY <1>0, LaneOf
<1>4. t = u
  BY <1>2, <1>3
<1>5. j > k => j * NThreads >= k * NThreads + NThreads
  BY <1>0
<1>6. k > j => k * NThreads >= j * NThreads + NThreads
  BY <1>0
<1> QED BY <1>0, <1>1, <1>2, <1>4, <1>5, <1>6

FreshInv == SearcherInv /\ (Is("keccak") => KeccakFresh) /\ (Is("cuda") => CudaFresh)

LEMMA FreshIsNew == ASSUME FreshInv PROVE HashesAreNew
<1>1. ASSUME Is("mp"), NEW i \in M!Workers, M!At(i, "hash") PROVE worker[i].nonce \notin tried
  BY <1>1, WorkerNonce DEF FreshInv, SearcherInv, MpInv, M!At
<1>2. ASSUME Is("cuda"), NEW t \in D!Threads, D!At(t, "hash"), D!NonceOf(t) \in tried PROVE FALSE
  <2>1. CudaInv /\ CudaFresh /\ thread[t].at = "hash" /\ thread[t].it \in 0..Iters /\ cursor \in Nat
    BY <1>2, CudaNumbers DEF FreshInv, SearcherInv, CudaInv, D!TypeOK, D!At
  <2>2. host = "sync" /\ thread[t].it < Iters
    BY <2>1 DEF CudaInv, D!KernelOver, D!At
  <2>3. D!NonceOf(t) \in Nat /\ D!NonceOf(t) >= cursor
    BY <2>1, <2>2, ThreadNonce
  <2>4. PICK u \in D!Threads, k \in 0..Iters :
           /\ D!NonceOf(t) = cursor + u + k * NThreads
           /\ \/ k < thread[u].it
              \/ k = thread[u].it /\ thread[u].at \in {"store", "out"}
    BY <1>2, <2>1, <2>2, <2>3 DEF CudaFresh
  <2>5. k \in Nat /\ thread[t].it \in Nat
    BY <2>1, Numbers
  <2>6. t = u /\ thread[t].it = k
    <3>1. cursor + t + thread[t].it * NThreads = cursor + u + k * NThreads
      BY <2>4 DEF D!NonceOf
    <3> QED BY <2>1, <2>5, <3>1, OneThreadOneNonce
  <2> QED BY <2>1, <2>4, <2>5, <2>6
<1>3. ASSUME Is("keccak"), NEW i \in K!Lanes, lane[i] = "hash", nonce[i] \in tried PROVE FALSE
  <2>1. /\ nonce[i] = i + NLanes * count[i] /\ count[i] \in Nat /\ i \in 0..(NLanes - 1)
        /\ nonce[i] \in Nat
    BY <1>3, Numbers DEF FreshInv, SearcherInv, KeccakInv, K!TypeOK, K!Lanes
  <2>2. (i + NLanes * count[i]) % NLanes = i
    BY <2>1, Numbers, LaneOf
  <2>3. nonce[i] < nonce[i]
    BY <1>3, <2>1, <2>2 DEF FreshInv, KeccakFresh
  <2> QED BY <2>1, <2>3
<1>4. ASSUME Is("miner"), at = "search" PROVE next \notin tried
  <2>1. tried = 0..(next - 1) /\ next \in Nat
    BY <1>4, Numbers DEF FreshInv, SearcherInv, MinerInv, P!TypeOK
  <2> QED BY <2>1
<1> QED BY <1>1, <1>2, <1>3, <1>4 DEF HashesAreNew

\* No search hashes a nonce twice: lanes do not overlap, batches, iterations and
\* launches go on where the one before ended.
THEOREM NoNonceTwice == Spec => []HashesAreNew
<1>1. Init => FreshInv
  BY SearcherInvInit DEF Init, FreshInv, Is, K!Init, D!Init, KeccakFresh, CudaFresh
<1>2. FreshInv /\ [Next]_vars => FreshInv'
  <2> SUFFICES ASSUME FreshInv, [Next]_vars PROVE FreshInv'
    OBVIOUS
  <2>1. SearcherInv /\ SearcherInv'
    BY SearcherInvStep DEF FreshInv
  <2>2. CASE UNCHANGED vars
    <3>1. (KeccakFresh' <=> KeccakFresh) /\ (CudaFresh' <=> CudaFresh) /\ search' = search
      BY <2>2 DEF vars, cudaOnly, keccakOnly, KeccakFresh, CudaFresh
    <3> QED BY <2>1, <3>1 DEF FreshInv, Is
  <2>3. CASE Next
    <3>1. search' = search
      BY <2>3 DEF Next
    <3>2. Is("keccak") => KeccakFresh'
      BY <2>1, <2>3, KeccakFreshStep DEF Next, FreshInv, SearcherInv, Is
    <3>3. Is("cuda") => CudaFresh'
      BY <2>1, <2>3, CudaFreshStep DEF Next, FreshInv, SearcherInv, Is
    <3> QED BY <2>1, <3>1, <3>2, <3>3 DEF FreshInv, Is
  <2> QED BY <2>2, <2>3
<1>3. FreshInv => HashesAreNew
  BY FreshIsNew
<1> QED BY <1>1, <1>2, <1>3, PTL DEF Spec
=============================================================================
